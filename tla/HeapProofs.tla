----------------------------- MODULE HeapProofs -----------------------------
(***************************************************************************)
(* The guest's heap, for any page size, memory layout, requests and        *)
(* alignments: the chunks of the two maps tile the memory, no assertion of *)
(* the allocator fails, the chunks in use are those of the guest's blocks, *)
(* and the search through the buckets finds a smallest chunk that fits.    *)
(***************************************************************************)
EXTENDS Heap, QueueProofs

-----------------------------------------------------------------------------
(***************************************************************************)
(* Arithmetic: multiples of the page size, and rounding to them.           *)
(***************************************************************************)

\* A number without remainder is a multiple.
LEMMA Multiple ==
    ASSUME NEW p \in Nat \ {0}, NEW a \in Int, a % p = 0
    PROVE  \E k \in Int : a = k * p
<1> DEFINE k == a \div p
<1>1. k \in Int /\ a = k * p
  OBVIOUS
<1> HIDE DEF k
<1> QED BY <1>1

\* A multiple has no remainder.
LEMMA NoRemainder ==
    ASSUME NEW p \in Nat \ {0}, NEW k \in Int PROVE (k * p) % p = 0
OBVIOUS

\* Sums and differences of multiples are multiples.
LEMMA MultiplesAdd ==
    ASSUME NEW p \in Nat \ {0}, NEW a \in Int, NEW b \in Int, b % p = 0
    PROVE  /\ a % p = 0 => (a + b) % p = 0 /\ (a - b) % p = 0
           /\ (a + b) % p = 0 => a % p = 0
<1> PICK l \in Int : b = l * p
  BY Multiple
<1>1. ASSUME NEW c \in Int, c % p = 0 PROVE (c + b) % p = 0 /\ (c - b) % p = 0
  <2> PICK k \in Int : c = k * p
    BY <1>1, Multiple
  <2>1. c + b = (k + l) * p /\ c - b = (k - l) * p
    OBVIOUS
  <2> QED BY <2>1, NoRemainder
<1>2. a + b \in Int /\ (a + b) - b = a
  OBVIOUS
<1> QED BY <1>1, <1>2

\* Allocator::alloc never rounds down, and from a page on to whole pages.
LEMMA RoundedProps ==
    ASSUME NEW size \in Nat \ {0}
    PROVE  /\ Rounded(size) \in Nat /\ size <= Rounded(size)
           /\ Rounded(size) >= Page => Rounded(size) % Page = 0
<1> USE HeapAssumption DEF HeapAssumption
<1>1. CASE size < Page
  BY <1>1 DEF Rounded
<1>2. CASE size >= Page
  <2> DEFINE k == (size + Page - 1) \div Page
  <2>1. /\ k \in Nat /\ size + Page - 1 < (k + 1) * Page
        /\ (k + 1) * Page = k * Page + Page /\ k * Page \in Nat
    OBVIOUS
  <2>2. Rounded(size) = k * Page
    BY <1>2 DEF Rounded
  <2> QED BY <2>1, <2>2, NoRemainder
<1> QED BY <1>1, <1>2

-----------------------------------------------------------------------------
(***************************************************************************)
(* The invariant, of a value of the two maps.                              *)
(***************************************************************************)
All(heap) == heap.used \cup heap.unused

Addresses == 0 .. Top - 1

InSpace(c) == c \in Chunks /\ End(c) <= Top

\* No address is in two of the chunks.
Apart(chunks) ==
    \A a \in Addresses : \A c, d \in chunks :
        Covers(c, a) /\ Covers(d, a) => c = d

\* The two sets of chunks cover the same addresses.
SameCover(chunks, others) ==
    \A a \in Addresses :
        (\E c \in chunks : Covers(c, a)) <=> (\E d \in others : Covers(d, a))

Sound(heap) ==
    /\ heap.ok
    /\ \A c \in All(heap) : InSpace(c) /\ Aligned(c)
    /\ heap.used \cap heap.unused = {}
    /\ Apart(All(heap))
    /\ \A a \in Addresses : \E c \in All(heap) : Covers(c, a)

\* A chunk covers its first address.
LEMMA CoversBase ==
    ASSUME NEW c, InSpace(c)
    PROVE  /\ c.base \in Addresses /\ Covers(c, c.base)
           /\ c.size \in Nat \ {0} /\ c.base \in Nat
BY HeapAssumption
DEF HeapAssumption, InSpace, Chunks, Addresses, Covers, End

\* Chunks that share an address are one.
LEMMA SoundApart ==
    ASSUME NEW h, Sound(h), NEW c \in All(h), NEW d \in All(h),
           NEW a \in Addresses, Covers(c, a), Covers(d, a)
    PROVE  c = d
BY DEF Sound, Apart

\* Taking chunks out of the maps and putting others in at the same addresses
\* leaves the heap sound, and no assertion of ChunkMap::insert fails.
LEMMA SoundMoved ==
    ASSUME NEW h, Sound(h),
           NEW fromUsed \in SUBSET h.used, NEW fromUnused \in SUBSET h.unused,
           NEW toUsed, NEW toUnused, toUsed \cap toUnused = {},
           \A c \in toUsed \cup toUnused : InSpace(c) /\ Aligned(c),
           Apart(toUsed \cup toUnused),
           SameCover(toUsed \cup toUnused, fromUsed \cup fromUnused)
    PROVE  Sound(Moved(h, fromUsed, toUsed, fromUnused, toUnused))
<1> DEFINE n == Moved(h, fromUsed, toUsed, fromUnused, toUnused)
           in == toUsed \cup toUnused
           out == fromUsed \cup fromUnused
<1>1. /\ n.used = (h.used \ fromUsed) \cup toUsed
      /\ n.unused = (h.unused \ fromUnused) \cup toUnused
      /\ n.ok = (/\ h.ok
                 /\ Enters(toUsed, h.used \ fromUsed)
                 /\ Enters(toUnused, h.unused \ fromUnused))
  BY DEF Moved
<1>2. /\ h.used \cap h.unused = {} /\ out \subseteq All(h)
      /\ All(n) = (All(h) \ out) \cup in
  BY <1>1 DEF Sound, All
<1>3. ASSUME NEW a \in Addresses, NEW c \in in, Covers(c, a),
             NEW d \in All(h) \ out, Covers(d, a)
      PROVE  FALSE
  <2>1. PICK e \in out : Covers(e, a)
    BY <1>3 DEF SameCover
  <2>2. e = d
    BY <1>2, <1>3, <2>1, SoundApart
  <2> QED BY <2>1, <2>2
<1>4. ASSUME NEW c \in in, NEW d \in All(h) \ out PROVE c.base # d.base /\ c # d
  <2>1. InSpace(c) /\ InSpace(d)
    BY DEF Sound
  <2>2. Covers(c, c.base) /\ Covers(d, d.base) /\ c.base \in Addresses
    BY <2>1, CoversBase
  <2> QED BY <2>2, <1>3
<1>5. n.ok
  <2>1. \A c \in in : Aligned(c)
    OBVIOUS
  <2>2. h.used \ fromUsed \subseteq All(h) \ out /\ h.unused \ fromUnused \subseteq All(h) \ out
    BY <1>2 DEF All
  <2>3. h.ok
    BY DEF Sound
  <2> QED BY <1>1, <1>4, <2>1, <2>2, <2>3 DEF Enters
<1>6. \A c \in All(n) : InSpace(c) /\ Aligned(c)
  BY <1>2 DEF Sound
<1>7. n.used \cap n.unused = {}
  <2>1. h.used \ fromUsed \subseteq All(h) \ out /\ h.unused \ fromUnused \subseteq All(h) \ out
    BY <1>2 DEF All
  <2> QED BY <1>1, <1>2, <1>4, <2>1
<1>8. Apart(All(n))
  <2> SUFFICES ASSUME NEW a \in Addresses, NEW c \in All(n), NEW d \in All(n),
                      Covers(c, a), Covers(d, a)
               PROVE  c = d
    BY DEF Apart
  <2>1. CASE c \in in /\ d \in in
    BY <2>1 DEF Apart
  <2>2. CASE c \in All(h) \ out /\ d \in All(h) \ out
    BY <2>2, SoundApart
  <2> QED BY <1>2, <1>3, <2>1, <2>2
<1>9. ASSUME NEW a \in Addresses PROVE \E c \in All(n) : Covers(c, a)
  <2>1. PICK c \in All(h) : Covers(c, a)
    BY DEF Sound
  <2>2. CASE c \in out
    BY <2>1, <2>2, <1>2 DEF SameCover
  <2> QED BY <2>1, <2>2, <1>2
<1> QED BY <1>5, <1>6, <1>7, <1>8, <1>9 DEF Sound

-----------------------------------------------------------------------------
(***************************************************************************)
(* The operations keep the heap sound.                                     *)
(***************************************************************************)

\* What is taken off a chunk and its rump fill the chunk.
LEMMA RumpFills ==
    ASSUME NEW c, InSpace(c), Aligned(c),
           NEW n \in Nat \ {0}, n <= c.size, n >= Page => n % Page = 0
    PROVE  LET parts == {Chunk(c.base, n)} \cup Rump(c, n)
           IN /\ Chunk(c.base, n) \notin Rump(c, n)
              /\ \A d \in parts : InSpace(d) /\ Aligned(d)
              /\ Apart(parts)
              /\ SameCover(parts, {c})
<1> USE HeapAssumption DEF HeapAssumption
<1> DEFINE first == Chunk(c.base, n)
           rest == c.size - n
<1>1. /\ c.base \in Nat /\ c.size \in Nat /\ rest \in Nat /\ c.base + c.size <= Top
      /\ c.size >= Page => c.base % Page = 0
  BY DEF InSpace, Chunks, End, Aligned
<1> USE DEF InSpace, Chunks, End, Aligned, Apart, SameCover, Covers, Chunk, Addresses
<1>2. InSpace(first) /\ Aligned(first)
  BY <1>1
<1>3. CASE rest = 0
  <2>1. Rump(c, n) = {} /\ n = c.size
    BY <1>1, <1>3 DEF Rump
  <2> QED BY <1>1, <1>2, <2>1
<1>4. CASE rest >= Page /\ (c.base + n) % Page # 0
  <2> DEFINE gap == Chunk(c.base + n, Page - n)
             far == Chunk(c.base + Page, c.size - Page)
  <2>1. Rump(c, n) = {gap, far}
    BY <1>1, <1>4 DEF Rump
  <2>2. c.base % Page = 0
    BY <1>1, <1>4
  <2>3. n < Page
    BY <1>1, <1>4, <2>2, MultiplesAdd
  <2>4. (c.base + Page) % Page = 0
    BY <1>1, <2>2, MultiplesAdd
  <2>5. InSpace(gap) /\ Aligned(gap) /\ InSpace(far) /\ Aligned(far)
    BY <1>1, <1>4, <2>3, <2>4
  <2>6. first # gap /\ first # far
    BY <1>1, <2>3
  <2>7. \A a \in Addresses :
           /\ Covers(c, a) <=> Covers(first, a) \/ Covers(gap, a) \/ Covers(far, a)
           /\ ~(Covers(first, a) /\ Covers(gap, a))
           /\ ~(Covers(first, a) /\ Covers(far, a))
           /\ ~(Covers(gap, a) /\ Covers(far, a))
    BY <1>1, <1>4, <2>3
  <2> HIDE DEF first, gap, far, InSpace, Chunks, End, Aligned, Covers, Chunk
  <2> QED BY <1>2, <2>1, <2>5, <2>6, <2>7 DEF first
<1>5. CASE rest # 0 /\ ~(rest >= Page /\ (c.base + n) % Page # 0)
  <2> DEFINE tail == Chunk(c.base + n, rest)
  <2>1. Rump(c, n) = {tail}
    BY <1>1, <1>5 DEF Rump
  <2>2. InSpace(tail) /\ Aligned(tail) /\ first # tail
    BY <1>1, <1>5
  <2>3. \A a \in Addresses :
           /\ Covers(c, a) <=> Covers(first, a) \/ Covers(tail, a)
           /\ ~(Covers(first, a) /\ Covers(tail, a))
    BY <1>1
  <2> HIDE DEF first, tail, InSpace, Chunks, End, Aligned, Covers, Chunk
  <2> QED BY <1>2, <2>1, <2>2, <2>3 DEF first
<1> QED BY <1>3, <1>4, <1>5

\* The chunks to choose from are unused and large enough.
LEMMA AvailableFit ==
    ASSUME NEW size \in Nat \ {0}, NEW chunk \in Available(size)
    PROVE  chunk \in unused /\ Rounded(size) <= chunk.size
BY DEF Available, Choices, SmallestIn

\* Allocator::alloc keeps the heap sound.
LEMMA SoundAllocated ==
    ASSUME NEW h, Sound(h), NEW size \in Nat \ {0},
           NEW chunk \in h.unused, Rounded(size) <= chunk.size
    PROVE  Sound(Allocated(h, chunk, size))
<1> DEFINE n == Rounded(size)
           first == Chunk(chunk.base, n)
<1>1. n \in Nat \ {0} /\ n <= chunk.size /\ (n >= Page => n % Page = 0)
  BY RoundedProps
<1>2. InSpace(chunk) /\ Aligned(chunk)
  BY DEF Sound, All
<1> HIDE DEF n
<1>3. /\ first \notin Rump(chunk, n)
      /\ \A d \in {first} \cup Rump(chunk, n) : InSpace(d) /\ Aligned(d)
      /\ Apart({first} \cup Rump(chunk, n))
      /\ SameCover({first} \cup Rump(chunk, n), {chunk})
  BY <1>1, <1>2, RumpFills
<1> HIDE DEF first
<1>4. {first} \cap Rump(chunk, n) = {} /\ {} \cup {chunk} = {chunk}
  BY <1>3
<1>5. Sound(Moved(h, {}, {first}, {chunk}, Rump(chunk, n)))
  BY <1>3, <1>4, SoundMoved, Zenon
<1> QED BY <1>5 DEF Allocated, n, first

\* Two adjacent chunks and the chunk they are joined into.
LEMMA JoinFills ==
    ASSUME NEW c, NEW d, InSpace(c), InSpace(d),
           End(c) = d.base \/ End(d) = c.base
    PROVE  /\ InSpace(Join(c, d))
           /\ \A a \in Addresses :
                Covers(Join(c, d), a) <=> Covers(c, a) \/ Covers(d, a)
BY HeapAssumption
DEF HeapAssumption, InSpace, Chunks, End, Join, Chunk, Covers, Addresses

\* At most one chunk is adjacent to the freed one on the side that is taken.
LEMMA AdjacentOne ==
    ASSUME NEW h, Sound(h), NEW freed \in h.used
    PROVE  /\ Adjacent(h, freed) \subseteq h.unused
           /\ \A c \in Adjacent(h, freed) :
                  /\ Adjacent(h, freed) = {c}
                  /\ End(c) = freed.base \/ End(freed) = c.base
<1> DEFINE after == {c \in h.unused : c.base = End(freed)}
           before == {c \in h.unused : End(c) = freed.base}
<1>1. ASSUME NEW c \in after, NEW d \in after PROVE c = d
  <2>1. c \in All(h) /\ d \in All(h) /\ InSpace(c) /\ InSpace(d)
    BY DEF Sound, All
  <2>2. /\ c.base \in Addresses /\ Covers(c, c.base)
        /\ Covers(d, d.base) /\ c.base = d.base
    BY <2>1, CoversBase
  <2> QED BY <2>1, <2>2, SoundApart
<1>2. ASSUME NEW c \in before, NEW d \in before PROVE c = d
  <2>1. c \in All(h) /\ d \in All(h) /\ InSpace(c) /\ InSpace(d)
    BY DEF Sound, All
  <2>2. End(c) = End(d)
    OBVIOUS
  <2>3. /\ End(c) - 1 \in Addresses
        /\ Covers(c, End(c) - 1) /\ Covers(d, End(c) - 1)
    BY <2>1, <2>2, HeapAssumption
    DEF HeapAssumption, InSpace, Chunks, End, Covers, Addresses
  <2> QED BY <2>1, <2>3, SoundApart
<1>3. Adjacent(h, freed) = IF after # {} THEN after ELSE before
  BY DEF Adjacent
<1> QED BY <1>1, <1>2, <1>3

\* Allocator::free keeps the heap sound, whether or not it joins chunks.
LEMMA SoundReleased ==
    ASSUME NEW h, Sound(h), NEW freed \in h.used PROVE Sound(Released(h, freed))
<1> DEFINE adjacent == Adjacent(h, freed)
           joined == {Join(c, freed) : c \in adjacent}
           to == IF adjacent # {} /\ \A c \in joined : Aligned(c) THEN joined
                 ELSE adjacent \cup {freed}
<1>1. /\ InSpace(freed) /\ Aligned(freed) /\ freed \in All(h)
      /\ freed \notin h.unused
  BY DEF Sound, All
<1>2. ASSUME adjacent = {}
      PROVE  to = {freed}
  BY <1>2
<1>3. ASSUME NEW c \in adjacent
      PROVE  /\ adjacent = {c} /\ InSpace(c) /\ Aligned(c) /\ c \in All(h)
             /\ c # freed /\ InSpace(Join(c, freed))
             /\ to = IF Aligned(Join(c, freed)) THEN {Join(c, freed)} ELSE {c, freed}
             /\ \A a \in Addresses :
                  Covers(Join(c, freed), a) <=> Covers(c, a) \/ Covers(freed, a)
  <2>1. adjacent = {c} /\ c \in h.unused /\ (End(c) = freed.base \/ End(freed) = c.base)
    BY AdjacentOne
  <2>2. InSpace(c) /\ Aligned(c) /\ c \in All(h) /\ c # freed
    BY <1>1, <2>1 DEF Sound, All
  <2>3. joined = {Join(c, freed)}
    BY <2>1
  <2> QED BY <1>1, <2>1, <2>2, <2>3, JoinFills
<1>4. /\ \A c \in to : InSpace(c) /\ Aligned(c)
      /\ Apart(to)
      /\ SameCover(to, {freed} \cup adjacent)
  <2>1. CASE adjacent = {}
    BY <1>1, <1>2, <2>1 DEF Apart, SameCover
  <2>2. CASE adjacent # {}
    <3> PICK c \in adjacent : TRUE
      BY <2>2
    <3>1. CASE Aligned(Join(c, freed))
      <4>1. to = {Join(c, freed)} /\ adjacent = {c}
        BY <1>3, <3>1
      <4> HIDE DEF to, adjacent
      <4> QED BY <1>3, <3>1, <4>1 DEF Apart, SameCover
    <3>2. CASE ~Aligned(Join(c, freed))
      <4>1. to = {c, freed} /\ adjacent = {c}
        BY <1>3, <3>2
      <4>2. c \in All(h) /\ InSpace(c) /\ Aligned(c)
        BY <1>3
      <4>3. Apart({c, freed})
        BY <1>1, <4>2 DEF Sound, Apart
      <4> HIDE DEF to, adjacent
      <4> QED BY <1>1, <4>1, <4>2, <4>3 DEF SameCover
    <3> QED BY <3>1, <3>2
  <2> QED BY <2>1, <2>2
<1>5. adjacent \subseteq h.unused
  BY AdjacentOne
<1>6. Released(h, freed) = Moved(h, {freed}, {}, adjacent, to)
  BY DEF Released
<1> HIDE DEF to, adjacent
<1>7. {} \cup to = to /\ {} \cap to = {} /\ {freed} \in SUBSET h.used
  OBVIOUS
<1>8. Sound(Moved(h, {freed}, {}, adjacent, to))
  BY <1>4, <1>5, <1>7, SoundMoved, Zenon
<1> QED BY <1>6, <1>8

\* Freeing any address keeps the heap sound.
LEMMA SoundAfterFree ==
    ASSUME NEW h, Sound(h), NEW base PROVE Sound(AfterFree(h, base))
<1>1. CASE {c \in h.used : c.base = base} = {}
  BY <1>1 DEF AfterFree
<1>2. CASE {c \in h.used : c.base = base} # {}
  <2> DEFINE freed == CHOOSE c \in {c \in h.used : c.base = base} : TRUE
  <2>1. freed \in h.used
    BY <1>2
  <2>2. AfterFree(h, base) = Released(h, freed)
    BY <1>2 DEF AfterFree
  <2> HIDE DEF freed
  <2> QED BY <2>1, <2>2, SoundReleased
<1> QED BY <1>1, <1>2

\* Chunk::trisect_by fills the chunk that a segment is reserved in.
LEMMA TrisectFills ==
    ASSUME NEW c, InSpace(c), Aligned(c),
           NEW first \in Nat, NEW pages \in Nat \ {0},
           Within(Chunk(first * Page, pages * Page), c)
    PROVE  LET chunk == Chunk(first * Page, pages * Page)
               parts == {chunk} \cup Trisect(c, chunk)
           IN /\ chunk \notin Trisect(c, chunk)
              /\ \A d \in parts : InSpace(d) /\ Aligned(d)
              /\ Apart(parts)
              /\ SameCover(parts, {c})
<1> USE HeapAssumption DEF HeapAssumption
<1> DEFINE lo == first * Page
           n == pages * Page
           chunk == Chunk(lo, n)
           left == Chunk(c.base, lo - c.base)
           right == Chunk(lo + n, (c.base + c.size) - (lo + n))
<1>1. /\ lo \in Nat /\ lo % Page = 0 /\ n \in Nat /\ n >= Page /\ n % Page = 0
      /\ (lo + n) % Page = 0
  <2>1. lo \in Nat /\ n \in Nat /\ n >= Page
    OBVIOUS
  <2>2. lo % Page = 0 /\ n % Page = 0
    BY NoRemainder
  <2> QED BY <2>1, <2>2, MultiplesAdd
<1>2. /\ c.base \in Nat /\ c.size \in Nat /\ c.base + c.size <= Top
      /\ c.size >= Page => c.base % Page = 0
  BY DEF InSpace, Chunks, End, Aligned
<1> HIDE DEF lo, n
<1>3. c.base <= lo /\ lo + n <= c.base + c.size
  BY DEF Within, Chunk, End, lo, n
<1>4. Trisect(c, chunk) = {side \in {left, right} : side.size > 0}
  BY DEF Trisect, End, Chunk
<1> USE DEF InSpace, Chunks, End, Aligned, Covers, Chunk, Addresses
<1>5. InSpace(chunk) /\ Aligned(chunk)
  BY <1>1, <1>2, <1>3
<1>6. left.size > 0 => InSpace(left) /\ Aligned(left) /\ left # chunk
  BY <1>1, <1>2, <1>3
<1>7. right.size > 0 => InSpace(right) /\ Aligned(right) /\ right # chunk
  BY <1>1, <1>2, <1>3
<1>8. \A a \in Addresses :
         /\ Covers(c, a) <=> Covers(left, a) \/ Covers(chunk, a) \/ Covers(right, a)
         /\ ~(Covers(chunk, a) /\ Covers(left, a))
         /\ ~(Covers(chunk, a) /\ Covers(right, a))
         /\ ~(Covers(left, a) /\ Covers(right, a))
         /\ Covers(left, a) => left.size > 0
         /\ Covers(right, a) => right.size > 0
  BY <1>1, <1>2, <1>3
<1> HIDE DEF chunk, left, right, InSpace, Chunks, End, Aligned, Covers, Chunk
<1>9. /\ chunk \notin Trisect(c, chunk)
      /\ \A d \in {chunk} \cup Trisect(c, chunk) : InSpace(d) /\ Aligned(d)
  BY <1>4, <1>5, <1>6, <1>7
<1>10. Apart({chunk} \cup Trisect(c, chunk))
  BY <1>4, <1>8 DEF Apart
<1>11. SameCover({chunk} \cup Trisect(c, chunk), {c})
  BY <1>4, <1>8 DEF SameCover
<1>12. chunk = Chunk(first * Page, pages * Page)
  BY DEF chunk, lo, n
<1> QED BY <1>9, <1>10, <1>11, <1>12

\* Mem::reserve keeps the heap sound.
LEMMA SoundReserved ==
    ASSUME NEW h, Sound(h), NEW c \in h.unused,
           NEW first \in Nat, NEW pages \in Nat \ {0},
           Within(Chunk(first * Page, pages * Page), c)
    PROVE  LET chunk == Chunk(first * Page, pages * Page)
           IN Sound(Moved(h, {}, {chunk}, {c}, Trisect(c, chunk)))
<1> DEFINE chunk == Chunk(first * Page, pages * Page)
<1>1. InSpace(c) /\ Aligned(c)
  BY DEF Sound, All
<1>2. /\ chunk \notin Trisect(c, chunk)
      /\ \A d \in {chunk} \cup Trisect(c, chunk) : InSpace(d) /\ Aligned(d)
      /\ Apart({chunk} \cup Trisect(c, chunk))
      /\ SameCover({chunk} \cup Trisect(c, chunk), {c})
  BY <1>1, TrisectFills
<1> HIDE DEF chunk
<1>3. {chunk} \cap Trisect(c, chunk) = {} /\ {} \cup {c} = {c}
  BY <1>2
<1>4. Sound(Moved(h, {}, {chunk}, {c}, Trisect(c, chunk)))
  BY <1>2, <1>3, SoundMoved, Zenon
<1> QED BY <1>4 DEF chunk

-----------------------------------------------------------------------------
(***************************************************************************)
(* The invariant of the specification.                                     *)
(***************************************************************************)
HeapInv ==
    /\ Sound(Heap)
    /\ host = "up"
    /\ segments \subseteq Chunks
    /\ owned \subseteq Chunks

\* What the invariant says of the properties.
LEMMA HeapInvImplies == ASSUME HeapInv PROVE Tiled /\ NoHostPanic
<1>1. All(Heap) = used \cup unused /\ Heap.used = used /\ Heap.unused = unused
  BY DEF All, Heap
<1>2. TypeOK
  BY <1>1 DEF HeapInv, Sound, InSpace, TypeOK
<1>3. used \cap unused = {}
  BY <1>1 DEF HeapInv, Sound
<1>4. ASSUME NEW a \in 0 .. Top - 1
      PROVE  /\ \E c \in used \cup unused : Covers(c, a)
             /\ \A c, d \in used \cup unused :
                    Covers(c, a) /\ Covers(d, a) => c = d
  BY <1>1 DEF HeapInv, Sound, Apart, Addresses
<1> QED BY <1>2, <1>3, <1>4 DEF Tiled, NoHostPanic, HeapInv

\* Allocator::new and set_null_segment_size make a sound heap.
LEMMA HeapInit == ASSUME Init PROVE HeapInv
<1> USE HeapAssumption DEF HeapAssumption
<1> DEFINE free == Chunk(NullSize, StackLow - NullSize)
<1>1. /\ Heap.used = {MainStack, NullSegment} /\ Heap.unused = {free} /\ Heap.ok
      /\ All(Heap) = {MainStack, NullSegment, free}
  BY DEF Init, Heap, All
<1> USE DEF MainStack, NullSegment, Chunk, Covers, End, Addresses
<1>2. /\ InSpace(MainStack) /\ InSpace(NullSegment) /\ InSpace(free)
      /\ Aligned(MainStack) /\ Aligned(NullSegment) /\ Aligned(free)
      /\ free # MainStack /\ free # NullSegment
  BY DEF InSpace, Chunks, Aligned
<1>3. \A a \in Addresses :
         /\ Covers(NullSegment, a) \/ Covers(free, a) \/ Covers(MainStack, a)
         /\ ~(Covers(NullSegment, a) /\ Covers(free, a))
         /\ ~(Covers(NullSegment, a) /\ Covers(MainStack, a))
         /\ ~(Covers(free, a) /\ Covers(MainStack, a))
  OBVIOUS
<1> HIDE DEF free, MainStack, NullSegment, Chunk, Covers, End, Addresses
<1>4. Sound(Heap)
  <2>1. Apart(All(Heap))
    BY <1>1, <1>3 DEF Apart
  <2>2. \A a \in Addresses : \E c \in All(Heap) : Covers(c, a)
    BY <1>1, <1>3
  <2>3. Heap.used \cap Heap.unused = {}
    BY <1>1, <1>2
  <2> QED BY <1>1, <1>2, <2>1, <2>2, <2>3 DEF Sound
<1>5. segments \subseteq Chunks
  BY <1>2 DEF Init, InSpace
<1> QED BY <1>4, <1>5 DEF HeapInv, Init

\* A sound value of the maps becomes the heap.
LEMMA BecomesSound ==
    ASSUME NEW h, Sound(h), Becomes(h) PROVE Sound(Heap)' /\ host' = "up"
<1>1. Heap'.used = h.used /\ Heap'.unused = h.unused /\ Heap'.ok /\ h.ok
  BY DEF Becomes, Heap, Sound
<1>2. All(Heap)' = All(h)
  BY <1>1 DEF All
<1> QED BY <1>1, <1>2 DEF Sound, Becomes, Apart

\* What the guest gets from posix_memalign lies in the chunk behind it.
LEMMA AlignedWithin ==
    ASSUME NEW base \in Nat, NEW alignment \in Nat \ {0}
    PROVE  LET at == (base \div alignment + 1) * alignment
           IN at \in Nat /\ base < at /\ at <= base + alignment
OBVIOUS

\* The chunk an allocation returns and what the guest has of it.
LEMMA AllocatedChunk ==
    ASSUME HeapInv, NEW size \in Nat \ {0}, NEW chunk \in Available(size)
    PROVE  /\ chunk \in unused /\ Rounded(size) <= chunk.size
           /\ chunk.base \in Nat /\ chunk.size \in Nat
           /\ chunk.base + chunk.size <= Top
           /\ Rounded(size) \in Nat /\ size <= Rounded(size)
           /\ Sound(Allocated(Heap, chunk, size))
<1>1. chunk \in unused /\ Rounded(size) <= chunk.size
  BY AvailableFit
<1>2. chunk \in All(Heap) /\ chunk \in Heap.unused
  BY <1>1 DEF All, Heap
<1>3. InSpace(chunk)
  BY <1>2 DEF HeapInv, Sound
<1>4. Sound(Allocated(Heap, chunk, size))
  BY <1>1, <1>2, SoundAllocated DEF HeapInv
<1> QED BY <1>1, <1>3, <1>4, RoundedProps DEF InSpace, Chunks, End

\* Every operation preserves the invariant.
LEMMA HeapNext == ASSUME HeapInv, [Next]_vars PROVE HeapInv'
<1> USE HeapAssumption DEF HeapAssumption
<1>1. ASSUME NEW first \in 0 .. Top \div Page, NEW pages \in 0 .. Top \div Page,
             pages > 0, Reserve(Chunk(first * Page, pages * Page))
      PROVE  HeapInv'
  <2> DEFINE chunk == Chunk(first * Page, pages * Page)
  <2>1. PICK c \in unused :
           /\ Within(chunk, c)
           /\ Becomes(Moved(Heap, {}, {chunk}, {c}, Trisect(c, chunk)))
    BY <1>1 DEF Reserve
  <2>2. segments' = segments \cup {chunk} /\ owned' = owned
    BY <1>1 DEF Reserve
  <2>3. c \in Heap.unused /\ c \in All(Heap)
    BY DEF Heap, All
  <2>4. first \in Nat /\ pages \in Nat \ {0}
    BY <1>1
  <2>5. Sound(Moved(Heap, {}, {chunk}, {c}, Trisect(c, chunk)))
    BY <2>1, <2>3, <2>4, SoundReserved DEF HeapInv
  <2>6. InSpace(c) /\ Aligned(c)
    BY <2>3 DEF HeapInv, Sound
  <2>7. chunk \in Chunks
    BY <2>1, <2>4, <2>6, TrisectFills DEF InSpace
  <2> QED BY <2>1, <2>2, <2>5, <2>7, BecomesSound DEF HeapInv
<1>2. ASSUME NEW size \in Sizes, Malloc(size) PROVE HeapInv'
  <2>1. PICK chunk \in Available(size) :
           /\ Becomes(Allocated(Heap, chunk, size))
           /\ owned' = owned \cup {Chunk(chunk.base, size)}
    BY <1>2 DEF Malloc
  <2>2. size \in Nat \ {0} /\ segments' = segments
    BY <1>2 DEF Malloc
  <2>3. Chunk(chunk.base, size) \in Chunks
    BY <2>2, AllocatedChunk DEF Chunk, Chunks
  <2> QED BY <2>1, <2>2, <2>3, AllocatedChunk, BecomesSound DEF HeapInv
<1>3. ASSUME NEW size \in Sizes, NEW alignment \in Alignments,
             PosixMemalign(alignment, size)
      PROVE  HeapInv'
  <2> DEFINE more == size + alignment + 1
  <2>1. PICK chunk \in Available(more) :
           /\ Becomes(Allocated(Heap, chunk, more))
           /\ owned' = owned \cup
                  {Chunk((chunk.base \div alignment + 1) * alignment, size)}
    BY <1>3 DEF PosixMemalign
  <2>2. more \in Nat \ {0} /\ segments' = segments
    BY <1>3 DEF PosixMemalign
  <2>3. size \in Nat \ {0} /\ alignment \in Nat \ {0}
    OBVIOUS
  <2>4. /\ chunk.base \in Nat /\ chunk.size \in Nat
        /\ chunk.base + chunk.size <= Top /\ more <= chunk.size
        /\ Sound(Allocated(Heap, chunk, more))
    BY <2>2, AllocatedChunk
  <2> DEFINE at == (chunk.base \div alignment + 1) * alignment
  <2>5. at \in Nat /\ at <= chunk.base + alignment
    BY <2>3, <2>4, AlignedWithin
  <2> HIDE DEF at
  <2>6. Chunk(at, size) \in Chunks
    BY <2>3, <2>4, <2>5 DEF Chunk, Chunks
  <2> QED BY <2>1, <2>2, <2>4, <2>6, BecomesSound DEF HeapInv, at
<1>4. ASSUME NEW size \in Sizes, NEW block \in owned, ReallocInPlace(block, size)
      PROVE  HeapInv'
  <2>1. PICK c \in used : c.base = block.base /\ c.size >= size
    BY <1>4 DEF ReallocInPlace
  <2>2. c \in Chunks
    BY DEF HeapInv, Sound, InSpace, All, Heap
  <2>3. Chunk(block.base, size) \in Chunks
    <3>1. size \in Nat \ {0} /\ c.base \in 0 .. Top /\ c.size \in 1 .. Top
      BY <2>2 DEF Chunks
    <3> QED BY <2>1, <3>1 DEF Chunk, Chunks
  <2>4. /\ owned' = (owned \ {block}) \cup {Chunk(block.base, size)}
        /\ UNCHANGED <<used, unused, host, segments>>
    BY <1>4 DEF ReallocInPlace
  <2>5. Heap' = Heap
    BY <2>4 DEF Heap
  <2> QED BY <2>3, <2>4, <2>5 DEF HeapInv
<1>5. ASSUME NEW size \in Sizes, NEW block \in owned, ReallocMoved(block, size)
      PROVE  HeapInv'
  <2>1. PICK chunk \in Available(size) :
           /\ Becomes(AfterFree(Allocated(Heap, chunk, size), block.base))
           /\ owned' = (owned \ {block}) \cup {Chunk(chunk.base, size)}
    BY <1>5 DEF ReallocMoved
  <2>2. size \in Nat \ {0} /\ segments' = segments
    BY <1>5 DEF ReallocMoved
  <2>3. Chunk(chunk.base, size) \in Chunks
    BY <2>2, AllocatedChunk DEF Chunk, Chunks
  <2>4. Sound(AfterFree(Allocated(Heap, chunk, size), block.base))
    BY <2>2, AllocatedChunk, SoundAfterFree
  <2> QED BY <2>1, <2>2, <2>3, <2>4, BecomesSound DEF HeapInv
<1>6. ASSUME NEW size \in Sizes, NEW block \in owned, ReallocFailed(block, size)
      PROVE  HeapInv'
  <2>1. /\ Becomes(AfterFree(Heap, block.base)) /\ segments' = segments
        /\ owned' \subseteq owned
    BY <1>6 DEF ReallocFailed
  <2> QED BY <2>1, SoundAfterFree, BecomesSound DEF HeapInv
<1>7. ASSUME NEW block \in owned, Free(block) PROVE HeapInv'
  <2>1. /\ Becomes(AfterFree(Heap, block.base)) /\ segments' = segments
        /\ owned' \subseteq owned
    BY <1>7 DEF Free
  <2> QED BY <2>1, SoundAfterFree, BecomesSound DEF HeapInv
<1>8. ASSUME UNCHANGED vars PROVE HeapInv'
  <2>1. Heap' = Heap
    BY <1>8 DEF Heap, vars
  <2> QED BY <1>8, <2>1 DEF HeapInv, vars
<1> QED BY <1>1, <1>2, <1>3, <1>4, <1>5, <1>6, <1>7, <1>8 DEF Next

\* The chunks of the two maps are disjoint and cover the memory, whatever the
\* guest allocates, moves and frees, and even if it frees what is not its own
\* (allocator.rs).
THEOREM ChunksTile == Spec => []Tiled
<1>1. HeapInv => Tiled
  BY HeapInvImplies
<1> QED BY <1>1, HeapInit, HeapNext, PTL DEF Spec

\* No assertion of the allocator fails (allocator.rs): no chunk of a page or more
\* starts off a page boundary, and none enters a map over another one.
THEOREM AllocatorAsserts == Spec => []NoHostPanic
<1>1. HeapInv => NoHostPanic
  BY HeapInvImplies
<1> QED BY <1>1, HeapInit, HeapNext, PTL DEF Spec

-----------------------------------------------------------------------------
(***************************************************************************)
(* The chunks in use and the blocks of the guest, of a value of the maps.  *)
(***************************************************************************)
Held(heap, blocks) ==
    /\ segments \subseteq heap.used
    /\ \A b \in blocks : \E c \in heap.used \ segments :
           Within(b, c) /\ \A other \in blocks \ {b} : ~Within(other, c)
    /\ \A c \in heap.used \ segments : \E b \in blocks : Within(b, c)

\* A chunk of the maps that a block lies in covers the block's first address.
LEMMA WithinCovers ==
    ASSUME NEW b \in Chunks, NEW c, InSpace(c), Within(b, c)
    PROVE  b.base \in Addresses /\ Covers(c, b.base)
BY HeapAssumption
DEF HeapAssumption, InSpace, Chunks, Within, End, Covers, Addresses

\* An allocation adds one chunk in use, and no block lies in it but the new one.
LEMMA HeldAllocated ==
    ASSUME NEW h, Sound(h), NEW blocks \in SUBSET Chunks, Held(h, blocks),
           NEW size \in Nat \ {0},
           NEW chunk \in h.unused, Rounded(size) <= chunk.size,
           NEW block \in Chunks, Within(block, Chunk(chunk.base, Rounded(size)))
    PROVE  /\ Held(Allocated(h, chunk, size), blocks \cup {block})
           /\ block \notin blocks
<1> DEFINE new == Chunk(chunk.base, Rounded(size))
           n == Allocated(h, chunk, size)
<1>1. n.used = h.used \cup {new} /\ new \in All(n)
  BY DEF Allocated, Moved, All
<1>2. Sound(n) /\ InSpace(new)
  BY <1>1, SoundAllocated DEF Sound
<1>3. ASSUME NEW c \in h.used PROVE c \in All(n) /\ InSpace(c) /\ c # new
  <2>1. InSpace(c) /\ c \in All(h) /\ chunk \in All(h) /\ InSpace(chunk) /\ c # chunk
    BY DEF Sound, All
  <2>2. new.base = chunk.base
    BY DEF Chunk
  <2>3. c.base # chunk.base
    BY <2>1, CoversBase, SoundApart
  <2> QED BY <1>1, <2>1, <2>2, <2>3 DEF All
<1> HIDE DEF new, n
<1>4. ASSUME NEW b \in Chunks, NEW c \in n.used, NEW d \in n.used,
             Within(b, c), Within(b, d)
      PROVE  c = d
  <2>1. c \in All(n) /\ d \in All(n) /\ InSpace(c) /\ InSpace(d)
    BY <1>2 DEF Sound, All
  <2> QED BY <1>2, <1>4, <2>1, WithinCovers, SoundApart
<1>5. Within(block, new) /\ new \in n.used /\ new \notin h.used
  BY <1>1, <1>3 DEF new
<1>6. \A b \in blocks : ~Within(b, new)
  BY <1>1, <1>4, <1>5 DEF Held
<1>7. \A c \in h.used : ~Within(block, c)
  BY <1>1, <1>4, <1>5
<1>8. segments \subseteq n.used /\ new \notin segments
  BY <1>1, <1>5 DEF Held
<1>9. block \notin blocks
  BY <1>5, <1>6
<1>10. ASSUME NEW b \in blocks \cup {block}
       PROVE  \E c \in n.used \ segments :
                 /\ Within(b, c)
                 /\ \A other \in (blocks \cup {block}) \ {b} : ~Within(other, c)
  <2>1. CASE b = block
    BY <1>5, <1>6, <1>8, <2>1
  <2>2. CASE b \in blocks
    BY <1>1, <1>7, <2>2 DEF Held
  <2> QED BY <2>1, <2>2
<1>11. \A c \in n.used \ segments : \E b \in blocks \cup {block} : Within(b, c)
  BY <1>1, <1>5 DEF Held
<1>12. Held(n, blocks \cup {block})
  BY <1>8, <1>10, <1>11 DEF Held
<1> QED BY <1>9, <1>12 DEF n

\* Freeing a block takes its chunk out of use, and no other.
LEMMA HeldFreed ==
    ASSUME NEW h, Sound(h), NEW blocks \in SUBSET Chunks, Held(h, blocks),
           NEW block \in blocks, \E c \in h.used : c.base = block.base
    PROVE  Held(AfterFree(h, block.base), blocks \ {block})
<1>1. PICK own \in h.used \ segments :
         Within(block, own) /\ \A other \in blocks \ {block} : ~Within(other, own)
  BY DEF Held
<1>2. ASSUME NEW c \in h.used, c.base = block.base PROVE c = own
  <2>1. c \in All(h) /\ own \in All(h) /\ InSpace(c) /\ InSpace(own)
    BY DEF Sound, All
  <2> QED BY <1>1, <1>2, <2>1, WithinCovers, CoversBase, SoundApart
<1>3. {c \in h.used : c.base = block.base} = {own}
  BY <1>2
<1>4. AfterFree(h, block.base) = Released(h, own)
  <2>1. (CHOOSE c \in {own} : TRUE) = own
    OBVIOUS
  <2> QED BY <1>3, <2>1 DEF AfterFree
<1>5. Released(h, own).used = h.used \ {own}
  BY DEF Released, Moved
<1>6. ASSUME NEW b \in blocks \ {block}
      PROVE  \E c \in (h.used \ {own}) \ segments :
                /\ Within(b, c)
                /\ \A other \in (blocks \ {block}) \ {b} : ~Within(other, c)
  BY <1>1 DEF Held
<1>7. ASSUME NEW c \in (h.used \ {own}) \ segments
      PROVE  \E b \in blocks \ {block} : Within(b, c)
  <2>1. PICK b \in blocks : Within(b, c)
    BY DEF Held
  <2>2. b # block
    <3>1. c \in All(h) /\ own \in All(h) /\ InSpace(c) /\ InSpace(own)
      BY DEF Sound, All
    <3> QED BY <1>1, <2>1, <3>1, WithinCovers, SoundApart
  <2> QED BY <2>1, <2>2
<1>8. segments \subseteq h.used \ {own}
  BY <1>1 DEF Held
<1> QED BY <1>4, <1>5, <1>6, <1>7, <1>8 DEF Held

-----------------------------------------------------------------------------
(***************************************************************************)
(* The chunks in use are the guest's, for a guest that does not break the  *)
(* two preconditions: it frees an address that a chunk starts at, and      *)
(* gives up a block that it could not enlarge.                             *)
(***************************************************************************)
OwnedInv == HeapInv /\ Held(Heap, owned)

\* A value of the maps that holds these blocks becomes the heap.
LEMMA BecomesHeld ==
    ASSUME NEW h, NEW blocks, Held(h, blocks), Becomes(h),
           owned' = blocks, segments' = segments
    PROVE  Held(Heap, owned)'
<1>1. Heap'.used = h.used
  BY DEF Becomes, Heap
<1> QED BY <1>1 DEF Held

\* Initially the guest has no block, and all chunks in use are segments.
LEMMA OwnedInit == ASSUME Init PROVE OwnedInv
<1>1. Held(Heap, owned)
  BY DEF Init, Held, Heap
<1> QED BY <1>1, HeapInit DEF OwnedInv

\* The loader's segment is a new chunk that no block lies in.
LEMMA OwnedReserve ==
    ASSUME OwnedInv, HeapInv',
           NEW first \in 0 .. Top \div Page, NEW pages \in 0 .. Top \div Page,
           pages > 0, Reserve(Chunk(first * Page, pages * Page))
    PROVE  OwnedInv'
<1> DEFINE chunk == Chunk(first * Page, pages * Page)
<1>1. used' = used \cup {chunk}
  BY DEF Reserve, Becomes, Moved, Heap
<1>2. segments' = segments \cup {chunk} /\ owned' = owned
  BY DEF Reserve
<1> HIDE DEF chunk
<1>3. Heap.used = used /\ Heap'.used = used'
  BY DEF Heap
<1>4. ASSUME NEW b \in owned
      PROVE  \E c \in used' \ segments' :
                Within(b, c) /\ \A other \in owned \ {b} : ~Within(other, c)
  <2>1. PICK c \in used \ segments :
           Within(b, c) /\ \A other \in owned \ {b} : ~Within(other, c)
    BY <1>3 DEF OwnedInv, Held
  <2>2. c # chunk
    <3>1. PICK d \in unused : Within(chunk, d)
      BY DEF Reserve, chunk
    <3>2. /\ c \in All(Heap) /\ d \in All(Heap) /\ c # d
          /\ InSpace(c) /\ InSpace(d)
      BY <3>1 DEF OwnedInv, HeapInv, Sound, Heap, All
    <3>3. chunk \in Chunks
      BY <1>2 DEF HeapInv
    <3> QED BY <3>1, <3>2, <3>3, CoversBase, WithinCovers, SoundApart
            DEF OwnedInv, HeapInv
  <2> QED BY <1>1, <1>2, <2>1, <2>2
<1>5. \A c \in used' \ segments' : \E b \in owned' : Within(b, c)
  BY <1>1, <1>2, <1>3 DEF OwnedInv, Held
<1>6. segments' \subseteq used'
  BY <1>1, <1>2, <1>3 DEF OwnedInv, Held
<1>7. Held(Heap, owned)'
  BY <1>2, <1>3, <1>4, <1>5, <1>6 DEF Held
<1> QED BY <1>7 DEF OwnedInv

\* The other operations, for a guest that keeps the preconditions.
LEMMA OwnedNext ==
    ASSUME OwnedInv, HeapInv', [Next]_vars,
           {"free_aligned_block", "realloc_too_large"} \cap Misuse = {}
    PROVE  OwnedInv'
<1> USE HeapAssumption DEF HeapAssumption
<1>1. HeapInv /\ Sound(Heap) /\ Held(Heap, owned) /\ owned \in SUBSET Chunks
  BY DEF OwnedInv, HeapInv
<1>2. ASSUME NEW size \in Sizes, Malloc(size) PROVE OwnedInv'
  <2>1. PICK chunk \in Available(size) :
           /\ Becomes(Allocated(Heap, chunk, size))
           /\ owned' = owned \cup {Chunk(chunk.base, size)}
    BY <1>2 DEF Malloc
  <2>2. size \in Nat \ {0} /\ segments' = segments
    BY <1>2 DEF Malloc
  <2> DEFINE block == Chunk(chunk.base, size)
  <2>3. /\ block \in Chunks /\ Within(block, Chunk(chunk.base, Rounded(size)))
        /\ chunk \in Heap.unused /\ Rounded(size) <= chunk.size
    BY <1>1, <2>2, AllocatedChunk DEF Chunk, Chunks, Within, End, Heap
  <2> HIDE DEF block
  <2>4. Held(Allocated(Heap, chunk, size), owned \cup {block})
    BY <1>1, <2>2, <2>3, HeldAllocated
  <2> QED BY <2>1, <2>2, <2>4, BecomesHeld DEF OwnedInv, block
<1>3. ASSUME NEW size \in Sizes, NEW alignment \in Alignments,
             PosixMemalign(alignment, size)
      PROVE  OwnedInv'
  <2> DEFINE more == size + alignment + 1
  <2>1. PICK chunk \in Available(more) :
           /\ Becomes(Allocated(Heap, chunk, more))
           /\ owned' = owned \cup
                  {Chunk((chunk.base \div alignment + 1) * alignment, size)}
    BY <1>3 DEF PosixMemalign
  <2>2. more \in Nat \ {0} /\ segments' = segments
    BY <1>3 DEF PosixMemalign
  <2>3. size \in Nat \ {0} /\ alignment \in Nat \ {0}
    OBVIOUS
  <2>4. /\ chunk.base \in Nat /\ chunk.size \in Nat
        /\ chunk.base + chunk.size <= Top
        /\ Rounded(more) \in Nat /\ more <= Rounded(more)
        /\ Rounded(more) <= chunk.size /\ chunk \in Heap.unused
    BY <1>1, <2>2, AllocatedChunk DEF Heap
  <2> DEFINE at == (chunk.base \div alignment + 1) * alignment
             block == Chunk(at, size)
  <2>5. at \in Nat /\ chunk.base < at /\ at <= chunk.base + alignment
    BY <2>3, <2>4, AlignedWithin
  <2> HIDE DEF at
  <2>6. block \in Chunks /\ Within(block, Chunk(chunk.base, Rounded(more)))
    BY <2>3, <2>4, <2>5 DEF Chunk, Chunks, Within, End
  <2> HIDE DEF block, more
  <2>7. Held(Allocated(Heap, chunk, more), owned \cup {block})
    BY <1>1, <2>2, <2>4, <2>6, HeldAllocated
  <2> QED BY <2>1, <2>2, <2>7, BecomesHeld DEF OwnedInv, block, at
<1>4. ASSUME NEW block \in owned, PassesBack(block)
      PROVE  \E c \in Heap.used : c.base = block.base
  BY <1>4 DEF PassesBack, Lawful, Heap
<1>5. ASSUME NEW size \in Sizes, NEW block \in owned, ReallocInPlace(block, size)
      PROVE  OwnedInv'
  <2> DEFINE new == Chunk(block.base, size)
  <2>1. PICK c \in used : c.base = block.base /\ c.size >= size
    BY <1>5 DEF ReallocInPlace
  <2>2. /\ owned' = (owned \ {block}) \cup {new}
        /\ UNCHANGED <<used, unused, host, segments>>
    BY <1>5 DEF ReallocInPlace
  <2>3. PICK own \in used \ segments :
           Within(block, own) /\ \A other \in owned \ {block} : ~Within(other, own)
    BY <1>1 DEF Held, Heap
  <2>4. \A d \in used : d \in All(Heap) /\ InSpace(d)
    BY <1>1 DEF Sound, All, Heap
  <2>5. c = own
    BY <1>1, <2>1, <2>3, <2>4, WithinCovers, CoversBase, SoundApart
  <2>6. new \in Chunks /\ Within(new, own)
    <3>1. size \in Nat \ {0} /\ own.base \in 0 .. Top /\ own.size \in 1 .. Top
      BY <2>3, <2>4 DEF InSpace, Chunks
    <3> QED BY <2>1, <2>5, <3>1 DEF Chunk, Chunks, Within, End
  <2> HIDE DEF new
  <2>7. \A d \in used : Within(new, d) => d = own
    BY <1>1, <2>4, <2>6, WithinCovers, SoundApart
  <2>8. \A b \in owned \ {block}, d \in used : Within(b, d) => d # own
    BY <2>3
  <2>9. Heap.used = used /\ Heap'.used = used
    BY <2>2 DEF Heap
  <2>10. ASSUME NEW b \in owned'
         PROVE  \E d \in used \ segments :
                   Within(b, d) /\ \A other \in owned' \ {b} : ~Within(other, d)
    <3>1. CASE b = new
      BY <2>2, <2>3, <2>6, <3>1
    <3>2. CASE b # new
      <4>1. PICK d \in used \ segments :
               Within(b, d) /\ \A other \in owned \ {b} : ~Within(other, d)
        BY <1>1, <2>2, <2>9, <3>2 DEF Held
      <4> QED BY <2>2, <2>7, <2>8, <3>2, <4>1
    <3> QED BY <3>1, <3>2
  <2>11. ASSUME NEW d \in used \ segments PROVE \E b \in owned' : Within(b, d)
    <3>1. CASE d = own
      BY <2>2, <2>6, <3>1
    <3>2. CASE d # own
      <4>1. PICK b \in owned : Within(b, d)
        BY <1>1, <2>9 DEF Held
      <4>2. b # block
        BY <1>1, <2>3, <2>4, <3>2, <4>1, WithinCovers, SoundApart
      <4> QED BY <2>2, <4>1, <4>2
    <3> QED BY <3>1, <3>2
  <2>12. Held(Heap, owned)'
    BY <1>1, <2>2, <2>9, <2>10, <2>11 DEF Held
  <2> QED BY <2>12 DEF OwnedInv
<1>6. ASSUME NEW size \in Sizes, NEW block \in owned, ReallocMoved(block, size)
      PROVE  OwnedInv'
  <2>1. PICK chunk \in Available(size) :
           /\ Becomes(AfterFree(Allocated(Heap, chunk, size), block.base))
           /\ owned' = (owned \ {block}) \cup {Chunk(chunk.base, size)}
    BY <1>6 DEF ReallocMoved
  <2>2. size \in Nat \ {0} /\ segments' = segments
    BY <1>6 DEF ReallocMoved
  <2> DEFINE new == Chunk(chunk.base, size)
             h == Allocated(Heap, chunk, size)
  <2>3. /\ new \in Chunks /\ Within(new, Chunk(chunk.base, Rounded(size)))
        /\ chunk \in Heap.unused /\ Rounded(size) <= chunk.size
        /\ Sound(h)
    <3>1. Sound(h)
      BY <1>1, <2>2, AllocatedChunk
    <3> HIDE DEF h
    <3> QED BY <1>1, <2>2, <3>1, AllocatedChunk DEF Chunk, Chunks, Within, End, Heap
  <2> HIDE DEF new
  <2>4. Held(h, owned \cup {new}) /\ new \notin owned
    BY <1>1, <2>2, <2>3, HeldAllocated
  <2>5. \E c \in h.used : c.base = block.base
    <3>1. Heap.used \subseteq h.used
      BY DEF Allocated, Moved
    <3> QED BY <1>4, <1>6, <3>1 DEF ReallocMoved
  <2> HIDE DEF h
  <2>6. Held(AfterFree(h, block.base), (owned \cup {new}) \ {block})
    BY <1>1, <2>3, <2>4, <2>5, HeldFreed
  <2>7. owned' = (owned \cup {new}) \ {block}
    BY <2>1, <2>4 DEF new
  <2> QED BY <2>1, <2>2, <2>6, <2>7, BecomesHeld DEF OwnedInv, h
<1>7. ASSUME NEW block \in owned, PassesBack(block),
             Becomes(AfterFree(Heap, block.base)),
             owned' = owned \ {block}, segments' = segments
      PROVE  OwnedInv'
  <2>1. Held(AfterFree(Heap, block.base), owned \ {block})
    BY <1>1, <1>4, <1>7, HeldFreed
  <2> QED BY <1>7, <2>1, BecomesHeld DEF OwnedInv
<1>8. ASSUME NEW size \in Sizes, NEW block \in owned, ReallocFailed(block, size)
      PROVE  OwnedInv'
  BY <1>7, <1>8 DEF ReallocFailed
<1>9. ASSUME NEW block \in owned, Free(block) PROVE OwnedInv'
  BY <1>7, <1>9 DEF Free
<1>10. ASSUME UNCHANGED vars PROVE OwnedInv'
  <2>1. Heap' = Heap
    BY <1>10 DEF Heap, vars
  <2> QED BY <1>1, <1>10, <2>1 DEF OwnedInv, Held, vars
<1> QED BY <1>2, <1>3, <1>5, <1>6, <1>8, <1>9, <1>10, OwnedReserve DEF Next

\* malloc, posix_memalign, realloc and free neither lose a block of the guest nor
\* keep one that nobody owns (stdlib.rs, mem.rs), if the guest does not free an
\* address inside a chunk, and gives up what realloc could not enlarge.
THEOREM UsedChunksOwned ==
    ASSUME {"free_aligned_block", "realloc_too_large"} \cap Misuse = {}
    PROVE  Spec => []UsedIsOwned
<1>1. OwnedInv => UsedIsOwned
  BY DEF OwnedInv, Held, Heap, UsedIsOwned, OwnedAreUsed, NothingLeaks
<1>2. OwnedInv /\ [Next]_vars => OwnedInv'
  <2>1. OwnedInv => HeapInv
    BY DEF OwnedInv
  <2> QED BY <2>1, HeapNext, OwnedNext
<1> QED BY <1>1, <1>2, OwnedInit, PTL DEF Spec

-----------------------------------------------------------------------------
(***************************************************************************)
(* The search through the buckets.                                         *)
(***************************************************************************)

\* The powers of two count the subsets of intervals: they grow, and the k-th is
\* above k.
LEMMA Powers ==
    /\ 2 ^ 0 = 1
    /\ \A k \in Nat : 2 ^ k \in Nat /\ k < 2 ^ k
    /\ \A k, l \in Nat : k <= l => 2 ^ k <= 2 ^ l
<1>1. ASSUME NEW k \in Nat
      PROVE  /\ IsFiniteSet(1 .. k) /\ IsFiniteSet(SUBSET (1 .. k))
             /\ Cardinality(SUBSET (1 .. k)) = 2 ^ k
             /\ 2 ^ k \in Nat
  <2>1. IsFiniteSet(1 .. k) /\ Cardinality(1 .. k) = k
    BY FS_Interval
  <2>2. /\ IsFiniteSet(SUBSET (1 .. k))
        /\ Cardinality(SUBSET (1 .. k)) = 2 ^ Cardinality(1 .. k)
    BY <2>1, FS_SUBSET
  <2>3. Cardinality(SUBSET (1 .. k)) \in Nat
    BY <2>2, FS_CardinalityType
  <2> QED BY <2>1, <2>2, <2>3
<1>2. ASSUME NEW k \in Nat, NEW l \in Nat, k <= l PROVE 2 ^ k <= 2 ^ l
  <2>1. SUBSET (1 .. k) \in SUBSET (SUBSET (1 .. l))
    BY <1>2
  <2>2. Cardinality(SUBSET (1 .. k)) <= Cardinality(SUBSET (1 .. l))
    BY <1>1, <2>1, FS_Subset
  <2> QED BY <1>1, <2>2
<1>3. ASSUME NEW k \in Nat PROVE k < 2 ^ k
  <2> DEFINE f == [i \in 0 .. k |-> 1 .. i]
  <2>1. f \in Injection(0 .. k, SUBSET (1 .. k))
    <3>1. f \in [0 .. k -> SUBSET (1 .. k)]
      OBVIOUS
    <3>2. ASSUME NEW i \in 0 .. k, NEW j \in 0 .. k, f[i] = f[j] PROVE i = j
      <4>1. 1 .. i = 1 .. j
        BY <3>2
      <4>2. CASE i < j
        <5>1. j \in 1 .. j /\ j \notin 1 .. i
          BY <4>2
        <5> QED BY <4>1, <5>1
      <4>3. CASE j < i
        <5>1. i \in 1 .. i /\ i \notin 1 .. j
          BY <4>3
        <5> QED BY <4>1, <5>1
      <4> QED BY <4>2, <4>3
    <3> QED BY <3>1, <3>2 DEF Injection, IsInjective
  <2>2. Cardinality(0 .. k) <= Cardinality(SUBSET (1 .. k))
    BY <1>1, <2>1, FS_Injection
  <2>3. Cardinality(0 .. k) = k + 1
    BY FS_Interval
  <2> DEFINE p == 2 ^ k
  <2>4. p \in Nat /\ k + 1 <= p
    BY <1>1, <2>2, <2>3
  <2> HIDE DEF p
  <2>5. k < p
    BY <2>4
  <2> QED BY <2>5 DEF p
<1>4. 2 ^ 0 = 1
  OBVIOUS
<1> QED BY <1>1, <1>2, <1>3, <1>4

\* The bucket of a size is its logarithm.
LEMMA BucketProps ==
    ASSUME NEW n \in 1 .. Top
    PROVE  /\ BucketFor(n) \in 0 .. Top
           /\ 2 ^ BucketFor(n) <= n /\ n < 2 ^ (BucketFor(n) + 1)
<1> DEFINE above == {k \in Nat : n < 2 ^ k}
<1>1. n \in Nat /\ n \in above
  BY Powers, HeapAssumption DEF HeapAssumption
<1>2. PICK j \in above : \A k \in above : j <= k
  BY <1>1, Least
<1>3. j # 0
  <2>1. ~(n < 1)
    OBVIOUS
  <2> QED BY <1>2, <2>1, Powers
<1>4. j - 1 \in Nat /\ (j - 1) + 1 = j /\ j - 1 \notin above
  BY <1>2, <1>3
<1>5. 2 ^ (j - 1) <= n
  <2>1. 2 ^ (j - 1) \in Nat /\ ~(n < 2 ^ (j - 1))
    BY <1>1, <1>4, Powers
  <2> QED BY <1>1, <2>1
<1>6. n < 2 ^ ((j - 1) + 1)
  BY <1>4
<1>7. j - 1 \in 0 .. Top
  BY <1>1, <1>2, <1>4, HeapAssumption DEF HeapAssumption
<1> QED BY <1>5, <1>6, <1>7 DEF BucketFor

\* A smaller chunk is in no higher bucket.
LEMMA BucketMonotone ==
    ASSUME NEW m \in 1 .. Top, NEW n \in 1 .. Top, m <= n
    PROVE  BucketFor(m) <= BucketFor(n)
<1> DEFINE b == BucketFor(m)
           c == BucketFor(n)
<1>1. /\ b \in Nat /\ c \in Nat /\ 2 ^ b <= m /\ n < 2 ^ (c + 1)
      /\ 2 ^ b \in Nat /\ 2 ^ (c + 1) \in Nat
  BY BucketProps, Powers
<1> HIDE DEF b, c
<1>2. ASSUME c + 1 <= b PROVE FALSE
  <2>1. 2 ^ (c + 1) <= 2 ^ b
    BY <1>1, <1>2, Powers
  <2> DEFINE p == 2 ^ (c + 1)
             q == 2 ^ b
  <2>2. p \in Nat /\ q \in Nat /\ q <= m /\ n < p /\ p <= q
    BY <1>1, <2>1
  <2> HIDE DEF p, q
  <2> QED BY <2>2
<1>3. b \in Nat /\ c \in Nat /\ ~(c + 1 <= b)
  BY <1>1, <1>2
<1>4. b <= c
  BY <1>3
<1> QED BY <1>4 DEF b, c

\* The smallest of some chunks exists.
LEMMA SmallestExists ==
    ASSUME NEW chunks, chunks # {}, \A c \in chunks : c.size \in Nat
    PROVE  \E c \in chunks : \A d \in chunks : c.size <= d.size
<1> DEFINE sizes == {c.size : c \in chunks}
<1>1. sizes \in SUBSET Nat /\ sizes # {}
  OBVIOUS
<1>2. PICK n \in sizes : \A m \in sizes : n <= m
  BY <1>1, Least
<1> QED BY <1>2

\* Choices finds exactly the smallest chunks that are large enough.
LEMMA ChoicesSmallest ==
    ASSUME unused \subseteq Chunks, NEW size \in Nat \ {0}
    PROVE  LET fitting == {c \in unused : c.size >= size}
           IN Choices(size) = {c \in fitting : \A d \in fitting : c.size <= d.size}
<1> DEFINE fitting == {c \in unused : c.size >= size}
           smallest == {c \in fitting : \A d \in fitting : c.size <= d.size}
           own == BucketFor(size)
           larger == {BucketFor(c.size) : c \in unused} \ 0 .. own
           next == {b \in larger : \A other \in larger : b <= other}
<1>1. \A c \in unused : c.size \in 1 .. Top /\ c.size \in Nat
  BY HeapAssumption DEF HeapAssumption, Chunks
<1>2. \A b : SmallestIn(size, b) =
         {c \in fitting : /\ BucketFor(c.size) = b
                          /\ \A d \in fitting :
                                BucketFor(d.size) = b => c.size <= d.size}
  BY DEF SmallestIn
<1>3. Choices(size) = IF SmallestIn(size, own) # {} THEN SmallestIn(size, own)
                      ELSE UNION {SmallestIn(size, b) : b \in next}
  BY DEF Choices
<1>4. \A c, d \in unused :
         c.size <= d.size => BucketFor(c.size) <= BucketFor(d.size)
  BY <1>1, BucketMonotone
<1>5. \A c \in unused : BucketFor(c.size) \in Nat
  BY <1>1, BucketProps, HeapAssumption DEF HeapAssumption
<1>6. CASE fitting = {}
  <2>1. \A b : SmallestIn(size, b) = {}
    BY <1>2, <1>6
  <2>2. smallest = {}
    BY <1>6
  <2> HIDE DEF own, next, fitting, smallest
  <2>3. Choices(size) = smallest
    BY <1>3, <2>1, <2>2
  <2> QED BY <2>3 DEF smallest, fitting
<1>7. CASE fitting # {}
  <2>1. size \in 1 .. Top /\ own \in Nat
    BY <1>1, <1>7, BucketProps, HeapAssumption DEF HeapAssumption
  <2>2. \A c \in fitting : own <= BucketFor(c.size)
    BY <1>1, <2>1, BucketMonotone
  <2>3. \A c \in unused : c \notin fitting => BucketFor(c.size) <= own
    BY <1>1, <2>1, BucketMonotone
  <2>4. ASSUME NEW b \in Nat, \A d \in fitting : b <= BucketFor(d.size),
               NEW e \in fitting, BucketFor(e.size) = b
        PROVE  SmallestIn(size, b) = smallest
    <3>1. ASSUME NEW c \in SmallestIn(size, b), NEW d \in fitting
          PROVE  c.size <= d.size
      <4>1. c \in fitting /\ BucketFor(c.size) = b
        BY <1>2
      <4>2. CASE BucketFor(d.size) = b
        BY <1>2, <4>2
      <4>3. CASE BucketFor(d.size) # b
        <5>1. b < BucketFor(d.size)
          BY <1>5, <2>4, <4>3
        <5> QED BY <1>1, <1>4, <1>5, <4>1, <5>1
      <4> QED BY <4>2, <4>3
    <3>2. ASSUME NEW c \in smallest PROVE c \in SmallestIn(size, b)
      <4>1. BucketFor(c.size) <= b
        BY <1>4, <2>4
      <4>2. BucketFor(c.size) = b
        BY <1>5, <2>4, <4>1
      <4> QED BY <1>2, <4>2
    <3> QED BY <1>2, <3>1, <3>2
  <2>5. CASE \E c \in fitting : BucketFor(c.size) = own
    <3>1. SmallestIn(size, own) = smallest
      BY <2>1, <2>2, <2>4, <2>5
    <3>2. smallest # {}
      BY <1>1, <1>7, SmallestExists
    <3> QED BY <1>3, <3>1, <3>2
  <2>6. CASE ~\E c \in fitting : BucketFor(c.size) = own
    <3>1. SmallestIn(size, own) = {}
      BY <1>2, <2>6
    <3>2. larger = {BucketFor(c.size) : c \in fitting}
      <4>1. \A c \in fitting : BucketFor(c.size) \notin 0 .. own
        BY <1>5, <2>1, <2>2, <2>6
      <4>2. \A c \in unused : c \notin fitting => BucketFor(c.size) \in 0 .. own
        BY <1>5, <2>1, <2>3
      <4> QED BY <4>1, <4>2
    <3>3. larger \in SUBSET Nat /\ larger # {}
      BY <1>5, <1>7, <3>2
    <3>4. PICK b \in larger : \A other \in larger : b <= other
      BY <3>3, Least
    <3>5. next = {b}
      BY <3>3, <3>4
    <3>6. SmallestIn(size, b) = smallest
      <4>1. b \in Nat /\ \A d \in fitting : b <= BucketFor(d.size)
        BY <3>2, <3>3, <3>4
      <4>2. PICK e \in fitting : BucketFor(e.size) = b
        BY <3>2
      <4> QED BY <2>4, <4>1, <4>2
    <3> HIDE DEF own, next, fitting, smallest, larger
    <3>7. Choices(size) = UNION {SmallestIn(size, b)}
      BY <1>3, <3>1, <3>5
    <3>8. Choices(size) = smallest
      BY <3>6, <3>7
    <3> QED BY <3>8 DEF smallest, fitting
  <2> QED BY <2>5, <2>6
<1> QED BY <1>6, <1>7

\* The search from the bucket of a size upwards finds the smallest chunk that is
\* large enough, and fails only if there is none (allocator.rs).
THEOREM SearchBestFit == Spec => []BestFit
<1>1. HeapInv => BestFit
  <2> SUFFICES ASSUME HeapInv, NEW s \in Sizes
               PROVE  LET fitting == {c \in unused : c.size >= Rounded(s)}
                      IN Choices(Rounded(s)) =
                           {c \in fitting : \A d \in fitting : c.size <= d.size}
    BY DEF BestFit
  <2>1. unused \subseteq Chunks
    BY HeapInvImplies DEF Tiled, TypeOK
  <2>2. s \in Nat \ {0}
    BY HeapAssumption DEF HeapAssumption
  <2>3. Rounded(s) \in Nat \ {0}
    BY <2>2, RoundedProps
  <2> QED BY <2>1, <2>3, ChoicesSmallest
<1> QED BY <1>1, HeapInit, HeapNext, PTL DEF Spec
=============================================================================
