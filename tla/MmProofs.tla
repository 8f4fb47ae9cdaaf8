------------------------------ MODULE MmProofs ------------------------------
(***************************************************************************)
(* The malloc package for every heap size, chunk size, number of free      *)
(* lists and set of requests.                                              *)
(*                                                                         *)
(* Blocks are found from the first by their sizes, and free blocks from    *)
(* the heads of the lists by their links.  Both walks are recursive, so    *)
(* the invariant does not speak of them: it says that there is a set of    *)
(* block pointers that tile the heap from the prologue to the epilogue     *)
(* (Tiles), that links and heads join the free ones of them into lists     *)
(* along which a rank decreases (Linked), and that no two neighbours are   *)
(* free (NoTwoFree).  That the walks of Mm find just these blocks follows  *)
(* from it.                                                                *)
(***************************************************************************)
EXTENDS Mm, Foundations, TLAPS

Mems == [Lo .. Hi -> Word]
Pointers == {NULL} \cup Lo .. Hi
HeapRecords == [mem : Mems, brk : Lo .. Hi + 1, head : [Lists -> Pointers], listp : {NULL, Lo + 2}]

Sz(m, b) == m[b - 1][2]
Al(m, b) == m[b - 1][3]

\* g has the same limits as h.
Fixed(h, g) == g \in HeapRecords /\ g.brk = h.brk /\ g.listp = h.listp

---------------------------------------------------------------------------
(* What is written *)

\* The bounds of the heap.
LEMMA Bounds == Lo = 2 /\ NULL = 0 /\ Hi \in Nat /\ Hi >= 5 /\ Hi = MaxHeap + 1 /\ MaxHeap \in Nat
BY MmAssumption DEF Lo, Hi, NULL

Put(h, b, v) == [h EXCEPT !.mem[b] = v]
PutTwo(h, b, u, c, v) == [h EXCEPT !.mem[b] = u, !.mem[c] = v]
PutHead(h, i, p) == [h EXCEPT !.head[i] = p]

\* A write changes its word and nothing else.
LEMMA OneWord ==
    ASSUME NEW h \in HeapRecords, NEW b \in Lo .. Hi, NEW v \in Word
    PROVE  /\ Fixed(h, Put(h, b, v)) /\ Put(h, b, v).head = h.head
           /\ \A w \in Lo .. Hi : Put(h, b, v).mem[w] = IF w = b THEN v ELSE h.mem[w]
<1> DEFINE g == Put(h, b, v)
           m == [h.mem EXCEPT ![b] = v]
<1>1. h.mem \in Mems  BY DEF HeapRecords
<1>2. m \in Mems /\ \A w \in Lo .. Hi : m[w] = IF w = b THEN v ELSE h.mem[w]
  BY <1>1 DEF Mems
<1>3. g = [h EXCEPT !.mem = m]  BY DEF Put
<1> QED  BY <1>2, <1>3 DEF HeapRecords, Fixed

\* Two writes change two words.
LEMMA TwoWords ==
    ASSUME NEW h \in HeapRecords, NEW b \in Lo .. Hi, NEW c \in Lo .. Hi, b # c, NEW u \in Word, NEW v \in Word
    PROVE  /\ Fixed(h, PutTwo(h, b, u, c, v)) /\ PutTwo(h, b, u, c, v).head = h.head
           /\ \A w \in Lo .. Hi :
                PutTwo(h, b, u, c, v).mem[w] = IF w = b THEN u ELSE IF w = c THEN v ELSE h.mem[w]
<1> DEFINE g == PutTwo(h, b, u, c, v)
           m == [h.mem EXCEPT ![b] = u, ![c] = v]
<1>1. h.mem \in Mems  BY DEF HeapRecords
<1>2. m \in Mems /\ \A w \in Lo .. Hi : m[w] = IF w = b THEN u ELSE IF w = c THEN v ELSE h.mem[w]
  BY <1>1 DEF Mems
<1>3. g = [h EXCEPT !.mem = m]  BY DEF PutTwo
<1> QED  BY <1>2, <1>3 DEF HeapRecords, Fixed

\* A block's link to the one before it on its list takes its first two words.
LEMMA SetPredWrites ==
    ASSUME NEW h \in HeapRecords, NEW b \in Lo .. Hi - 3, NEW p \in Pointers
    PROVE  /\ Fixed(h, SetPred(h, b, p)) /\ SetPred(h, b, p).head = h.head
           /\ \A w \in Lo .. Hi : SetPred(h, b, p).mem[w] = IF w \in {b, b + 1} THEN Half(p) ELSE h.mem[w]
<1>1. b \in Lo .. Hi /\ b + 1 \in Lo .. Hi /\ b # b + 1  BY Bounds
<1>2. Half(p) \in Word  BY DEF Word, Pointers
<1> DEFINE g == PutTwo(h, b, Half(p), b + 1, Half(p))
<1>3. /\ Fixed(h, g) /\ g.head = h.head
      /\ \A w \in Lo .. Hi : g.mem[w] = IF w = b THEN Half(p) ELSE IF w = b + 1 THEN Half(p) ELSE h.mem[w]
  BY <1>1, <1>2, TwoWords
<1>4. SetPred(h, b, p) = g  BY DEF SetPred, PutTwo
<1> HIDE DEF g
<1> QED  BY <1>3, <1>4

\* A block's link to the one after it on its list takes its next two words.
LEMMA SetSuccWrites ==
    ASSUME NEW h \in HeapRecords, NEW b \in Lo .. Hi - 3, NEW p \in Pointers
    PROVE  /\ Fixed(h, SetSucc(h, b, p)) /\ SetSucc(h, b, p).head = h.head
           /\ \A w \in Lo .. Hi : SetSucc(h, b, p).mem[w] = IF w \in {b + 2, b + 3} THEN Half(p) ELSE h.mem[w]
<1>1. b + 2 \in Lo .. Hi /\ b + 3 \in Lo .. Hi /\ b + 2 # b + 3  BY Bounds
<1>2. Half(p) \in Word  BY DEF Word, Pointers
<1> DEFINE g == PutTwo(h, b + 2, Half(p), b + 3, Half(p))
<1>3. /\ Fixed(h, g) /\ g.head = h.head
      /\ \A w \in Lo .. Hi : g.mem[w] = IF w = b + 2 THEN Half(p) ELSE IF w = b + 3 THEN Half(p) ELSE h.mem[w]
  BY <1>1, <1>2, TwoWords
<1>4. SetSucc(h, b, p) = g  BY DEF SetSucc, PutTwo
<1> HIDE DEF g
<1> QED  BY <1>3, <1>4

\* Writing the tags of a block writes its header and its footer.
LEMMA SetTagsWrites ==
    ASSUME NEW h \in HeapRecords, NEW b \in Lo + 1 .. Hi, NEW s \in 3 .. MaxHeap, b + s - 2 \in Lo .. Hi, NEW a \in {0, 1}
    PROVE  /\ Fixed(h, SetTags(h, b, s, a)) /\ SetTags(h, b, s, a).head = h.head
           /\ \A w \in Lo .. Hi :
                SetTags(h, b, s, a).mem[w] = IF w \in {b - 1, b + s - 2} THEN Tag(s, a) ELSE h.mem[w]
<1>1. b - 1 \in Lo .. Hi /\ b + s - 2 \in Lo .. Hi /\ b - 1 # b + s - 2  BY Bounds
<1>2. s \in 0 .. MaxHeap  BY Bounds
<1>3. Tag(s, a) \in Word  BY <1>2 DEF Word
<1> DEFINE g == PutTwo(h, b - 1, Tag(s, a), b + s - 2, Tag(s, a))
<1>4. /\ Fixed(h, g) /\ g.head = h.head
      /\ \A w \in Lo .. Hi : g.mem[w] = IF w = b - 1 THEN Tag(s, a) ELSE IF w = b + s - 2 THEN Tag(s, a) ELSE h.mem[w]
  BY <1>1, <1>3, TwoWords
<1>5. SetTags(h, b, s, a) = g  BY DEF SetTags, HeaderPtr, PutTwo
<1> HIDE DEF g
<1> QED  BY <1>4, <1>5

\* Setting the head of a list changes no other head.
LEMMA SetHead ==
    ASSUME NEW h \in HeapRecords, NEW i \in Lists, NEW p \in Pointers
    PROVE  /\ Fixed(h, PutHead(h, i, p)) /\ PutHead(h, i, p).mem = h.mem
           /\ \A j \in Lists : PutHead(h, i, p).head[j] = IF j = i THEN p ELSE h.head[j]
<1> DEFINE g == PutHead(h, i, p)
           d == [h.head EXCEPT ![i] = p]
<1>1. h.head \in [Lists -> Pointers]  BY DEF HeapRecords
<1>2. d \in [Lists -> Pointers] /\ \A j \in Lists : d[j] = IF j = i THEN p ELSE h.head[j]
  BY <1>1
<1>3. g = [h EXCEPT !.head = d]  BY DEF PutHead
<1> QED  BY <1>2, <1>3 DEF HeapRecords, Fixed

---------------------------------------------------------------------------
(* Blocks that tile a part of the heap *)

\* A header and a footer that agree.
IsBlock(m, b) ==
    /\ b \in Int /\ b % 2 = 0
    /\ Sz(m, b) \in Int /\ Sz(m, b) % 2 = 0 /\ Sz(m, b) >= 6 /\ Al(m, b) \in {0, 1}
    /\ m[b - 1] = Tag(Sz(m, b), Al(m, b)) /\ m[b + Sz(m, b) - 2] = Tag(Sz(m, b), Al(m, b))

\* The blocks of S follow each other from lo up to hi.
Tiles(m, S, lo, hi) ==
    /\ lo \in Int /\ hi \in Int /\ lo <= hi
    /\ \A b \in S : IsBlock(m, b) /\ lo <= b /\ b + Sz(m, b) <= hi /\ b + Sz(m, b) \in S \cup {hi}
    /\ lo \in S \cup {hi}
    /\ \A b, c \in S : b < c => b + Sz(m, b) <= c
    /\ \A c \in S \cup {hi} : c = lo \/ \E b \in S : b + Sz(m, b) = c

\* n holds the same words as m in the block at b.
Holds(m, n, b) == \A w \in b - 1 .. b + Sz(m, b) - 2 : n[w] = m[w]

\* The same tags, rather.
SameTags(m, n, b) == n[b - 1] = m[b - 1] /\ n[b + Sz(m, b) - 2] = m[b + Sz(m, b) - 2]

\* What m and n agree on: all of the blocks of S, or their tags.
Untouched(m, n, S) == \A b \in S : Holds(m, n, b)
Retained(m, n, S) == \A b \in S : SameTags(m, n, b)

SameSizes(m, n, S) == \A b \in S : Sz(n, b) = Sz(m, b) /\ Al(n, b) = Al(m, b)

\* A block whose words are all the same has the same tags.
LEMMA HoldsTags ==
    ASSUME NEW m, NEW n, NEW b, IsBlock(m, b), Holds(m, n, b)
    PROVE  SameTags(m, n, b)
<1>1. b - 1 \in b - 1 .. b + Sz(m, b) - 2 /\ b + Sz(m, b) - 2 \in b - 1 .. b + Sz(m, b) - 2
  BY DEF IsBlock
<1> QED  BY <1>1 DEF Holds, SameTags

\* Where the tags are the same, the blocks are.
LEMMA TagsBlock ==
    ASSUME NEW m, NEW n, NEW b, IsBlock(m, b), SameTags(m, n, b)
    PROVE  IsBlock(n, b) /\ Sz(n, b) = Sz(m, b) /\ Al(n, b) = Al(m, b)
<1>1. Sz(n, b) = Sz(m, b) /\ Al(n, b) = Al(m, b)  BY DEF SameTags, Sz, Al
<1> QED  BY <1>1 DEF IsBlock, SameTags

\* A tiling depends on the tags of its blocks only.
LEMMA TilesFrame ==
    ASSUME NEW m, NEW n, NEW S, NEW lo, NEW hi, Tiles(m, S, lo, hi), Retained(m, n, S)
    PROVE  Tiles(n, S, lo, hi) /\ SameSizes(m, n, S)
<1>1. \A b \in S : IsBlock(n, b) /\ Sz(n, b) = Sz(m, b) /\ Al(n, b) = Al(m, b)
  BY TagsBlock DEF Tiles, Retained
<1> QED  BY <1>1 DEF Tiles, SameSizes

\* One block tiles its own words.
LEMMA TilesOne ==
    ASSUME NEW m, NEW b, IsBlock(m, b)
    PROVE  Tiles(m, {b}, b, b + Sz(m, b))
BY DEF Tiles, IsBlock

\* Tilings meet.
LEMMA TilesJoin ==
    ASSUME NEW m, NEW S, NEW T, NEW lo, NEW mid, NEW hi, Tiles(m, S, lo, mid), Tiles(m, T, mid, hi)
    PROVE  Tiles(m, S \cup T, lo, hi)
<1>1. lo \in Int /\ mid \in Int /\ hi \in Int /\ lo <= mid /\ mid <= hi  BY DEF Tiles
<1>2. \A b \in S : /\ IsBlock(m, b) /\ lo <= b /\ b + Sz(m, b) <= mid /\ b + Sz(m, b) \in S \cup {mid}
                   /\ b \in Int /\ Sz(m, b) \in Int /\ Sz(m, b) >= 6
  BY DEF Tiles, IsBlock
<1>3. \A b \in T : /\ IsBlock(m, b) /\ mid <= b /\ b + Sz(m, b) <= hi /\ b + Sz(m, b) \in T \cup {hi}
                   /\ b \in Int /\ Sz(m, b) \in Int /\ Sz(m, b) >= 6
  BY DEF Tiles, IsBlock
<1>4. lo \in S \cup {mid} /\ mid \in T \cup {hi}  BY DEF Tiles
<1>5. \A b \in S \cup T : /\ IsBlock(m, b) /\ lo <= b /\ b + Sz(m, b) <= hi
                          /\ b + Sz(m, b) \in (S \cup T) \cup {hi}
  BY <1>1, <1>2, <1>3, <1>4
<1>6. ASSUME NEW b \in S \cup T, NEW c \in S \cup T, b < c PROVE b + Sz(m, b) <= c
  <2>1. CASE b \in S /\ c \in S  BY <1>6, <2>1 DEF Tiles
  <2>2. CASE b \in T /\ c \in T  BY <1>6, <2>2 DEF Tiles
  <2>3. CASE b \in S /\ c \in T  BY <1>1, <1>2, <1>3, <2>3
  <2>4. CASE b \in T /\ c \in S  BY <1>1, <1>2, <1>3, <1>6, <2>4
  <2> QED  BY <2>1, <2>2, <2>3, <2>4
<1>7. ASSUME NEW c \in (S \cup T) \cup {hi}, c # lo PROVE \E b \in S \cup T : b + Sz(m, b) = c
  <2>1. CASE c \in S \cup {mid}  BY <1>7, <2>1 DEF Tiles
  <2>2. CASE c \in T \cup {hi} /\ c # mid  BY <2>2 DEF Tiles
  <2> QED  BY <2>1, <2>2
<1> QED  BY <1>1, <1>4, <1>5, <1>6, <1>7 DEF Tiles

\* A tiling can be cut at a block.
LEMMA TilesCut ==
    ASSUME NEW m, NEW S, NEW lo, NEW hi, Tiles(m, S, lo, hi), NEW mid \in S \cup {hi}
    PROVE  Tiles(m, {b \in S : b < mid}, lo, mid) /\ Tiles(m, {b \in S : b >= mid}, mid, hi)
<1> DEFINE L == {b \in S : b < mid}
           R == {b \in S : b >= mid}
<1>1. lo \in Int /\ hi \in Int /\ mid \in Int /\ lo <= mid /\ mid <= hi
  BY DEF Tiles, IsBlock
<1>2. \A b \in S : /\ IsBlock(m, b) /\ lo <= b /\ b + Sz(m, b) <= hi /\ b + Sz(m, b) \in S \cup {hi}
                   /\ b \in Int /\ Sz(m, b) \in Int /\ Sz(m, b) >= 6
  BY DEF Tiles, IsBlock
<1>3. \A b, c \in S : b < c => b + Sz(m, b) <= c  BY DEF Tiles
<1>4. \A b \in L : b + Sz(m, b) <= mid  BY <1>1, <1>2, <1>3
<1>5. Tiles(m, L, lo, mid)
  <2>1. \A b \in L : /\ IsBlock(m, b) /\ lo <= b /\ b + Sz(m, b) <= mid /\ b + Sz(m, b) \in L \cup {mid}
    BY <1>1, <1>2, <1>4
  <2>2. lo \in L \cup {mid}  BY <1>1 DEF Tiles
  <2>3. ASSUME NEW c \in L \cup {mid}, c # lo PROVE \E b \in L : b + Sz(m, b) = c
    <3>1. c \in S \cup {hi} /\ c <= mid  BY <1>1, <2>3
    <3>2. PICK b \in S : b + Sz(m, b) = c  BY <2>3, <3>1 DEF Tiles
    <3>3. b < mid  BY <1>1, <1>2, <3>1, <3>2
    <3> QED  BY <3>2, <3>3
  <2> QED  BY <1>1, <1>3, <2>1, <2>2, <2>3 DEF Tiles
<1>6. Tiles(m, R, mid, hi)
  <2>1. \A b \in R : /\ IsBlock(m, b) /\ mid <= b /\ b + Sz(m, b) <= hi /\ b + Sz(m, b) \in R \cup {hi}
    BY <1>1, <1>2
  <2>2. mid \in R \cup {hi}  BY <1>1
  <2>3. ASSUME NEW c \in R \cup {hi}, c # mid PROVE \E b \in R : b + Sz(m, b) = c
    <3>1. c \in S \cup {hi} /\ c > mid  BY <1>1, <2>3
    <3>2. PICK b \in S : b + Sz(m, b) = c  BY <1>1, <3>1 DEF Tiles
    <3>3. b >= mid  BY <1>1, <1>2, <1>4, <3>1, <3>2
    <3> QED  BY <3>2, <3>3
  <2> QED  BY <1>1, <1>3, <2>1, <2>2, <2>3 DEF Tiles
<1> QED  BY <1>5, <1>6

\* The blocks of S with those from start up to end replaced by those of T.
Swap(S, T, start, end) == {b \in S : b < start} \cup T \cup {b \in S : b >= end}

\* Blocks that tile the words from start to end can take the place of those
\* that did.
LEMMA TilesSwap ==
    ASSUME NEW m, NEW n, NEW S, NEW T, NEW lo, NEW hi, Tiles(m, S, lo, hi),
           NEW start \in S \cup {hi}, NEW end \in S \cup {hi}, Tiles(n, T, start, end),
           Retained(m, n, {b \in S : b < start \/ b >= end})
    PROVE  Tiles(n, Swap(S, T, start, end), lo, hi)
<1>1. Tiles(m, {b \in S : b < start}, lo, start) /\ Tiles(m, {b \in S : b >= end}, end, hi)
  BY TilesCut
<1>2. Tiles(n, {b \in S : b < start}, lo, start)
  <2>1. Retained(m, n, {b \in S : b < start})  BY DEF Retained
  <2> QED  BY <1>1, <2>1, TilesFrame
<1>3. Tiles(n, {b \in S : b >= end}, end, hi)
  <2>1. Retained(m, n, {b \in S : b >= end})  BY DEF Retained
  <2> QED  BY <1>1, <2>1, TilesFrame
<1>4. Tiles(n, {b \in S : b < start} \cup T, lo, end)  BY <1>2, TilesJoin
<1> QED  BY <1>3, <1>4, TilesJoin DEF Swap

\* Blocks lie apart, and one pointer begins or ends one block only.
LEMMA TilesApart ==
    ASSUME NEW m, NEW S, NEW lo, NEW hi, Tiles(m, S, lo, hi)
    PROVE  /\ \A b \in S : b \in Int /\ Sz(m, b) \in Int /\ Sz(m, b) >= 6 /\ lo <= b /\ b + Sz(m, b) <= hi
           /\ \A b, c \in S : b = c \/ b + Sz(m, b) <= c \/ c + Sz(m, c) <= b
<1>1. \A b \in S : b \in Int /\ Sz(m, b) \in Int /\ Sz(m, b) >= 6 /\ lo <= b /\ b + Sz(m, b) <= hi
  BY DEF Tiles, IsBlock
<1>2. \A b, c \in S : b < c => b + Sz(m, b) <= c  BY DEF Tiles
<1>3. \A b, c \in S : b = c \/ b < c \/ c < b  BY <1>1
<1> QED  BY <1>1, <1>2, <1>3

---------------------------------------------------------------------------
(* Blocks that are linked into lists *)

Pd(m, b) == m[b][2]
Sc(m, b) == m[b + 2][2]

\* The links of the blocks in F overlap nothing.
Apart(F) ==
    /\ F \subseteq Lo .. Hi - 3
    /\ \A x, y \in F : x = y \/ x + 4 <= y \/ y + 4 <= x

\* The blocks in F are on the lists ix says, linked both ways; what comes
\* later on a list has a lower rank.
LinkedBy(m, head, F, ix, rk) ==
    /\ \A x \in F :
         /\ Pd(m, x) \in F \cup {NULL} /\ Sc(m, x) \in F \cup {NULL}
         /\ Pd(m, x) = NULL => head[ix[x]] = x
         /\ Pd(m, x) # NULL => Sc(m, Pd(m, x)) = x /\ ix[Pd(m, x)] = ix[x]
         /\ Sc(m, x) # NULL => Pd(m, Sc(m, x)) = x /\ ix[Sc(m, x)] = ix[x] /\ rk[Sc(m, x)] < rk[x]
    /\ \A i \in Lists : /\ head[i] \in F \cup {NULL}
                        /\ head[i] # NULL => ix[head[i]] = i /\ Pd(m, head[i]) = NULL

Linked(m, head, F, ix) == \E k \in Nat : \E rk \in [F -> 0 .. k] : LinkedBy(m, head, F, ix, rk)

\* ix gives every block in F a list.
Indexed(F, ix) == \A x \in F : ix[x] \in Lists

\* Only the links and the lists of the blocks in F count.
SameLinks(m, n, F) == \A x \in F : n[x] = m[x] /\ n[x + 2] = m[x + 2]
SameIndex(ix, jx, F) == \A x \in F : jx[x] = ix[x]

\* Nothing else counts: the lists are as they were when only other words change.
LEMMA LinkedFrame ==
    ASSUME NEW m, NEW n, NEW head, NEW F, NULL \notin F, NEW ix, NEW jx, Linked(m, head, F, ix),
           SameLinks(m, n, F), SameIndex(ix, jx, F)
    PROVE  Linked(n, head, F, jx)
<1>1. PICK k \in Nat : \E rk \in [F -> 0 .. k] : LinkedBy(m, head, F, ix, rk)  BY DEF Linked
<1>2. PICK rk \in [F -> 0 .. k] : LinkedBy(m, head, F, ix, rk)  BY <1>1
<1>3. \A x \in F : Pd(n, x) = Pd(m, x) /\ Sc(n, x) = Sc(m, x) /\ jx[x] = ix[x]
  BY DEF SameLinks, SameIndex, Pd, Sc
<1>4. ASSUME NEW x \in F
      PROVE  /\ Pd(n, x) \in F \cup {NULL} /\ Sc(n, x) \in F \cup {NULL}
             /\ Pd(n, x) = NULL => head[jx[x]] = x
             /\ Pd(n, x) # NULL => Sc(n, Pd(n, x)) = x /\ jx[Pd(n, x)] = jx[x]
             /\ Sc(n, x) # NULL => Pd(n, Sc(n, x)) = x /\ jx[Sc(n, x)] = jx[x] /\ rk[Sc(n, x)] < rk[x]
  BY <1>2, <1>3 DEF LinkedBy
<1>5. \A i \in Lists : /\ head[i] \in F \cup {NULL}
                       /\ head[i] # NULL => jx[head[i]] = i /\ Pd(n, head[i]) = NULL
  BY <1>2, <1>3 DEF LinkedBy
<1>6. LinkedBy(n, head, F, jx, rk)  BY <1>4, <1>5 DEF LinkedBy
<1> QED  BY <1>6 DEF Linked

\* What taking b out of list i writes.
Unlinks(m, n, b) ==
    \A w \in Lo .. Hi :
        n[w] = IF Sc(m, b) # NULL /\ w \in {Sc(m, b), Sc(m, b) + 1} THEN Half(Pd(m, b))
               ELSE IF Pd(m, b) # NULL /\ w \in {Pd(m, b) + 2, Pd(m, b) + 3} THEN Half(Sc(m, b))
               ELSE m[w]

Beheads(m, head, new, b, i) ==
    \A j \in Lists : new[j] = IF Pd(m, b) = NULL /\ j = i THEN Sc(m, b) ELSE head[j]

\* remove_from_list writes that: the links of the two neighbours, or the head.
LEMMA RemoveWrites ==
    ASSUME NEW h \in HeapRecords, NEW b \in Lo .. Hi - 3, ListIndex(BlkSize(h, b)) \in Lists,
           Pd(h.mem, b) \in {NULL} \cup Lo .. Hi - 3, Sc(h.mem, b) \in {NULL} \cup Lo .. Hi - 3
    PROVE  LET g == RemoveFromList(h, b) IN
           /\ Fixed(h, g) /\ Unlinks(h.mem, g.mem, b)
           /\ Beheads(h.mem, h.head, g.head, b, ListIndex(BlkSize(h, b)))
<1> DEFINE i == ListIndex(BlkSize(h, b))
           pred == Pd(h.mem, b)
           succ == Sc(h.mem, b)
           past == IF pred = NULL THEN PutHead(h, i, succ) ELSE SetSucc(h, pred, succ)
           g == RemoveFromList(h, b)
<1>1. PredPtr(h, b) = pred /\ SuccPtr(h, b) = succ  BY DEF PredPtr, SuccPtr, Pd, Sc
<1>2. pred \in Pointers /\ succ \in Pointers  BY Bounds DEF Pointers
<1>3. /\ Fixed(h, past)
      /\ \A w \in Lo .. Hi : past.mem[w] = IF pred # NULL /\ w \in {pred + 2, pred + 3} THEN Half(succ) ELSE h.mem[w]
      /\ \A j \in Lists : past.head[j] = IF pred = NULL /\ j = i THEN succ ELSE h.head[j]
  <2> HIDE DEF i, pred, succ
  <2>1. CASE pred = NULL
    <3>1. past = PutHead(h, i, succ)  BY <2>1
    <3>2. i \in Lists  BY DEF i
    <3> HIDE DEF past
    <3> QED  BY <1>2, <2>1, <3>1, <3>2, SetHead
  <2>2. CASE pred # NULL
    <3>1. past = SetSucc(h, pred, succ)  BY <2>2
    <3>2. pred \in Lo .. Hi - 3  BY <2>2 DEF pred
    <3> HIDE DEF past
    <3>3. /\ Fixed(h, past) /\ past.head = h.head
          /\ \A w \in Lo .. Hi : past.mem[w] = IF w \in {pred + 2, pred + 3} THEN Half(succ) ELSE h.mem[w]
      BY <1>2, <3>1, <3>2, SetSuccWrites
    <3> QED  BY <2>2, <3>3
  <2> QED  BY <2>1, <2>2
<1>4. g = IF succ = NULL THEN past ELSE SetPred(past, succ, pred)
  BY <1>1 DEF RemoveFromList, PutHead
<1>5. /\ Fixed(h, g) /\ g.head = past.head
      /\ \A w \in Lo .. Hi : g.mem[w] = IF succ # NULL /\ w \in {succ, succ + 1} THEN Half(pred) ELSE past.mem[w]
  <2> HIDE DEF i, g, past, pred, succ
  <2>1. CASE succ = NULL  BY <1>3, <1>4, <2>1
  <2>2. CASE succ # NULL
    <3>1. succ \in Lo .. Hi - 3  BY <2>2 DEF succ
    <3>2. past \in HeapRecords /\ g = SetPred(past, succ, pred)  BY <1>3, <1>4, <2>2 DEF Fixed
    <3>3. /\ Fixed(past, g) /\ g.head = past.head
          /\ \A w \in Lo .. Hi : g.mem[w] = IF w \in {succ, succ + 1} THEN Half(pred) ELSE past.mem[w]
      BY <1>2, <3>1, <3>2, SetPredWrites
    <3> QED  BY <1>3, <2>2, <3>3 DEF Fixed
  <2> QED  BY <2>1, <2>2
<1> HIDE DEF g, past, i
<1> QED  BY <1>3, <1>5 DEF Unlinks, Beheads, i, g

\* What it writes leaves the other blocks linked.
LEMMA LinkedRemove ==
    ASSUME NEW m, NEW n, NEW head, NEW new, NEW F, Apart(F), NEW b \in F, NEW ix, Indexed(F, ix),
           Linked(m, head, F, ix), Unlinks(m, n, b), Beheads(m, head, new, b, ix[b])
    PROVE  Linked(n, new, F \ {b}, ix)
<1> DEFINE G == F \ {b}
           pred == Pd(m, b)
           succ == Sc(m, b)
<1>1. PICK k \in Nat : \E rk \in [F -> 0 .. k] : LinkedBy(m, head, F, ix, rk)  BY DEF Linked
<1>2. PICK rk \in [F -> 0 .. k] : LinkedBy(m, head, F, ix, rk)  BY <1>1
<1>3. \A x \in F : x \in Lo .. Hi - 3 /\ x # NULL  BY Bounds DEF Apart
<1>4. \A x, y \in F : x = y \/ x + 4 <= y \/ y + 4 <= x  BY DEF Apart
<1>5. \A p : Half(p)[2] = p  BY DEF Half
<1>6. pred \in F \cup {NULL} /\ succ \in F \cup {NULL} /\ pred # b /\ succ # b
  <2>1. pred \in F \cup {NULL} /\ succ \in F \cup {NULL}  BY <1>2 DEF LinkedBy
  <2>2. succ # b
    <3>1. SUFFICES ASSUME succ = b PROVE FALSE  OBVIOUS
    <3>2. rk[b] < rk[b]  BY <1>2, <1>3, <3>1 DEF LinkedBy
    <3>3. rk[b] \in Int  BY <1>2
    <3> QED  BY <3>2, <3>3
  <2>3. pred # b
    <3>1. SUFFICES ASSUME pred = b PROVE FALSE  OBVIOUS
    <3>2. succ = b  BY <1>2, <1>3, <3>1 DEF LinkedBy
    <3> QED  BY <2>2, <3>2
  <2> QED  BY <2>1, <2>2, <2>3
<1>7. ASSUME NEW x \in G
      PROVE  /\ Pd(n, x) = IF x = succ THEN pred ELSE Pd(m, x)
             /\ Sc(n, x) = IF x = pred THEN succ ELSE Sc(m, x)
  <2>1. x \in Lo .. Hi /\ x + 2 \in Lo .. Hi  BY <1>3, Bounds
  <2>2. n[x] = IF x = succ THEN Half(pred) ELSE m[x]
    <3>1. succ # NULL /\ x # succ => x # succ + 1  BY <1>3, <1>4, <1>6
    <3>2. pred # NULL => x # pred + 2 /\ x # pred + 3  BY <1>3, <1>4, <1>6
    <3>3. n[x] = IF succ # NULL /\ x \in {succ, succ + 1} THEN Half(pred)
                 ELSE IF pred # NULL /\ x \in {pred + 2, pred + 3} THEN Half(succ) ELSE m[x]
      BY <2>1 DEF Unlinks
    <3> QED  BY <1>3, <3>1, <3>2, <3>3
  <2>3. n[x + 2] = IF x = pred THEN Half(succ) ELSE m[x + 2]
    <3>1. succ # NULL => x + 2 # succ /\ x + 2 # succ + 1  BY <1>3, <1>4, <1>6
    <3>2. pred # NULL /\ x # pred => x + 2 # pred + 2 /\ x + 2 # pred + 3  BY <1>3, <1>4, <1>6
    <3>3. n[x + 2] = IF succ # NULL /\ x + 2 \in {succ, succ + 1} THEN Half(pred)
                 ELSE IF pred # NULL /\ x + 2 \in {pred + 2, pred + 3} THEN Half(succ) ELSE m[x + 2]
      BY <2>1 DEF Unlinks
    <3> QED  BY <1>3, <3>1, <3>2, <3>3
  <2> QED  BY <1>5, <2>2, <2>3 DEF Pd, Sc
<1> HIDE DEF pred, succ
<1> DEFINE sk == [x \in G |-> rk[x]]
<1>8. sk \in [G -> 0 .. k] /\ \A x \in G : sk[x] = rk[x]  BY <1>2
<1>9. \A x \in F :
         /\ Pd(m, x) \in F \cup {NULL} /\ Sc(m, x) \in F \cup {NULL}
         /\ Pd(m, x) = NULL => head[ix[x]] = x
         /\ Pd(m, x) # NULL => Sc(m, Pd(m, x)) = x /\ ix[Pd(m, x)] = ix[x]
         /\ Sc(m, x) # NULL => Pd(m, Sc(m, x)) = x /\ ix[Sc(m, x)] = ix[x] /\ rk[Sc(m, x)] < rk[x]
  BY <1>2 DEF LinkedBy
<1>10. \A i \in Lists : /\ head[i] \in F \cup {NULL}
                        /\ head[i] # NULL => ix[head[i]] = i /\ Pd(m, head[i]) = NULL
  BY <1>2 DEF LinkedBy
<1>11. /\ pred = NULL => head[ix[b]] = b
       /\ pred # NULL => Sc(m, pred) = b /\ ix[pred] = ix[b] /\ rk[b] < rk[pred]
       /\ succ # NULL => Pd(m, succ) = b /\ ix[succ] = ix[b] /\ rk[succ] < rk[b]
  BY <1>3, <1>9 DEF pred, succ
<1>12. \A x \in G : Pd(m, x) = b <=> x = succ
  BY <1>3, <1>6, <1>9, <1>11 DEF succ
<1>13. \A x \in G : Sc(m, x) = b <=> x = pred
  BY <1>3, <1>6, <1>9, <1>11 DEF pred
<1>14. \A x \in F : rk[x] \in Int  BY <1>2
<1> HIDE DEF sk
<1>15. ASSUME NEW x \in G
       PROVE  /\ Pd(n, x) \in G \cup {NULL} /\ Sc(n, x) \in G \cup {NULL}
              /\ Pd(n, x) # NULL => Sc(n, Pd(n, x)) = x /\ ix[Pd(n, x)] = ix[x]
              /\ Sc(n, x) # NULL => Pd(n, Sc(n, x)) = x /\ ix[Sc(n, x)] = ix[x] /\ sk[Sc(n, x)] < sk[x]
  <2>1. Pd(n, x) \in G \cup {NULL} /\ Sc(n, x) \in G \cup {NULL}
    BY <1>6, <1>7, <1>9, <1>12, <1>13
  <2>4. Pd(n, x) # NULL => Sc(n, Pd(n, x)) = x /\ ix[Pd(n, x)] = ix[x]
    <3>1. CASE x = succ
      <4>1. Pd(n, x) = pred  BY <1>7, <3>1
      <4>2. pred # NULL => pred \in G /\ Sc(n, pred) = succ  BY <1>6, <1>7
      <4> QED  BY <1>3, <1>11, <3>1, <4>1, <4>2
    <3>2. CASE x # succ
      <4>1. Pd(n, x) = Pd(m, x) /\ Pd(m, x) # b  BY <1>7, <1>12, <3>2
      <4>2. Pd(m, x) # NULL => Pd(m, x) \in G /\ Sc(m, Pd(m, x)) = x  BY <1>9, <4>1
      <4>3. Pd(m, x) # NULL => Pd(m, x) # pred  BY <1>3, <1>11, <4>2
      <4> QED  BY <1>7, <1>9, <4>1, <4>2, <4>3
    <3> QED  BY <3>1, <3>2
  <2>5. Sc(n, x) # NULL => Pd(n, Sc(n, x)) = x /\ ix[Sc(n, x)] = ix[x] /\ sk[Sc(n, x)] < sk[x]
    <3>1. CASE x = pred
      <4>1. Sc(n, x) = succ  BY <1>7, <3>1
      <4>2. succ # NULL => succ \in G /\ Pd(n, succ) = pred  BY <1>6, <1>7
      <4>3. succ # NULL => rk[succ] < rk[x]
        <5>1. SUFFICES ASSUME succ # NULL PROVE rk[succ] < rk[x]  OBVIOUS
        <5>2. rk[succ] < rk[b] /\ rk[b] < rk[x]  BY <1>3, <1>11, <3>1, <5>1
        <5>3. rk[succ] \in Int /\ rk[b] \in Int /\ rk[x] \in Int  BY <1>6, <1>14, <5>1
        <5> QED  BY <5>2, <5>3
      <4> QED  BY <1>3, <1>8, <1>11, <3>1, <4>1, <4>2, <4>3
    <3>2. CASE x # pred
      <4>1. Sc(n, x) = Sc(m, x) /\ Sc(m, x) # b  BY <1>7, <1>13, <3>2
      <4>2. Sc(m, x) # NULL => Sc(m, x) \in G /\ Pd(m, Sc(m, x)) = x  BY <1>9, <4>1
      <4>3. Sc(m, x) # NULL => Sc(m, x) # succ  BY <1>3, <1>11, <4>2
      <4> QED  BY <1>7, <1>8, <1>9, <4>1, <4>2, <4>3
    <3> QED  BY <3>1, <3>2
  <2> QED  BY <2>1, <2>4, <2>5
<1>16. ASSUME NEW x \in G, Pd(n, x) = NULL, ix[x] \in Lists PROVE new[ix[x]] = x
  <2>1. new[ix[x]] = IF pred = NULL /\ ix[x] = ix[b] THEN succ ELSE head[ix[x]]
    BY <1>16 DEF Beheads, pred, succ
  <2>2. CASE x = succ
    <3>1. pred = NULL /\ ix[x] = ix[b]  BY <1>3, <1>7, <1>11, <1>16, <2>2
    <3> QED  BY <2>1, <2>2, <3>1
  <2>3. CASE x # succ
    <3>1. head[ix[x]] = x  BY <1>7, <1>9, <1>16, <2>3
    <3>2. ~ (pred = NULL /\ ix[x] = ix[b])  BY <1>11, <3>1
    <3> QED  BY <2>1, <3>1, <3>2
  <2> QED  BY <2>2, <2>3
<1>17. ASSUME NEW i \in Lists
       PROVE  /\ new[i] \in G \cup {NULL}
              /\ new[i] # NULL => ix[new[i]] = i /\ Pd(n, new[i]) = NULL
  <2>1. new[i] = IF pred = NULL /\ i = ix[b] THEN succ ELSE head[i]
    BY DEF Beheads, pred, succ
  <2>2. CASE pred = NULL /\ i = ix[b]
    BY <1>3, <1>6, <1>7, <1>11, <2>1, <2>2
  <2>3. CASE ~ (pred = NULL /\ i = ix[b])
    <3>1. head[i] # b  BY <1>3, <1>10, <2>3 DEF pred
    <3>2. head[i] # NULL => head[i] # succ  BY <1>3, <1>10, <1>11
    <3> QED  BY <1>3, <1>7, <1>10, <2>1, <2>3, <3>1, <3>2
  <2> QED  BY <2>2, <2>3
<1>18. \A x \in G : ix[x] \in Lists  BY DEF Indexed
<1>19. LinkedBy(n, new, G, ix, sk)  BY <1>15, <1>16, <1>17, <1>18 DEF LinkedBy
<1> QED  BY <1>8, <1>19 DEF Linked

\* What putting b at the head of a list writes, old being the head before.
Links(m, n, b, old) ==
    \A w \in Lo .. Hi :
        n[w] = IF w \in {b, b + 1} THEN Half(NULL)
               ELSE IF w \in {b + 2, b + 3} THEN Half(old)
               ELSE IF old # NULL /\ w \in {old, old + 1} THEN Half(b)
               ELSE m[w]

Heads(head, new, b, i) == \A j \in Lists : new[j] = IF j = i THEN b ELSE head[j]

\* list_push_front writes that: the block's links, the old head's, the head.
LEMMA PushWrites ==
    ASSUME NEW h \in HeapRecords, NEW b \in Lo .. Hi - 3, NEW i \in Lists, i = ListIndex(BlkSize(h, b)),
           h.head[i] \in {NULL} \cup Lo .. Hi - 3
    PROVE  LET g == ListPushFront(h, b) IN
           Fixed(h, g) /\ Links(h.mem, g.mem, b, h.head[i]) /\ Heads(h.head, g.head, b, i)
<1> DEFINE old == h.head[i]
           back == IF old = NULL THEN h ELSE SetPred(h, old, b)
           one == SetPred(back, b, NULL)
           two == SetSucc(one, b, old)
           g == ListPushFront(h, b)
<1>1. old \in Pointers /\ b \in Pointers /\ NULL \in Pointers  BY Bounds DEF Pointers
<1>2. /\ Fixed(h, back) /\ back.head = h.head
      /\ \A w \in Lo .. Hi : back.mem[w] = IF old # NULL /\ w \in {old, old + 1} THEN Half(b) ELSE h.mem[w]
  <2> HIDE DEF old
  <2>1. CASE old = NULL
    <3>1. back = h  BY <2>1
    <3> HIDE DEF back
    <3> QED  BY <2>1, <3>1 DEF Fixed
  <2>2. CASE old # NULL
    <3>1. back = SetPred(h, old, b)  BY <2>2
    <3>2. old \in Lo .. Hi - 3  BY <2>2 DEF old
    <3> HIDE DEF back
    <3>3. /\ Fixed(h, back) /\ back.head = h.head
          /\ \A w \in Lo .. Hi : back.mem[w] = IF w \in {old, old + 1} THEN Half(b) ELSE h.mem[w]
      BY <1>1, <3>1, <3>2, SetPredWrites
    <3> QED  BY <2>2, <3>3
  <2> QED  BY <2>1, <2>2
<1> HIDE DEF back
<1>3. /\ Fixed(back, one) /\ one.head = back.head
      /\ \A w \in Lo .. Hi : one.mem[w] = IF w \in {b, b + 1} THEN Half(NULL) ELSE back.mem[w]
  <2>1. back \in HeapRecords  BY <1>2 DEF Fixed
  <2> QED  BY <1>1, <2>1, SetPredWrites
<1> HIDE DEF one
<1>4. /\ Fixed(one, two) /\ two.head = one.head
      /\ \A w \in Lo .. Hi : two.mem[w] = IF w \in {b + 2, b + 3} THEN Half(old) ELSE one.mem[w]
  <2>1. one \in HeapRecords  BY <1>3 DEF Fixed
  <2> HIDE DEF old
  <2> QED  BY <1>1, <2>1, SetSuccWrites
<1>5. g = PutHead(two, i, b)  BY DEF ListPushFront, PutHead, back, one
<1> HIDE DEF two, g, old
<1>6. /\ Fixed(two, g) /\ g.mem = two.mem
      /\ \A j \in Lists : g.head[j] = IF j = i THEN b ELSE two.head[j]
  <2>1. two \in HeapRecords  BY <1>4 DEF Fixed
  <2> QED  BY <1>1, <1>5, <2>1, SetHead
<1>7. Fixed(h, g)  BY <1>2, <1>3, <1>4, <1>6 DEF Fixed
<1>8. Heads(h.head, g.head, b, i)  BY <1>2, <1>3, <1>4, <1>6 DEF Heads
<1>9. Links(h.mem, g.mem, b, old)
  <2>1. SUFFICES ASSUME NEW w \in Lo .. Hi
                 PROVE  g.mem[w] = IF w \in {b, b + 1} THEN Half(NULL)
                                   ELSE IF w \in {b + 2, b + 3} THEN Half(old)
                                   ELSE IF old # NULL /\ w \in {old, old + 1} THEN Half(b)
                                   ELSE h.mem[w]
    BY DEF Links
  <2>2. w \in {b, b + 1} => w \notin {b + 2, b + 3}  OBVIOUS
  <2> QED  BY <1>2, <1>3, <1>4, <1>6, <2>2
<1> QED  BY <1>7, <1>8, <1>9 DEF g, old

\* What it writes links the block with the others.
LEMMA LinkedPush ==
    ASSUME NEW m, NEW n, NEW head, NEW new, NEW F, NEW b, b \notin F, Apart(F \cup {b}),
           NEW ix, Indexed(F \cup {b}, ix), Linked(m, head, F, ix),
           Links(m, n, b, head[ix[b]]), Heads(head, new, b, ix[b])
    PROVE  Linked(n, new, F \cup {b}, ix)
<1> DEFINE G == F \cup {b}
           i == ix[b]
           old == head[i]
<1>1. PICK k \in Nat : \E rk \in [F -> 0 .. k] : LinkedBy(m, head, F, ix, rk)  BY DEF Linked
<1>2. PICK rk \in [F -> 0 .. k] : LinkedBy(m, head, F, ix, rk)  BY <1>1
<1>3. \A x \in G : x \in Lo .. Hi - 3 /\ x # NULL  BY Bounds DEF Apart
<1>4. \A x, y \in G : x = y \/ x + 4 <= y \/ y + 4 <= x  BY DEF Apart
<1>5. \A p : Half(p)[2] = p  BY DEF Half
<1>6. \A x \in F :
         /\ Pd(m, x) \in F \cup {NULL} /\ Sc(m, x) \in F \cup {NULL}
         /\ Pd(m, x) = NULL => head[ix[x]] = x
         /\ Pd(m, x) # NULL => Sc(m, Pd(m, x)) = x /\ ix[Pd(m, x)] = ix[x]
         /\ Sc(m, x) # NULL => Pd(m, Sc(m, x)) = x /\ ix[Sc(m, x)] = ix[x] /\ rk[Sc(m, x)] < rk[x]
  BY <1>2 DEF LinkedBy
<1>7. \A j \in Lists : /\ head[j] \in F \cup {NULL}
                       /\ head[j] # NULL => ix[head[j]] = j /\ Pd(m, head[j]) = NULL
  BY <1>2 DEF LinkedBy
<1>8. i \in Lists /\ \A x \in G : ix[x] \in Lists  BY DEF Indexed
<1>9. old \in F \cup {NULL} /\ (old # NULL => ix[old] = i /\ Pd(m, old) = NULL) /\ old # b
  BY <1>3, <1>7, <1>8
<1>10. ASSUME NEW x \in G
       PROVE  /\ Pd(n, x) = IF x = b THEN NULL ELSE IF x = old THEN b ELSE Pd(m, x)
              /\ Sc(n, x) = IF x = b THEN old ELSE Sc(m, x)
  <2>1. x \in Lo .. Hi /\ x + 2 \in Lo .. Hi  BY <1>3, Bounds
  <2> HIDE DEF old
  <2>2. n[x] = IF x = b THEN Half(NULL) ELSE IF x = old THEN Half(b) ELSE m[x]
    <3>1. x # b => x # b + 1 /\ x # b + 2 /\ x # b + 3  BY <1>3, <1>4
    <3>2. old # NULL /\ x # old => x # old + 1  BY <1>3, <1>4, <1>9
    <3>3. n[x] = IF x \in {b, b + 1} THEN Half(NULL)
               ELSE IF x \in {b + 2, b + 3} THEN Half(old)
               ELSE IF old # NULL /\ x \in {old, old + 1} THEN Half(b)
               ELSE m[x]
      BY <2>1 DEF Links, old
    <3> QED  BY <1>3, <3>1, <3>2, <3>3
  <2>3. n[x + 2] = IF x = b THEN Half(old) ELSE m[x + 2]
    <3>1. x # b => x + 2 # b /\ x + 2 # b + 1 /\ x + 2 # b + 2 /\ x + 2 # b + 3  BY <1>3, <1>4
    <3>2. old # NULL => x + 2 # old /\ x + 2 # old + 1  BY <1>3, <1>4, <1>9
    <3>3. n[x + 2] = IF x + 2 \in {b, b + 1} THEN Half(NULL)
               ELSE IF x + 2 \in {b + 2, b + 3} THEN Half(old)
               ELSE IF old # NULL /\ x + 2 \in {old, old + 1} THEN Half(b)
               ELSE m[x + 2]
      BY <2>1 DEF Links, old
    <3>4. x + 2 \notin {x, x + 1}  BY <1>3
    <3> QED  BY <1>3, <3>1, <3>2, <3>3, <3>4
  <2> QED  BY <1>5, <2>2, <2>3 DEF Pd, Sc
<1> DEFINE sk == [x \in G |-> IF x = b THEN k + 1 ELSE rk[x]]
<1>11. sk \in [G -> 0 .. k + 1] /\ sk[b] = k + 1 /\ \A x \in F : sk[x] = rk[x] /\ sk[x] < k + 1
  BY <1>2
<1> HIDE DEF sk, old
<1>12. ASSUME NEW x \in G
       PROVE  /\ Pd(n, x) \in G \cup {NULL} /\ Sc(n, x) \in G \cup {NULL}
              /\ Pd(n, x) = NULL => new[ix[x]] = x
              /\ Pd(n, x) # NULL => Sc(n, Pd(n, x)) = x /\ ix[Pd(n, x)] = ix[x]
              /\ Sc(n, x) # NULL => Pd(n, Sc(n, x)) = x /\ ix[Sc(n, x)] = ix[x] /\ sk[Sc(n, x)] < sk[x]
  <2>1. new[ix[x]] = IF ix[x] = i THEN b ELSE head[ix[x]]  BY <1>8 DEF Heads
  <2>2. CASE x = b
    <3>1. Pd(n, x) = NULL /\ Sc(n, x) = old  BY <1>10, <2>2
    <3>2. old # NULL => old \in F /\ Pd(n, old) = b  BY <1>3, <1>9, <1>10
    <3> QED  BY <1>9, <1>11, <2>1, <2>2, <3>1, <3>2
  <2>3. CASE x # b /\ x = old
    <3>1. Pd(n, x) = b /\ Sc(n, x) = Sc(m, x) /\ x \in F /\ x # NULL  BY <1>3, <1>10, <2>3
    <3>2. Sc(n, b) = old /\ ix[old] = i  BY <1>9, <1>10, <2>3, <3>1
    <3>3. Sc(m, x) # NULL => Sc(m, x) \in F /\ Sc(m, x) # b /\ Sc(m, x) # old
      <4>1. SUFFICES ASSUME Sc(m, x) # NULL PROVE Sc(m, x) \in F /\ Sc(m, x) # b /\ Sc(m, x) # old  OBVIOUS
      <4>2. Sc(m, x) \in F /\ Pd(m, Sc(m, x)) = x  BY <1>6, <3>1, <4>1
      <4> QED  BY <1>9, <2>3, <3>1, <4>2
    <3> QED  BY <1>3, <1>6, <1>10, <1>11, <2>3, <3>1, <3>2, <3>3
  <2>4. CASE x # b /\ x # old
    <3>1. Pd(n, x) = Pd(m, x) /\ Sc(n, x) = Sc(m, x) /\ x \in F  BY <1>10, <2>4
    <3>2. Pd(m, x) = NULL => new[ix[x]] = x
      <4>1. SUFFICES ASSUME Pd(m, x) = NULL PROVE new[ix[x]] = x  OBVIOUS
      <4>2. head[ix[x]] = x  BY <1>6, <3>1, <4>1
      <4>3. ix[x] # i  BY <2>4, <4>2 DEF old
      <4> QED  BY <2>1, <4>2, <4>3
    <3>3. Pd(m, x) # NULL => Pd(m, x) \in F /\ Pd(m, x) # b  BY <1>6, <3>1
    <3>4. Sc(m, x) # NULL => Sc(m, x) \in F /\ Sc(m, x) # b /\ Sc(m, x) # old
      <4>1. SUFFICES ASSUME Sc(m, x) # NULL PROVE Sc(m, x) \in F /\ Sc(m, x) # b /\ Sc(m, x) # old  OBVIOUS
      <4>2. Sc(m, x) \in F /\ Pd(m, Sc(m, x)) = x  BY <1>6, <3>1, <4>1
      <4>3. x # NULL  BY <1>3, <3>1
      <4> QED  BY <1>9, <4>1, <4>2, <4>3
    <3> QED  BY <1>6, <1>10, <1>11, <3>1, <3>2, <3>3, <3>4
  <2> QED  BY <2>2, <2>3, <2>4
<1>13. ASSUME NEW j \in Lists
       PROVE  /\ new[j] \in G \cup {NULL}
              /\ new[j] # NULL => ix[new[j]] = j /\ Pd(n, new[j]) = NULL
  <2>1. new[j] = IF j = i THEN b ELSE head[j]  BY DEF Heads
  <2>2. CASE j = i  BY <1>10, <2>1, <2>2
  <2>3. CASE j # i
    <3>1. new[j] = head[j]  BY <2>1, <2>3
    <3>2. head[j] # NULL => head[j] \in F /\ head[j] # old /\ ix[head[j]] = j /\ Pd(m, head[j]) = NULL
      BY <1>7, <1>9, <2>3
    <3>3. head[j] # NULL => Pd(n, head[j]) = NULL  BY <1>10, <3>2
    <3> QED  BY <1>7, <3>1, <3>2, <3>3
  <2> QED  BY <2>2, <2>3
<1>14. k + 1 \in Nat  OBVIOUS
<1>15. LinkedBy(n, new, G, ix, sk)  BY <1>12, <1>13 DEF LinkedBy
<1> QED  BY <1>11, <1>14, <1>15 DEF Linked

---------------------------------------------------------------------------
(* The heap between two operations on its lists or blocks *)

\* The list of a size is one of the lists, and the list of what is larger is
\* not before it.
LEMMA IndexOfSize ==
    /\ \A s \in Nat : ListIndex(s) \in Lists
    /\ \A s, t \in Nat : s <= t => ListIndex(s) <= ListIndex(t)
<1> DEFINE Fit(s) == {i \in Lists : s <= MinBlkSize * Pow2[i] \/ i = NoOfSizeType - 1}
<1>1. Lists \subseteq Nat /\ NoOfSizeType - 1 \in Lists  BY MmAssumption DEF Lists
<1>2. \A s : Fit(s) \in SUBSET Nat /\ Fit(s) # {}  BY <1>1
<1>3. \A s : ListIndex(s) = Min(Fit(s))
  <2>1. \A s : ListIndex(s) = SetMin(Fit(s))  BY DEF ListIndex
  <2>2. \A U : SetMin(U) = Min(U)  BY Zenon DEF SetMin, Min
  <2> HIDE DEF Fit
  <2> QED  BY <2>1, <2>2
<1>4. \A s : ListIndex(s) \in Fit(s) /\ \A i \in Fit(s) : ListIndex(s) <= i
  <2> HIDE DEF Fit
  <2>1. SUFFICES ASSUME NEW s PROVE ListIndex(s) \in Fit(s) /\ \A i \in Fit(s) : ListIndex(s) <= i
    OBVIOUS
  <2>2. Min(Fit(s)) \in Fit(s) /\ \A i \in Fit(s) : Min(Fit(s)) <= i  BY <1>2, MinIsMember
  <2> QED  BY <1>3, <2>2
<1>5. ASSUME NEW s \in Nat, NEW t \in Nat, s <= t PROVE ListIndex(s) <= ListIndex(t)
  <2>1. \A i \in Lists : Pow2[i] \in Nat  BY <1>1, PowSum
  <2>2. \A i \in Lists : MinBlkSize * Pow2[i] \in Nat  BY <2>1 DEF MinBlkSize
  <2>3. \A i \in Lists : t <= MinBlkSize * Pow2[i] => s <= MinBlkSize * Pow2[i]
    <3> DEFINE p(i) == MinBlkSize * Pow2[i]
    <3>1. \A i \in Lists : p(i) \in Nat  BY <2>2
    <3> HIDE DEF p
    <3>2. \A i \in Lists : t <= p(i) => s <= p(i)  BY <1>5, <3>1
    <3> QED  BY <3>2 DEF p
  <2>4. Fit(t) \subseteq Fit(s)  BY <2>3
  <2> HIDE DEF Fit
  <2> QED  BY <1>4, <2>4
<1> QED  BY <1>4, <1>5

Index(m) == [x \in Lo .. Hi |-> ListIndex(Sz(m, x))]

\* The blocks of S make up the heap, those of F are on the lists.
Good(h, S, F) ==
    /\ h \in HeapRecords /\ h.listp = Lo + 2
    /\ h.mem[Lo + 1] = Tag(2, 1) /\ h.mem[Lo + 2] = Tag(2, 1) /\ h.mem[h.brk - 1] = Tag(0, 1)
    /\ Tiles(h.mem, S, Lo + 4, h.brk)
    /\ F \subseteq S /\ Linked(h.mem, h.head, F, Index(h.mem))

\* Blocks and their sizes lie within the heap, and free blocks leave room for
\* four words of links.
LEMMA GoodFacts ==
    ASSUME NEW h, NEW S, NEW F, Good(h, S, F)
    PROVE  /\ h.brk \in Lo + 4 .. Hi + 1
           /\ \A b \in S : /\ b \in Lo + 4 .. Hi - 3 /\ Sz(h.mem, b) \in 6 .. MaxHeap
                           /\ b + Sz(h.mem, b) <= h.brk
                           /\ Index(h.mem)[b] = ListIndex(BlkSize(h, b))
                           /\ Index(h.mem)[b] \in Lists
           /\ Apart(S) /\ Apart(F) /\ NULL \notin F /\ Indexed(S, Index(h.mem)) /\ Indexed(F, Index(h.mem))
<1>1. /\ \A b \in S : b \in Int /\ Sz(h.mem, b) \in Int /\ Sz(h.mem, b) >= 6 /\ Lo + 4 <= b /\ b + Sz(h.mem, b) <= h.brk
      /\ \A b, c \in S : b = c \/ b + Sz(h.mem, b) <= c \/ c + Sz(h.mem, c) <= b
  BY TilesApart DEF Good
<1>2. h.brk \in Lo + 4 .. Hi + 1  BY Bounds DEF Good, HeapRecords, Tiles
<1>3. \A b \in S : /\ b \in Lo + 4 .. Hi - 3 /\ Sz(h.mem, b) \in 6 .. MaxHeap
                   /\ b + Sz(h.mem, b) <= h.brk
  BY <1>1, <1>2, Bounds
<1>4. \A b \in S : Index(h.mem)[b] = ListIndex(BlkSize(h, b)) /\ Index(h.mem)[b] \in Lists
  <2>1. \A b \in S : b \in Lo .. Hi /\ Sz(h.mem, b) \in Nat  BY <1>3, Bounds
  <2>2. \A b \in S : Index(h.mem)[b] = ListIndex(Sz(h.mem, b))  BY <2>1 DEF Index
  <2>3. \A b \in S : BlkSize(h, b) = Sz(h.mem, b)  BY DEF BlkSize, GetSize, HeaderPtr, Sz
  <2> QED  BY <2>1, <2>2, <2>3, IndexOfSize
<1>5. Apart(S)
  <2>1. S \subseteq Lo .. Hi - 3  BY <1>3, Bounds
  <2>2. ASSUME NEW x \in S, NEW y \in S PROVE x = y \/ x + 4 <= y \/ y + 4 <= x
    BY <1>1
  <2> QED  BY <2>1, <2>2 DEF Apart
<1>6. F \subseteq S  BY DEF Good
<1>7. Apart(F) /\ NULL \notin F  BY <1>3, <1>5, <1>6, Bounds DEF Apart
<1> QED  BY <1>2, <1>3, <1>4, <1>5, <1>6, <1>7 DEF Indexed

\* m and n differ in links of blocks of F only.
OnlyLinks(m, n, F) == \A w \in Lo .. Hi : n[w] = m[w] \/ \E x \in F : w \in x .. x + 3

\* Links lie within blocks, between their tags.
LEMMA LinksWithin ==
    ASSUME NEW h, NEW S, NEW F, Good(h, S, F), NEW n, NEW G \in SUBSET S, OnlyLinks(h.mem, n, G)
    PROVE  /\ Retained(h.mem, n, S) /\ Untouched(h.mem, n, S \ G)
           /\ n[Lo + 1] = h.mem[Lo + 1] /\ n[Lo + 2] = h.mem[Lo + 2] /\ n[h.brk - 1] = h.mem[h.brk - 1]
<1> DEFINE m == h.mem
<1>1. h.brk \in Lo + 4 .. Hi + 1 /\ \A b \in S : b \in Lo + 4 .. Hi - 3 /\ Sz(m, b) \in 6 .. MaxHeap /\ b + Sz(m, b) <= h.brk
  BY GoodFacts
<1>2. \A b, c \in S : b = c \/ b + Sz(m, b) <= c \/ c + Sz(m, c) <= b  BY TilesApart DEF Good
<1> HIDE DEF m
<1>3. ASSUME NEW w \in Lo .. Hi, \A x \in S : w \notin x .. x + Sz(m, x) - 3 PROVE n[w] = m[w]
  <2>1. SUFFICES ASSUME NEW x \in G, w \in x .. x + 3 PROVE FALSE  BY DEF OnlyLinks, m
  <2> QED  BY <1>1, <1>3, <2>1
<1>4. ASSUME NEW b \in S PROVE SameTags(m, n, b)
  <2>1. b - 1 \in Lo .. Hi /\ b + Sz(m, b) - 2 \in Lo .. Hi  BY <1>1, Bounds
  <2>2. \A x \in S : b - 1 \notin x .. x + Sz(m, x) - 3 /\ b + Sz(m, b) - 2 \notin x .. x + Sz(m, x) - 3
    BY <1>1, <1>2
  <2> QED  BY <1>3, <2>1, <2>2 DEF SameTags
<1>5. ASSUME NEW b \in S \ G, NEW w \in b - 1 .. b + Sz(m, b) - 2 PROVE n[w] = m[w]
  <2>1. w \in Lo .. Hi  BY <1>1, Bounds
  <2>2. SUFFICES ASSUME NEW x \in G, w \in x .. x + 3 PROVE FALSE  BY <2>1 DEF OnlyLinks, m
  <2>3. b + Sz(m, b) <= x \/ x + Sz(m, x) <= b  BY <1>2
  <2> QED  BY <1>1, <2>2, <2>3
<1>6. Lo + 1 \in Lo .. Hi /\ Lo + 2 \in Lo .. Hi /\ h.brk - 1 \in Lo .. Hi  BY <1>1, Bounds
<1>7. \A x \in S : /\ Lo + 1 \notin x .. x + Sz(m, x) - 3 /\ Lo + 2 \notin x .. x + Sz(m, x) - 3
                   /\ h.brk - 1 \notin x .. x + Sz(m, x) - 3
  BY <1>1, Bounds
<1>8. n[Lo + 1] = m[Lo + 1] /\ n[Lo + 2] = m[Lo + 2] /\ n[h.brk - 1] = m[h.brk - 1]
  BY <1>3, <1>6, <1>7
<1> QED  BY <1>4, <1>5, <1>8 DEF Retained, Untouched, Holds, m

\* Links that change leave the blocks as they are.
LEMMA GoodRelink ==
    ASSUME NEW h, NEW S, NEW F, Good(h, S, F), NEW g, Fixed(h, g), NEW G \in SUBSET S,
           OnlyLinks(h.mem, g.mem, F \cup G), Linked(g.mem, g.head, G, Index(h.mem))
    PROVE  Good(g, S, G) /\ Retained(h.mem, g.mem, S) /\ Untouched(h.mem, g.mem, S \ (F \cup G))
<1>1. F \cup G \in SUBSET S  BY DEF Good
<1>2. /\ Retained(h.mem, g.mem, S) /\ Untouched(h.mem, g.mem, S \ (F \cup G))
      /\ g.mem[Lo + 1] = h.mem[Lo + 1] /\ g.mem[Lo + 2] = h.mem[Lo + 2] /\ g.mem[h.brk - 1] = h.mem[h.brk - 1]
  BY <1>1, LinksWithin
<1>3. Tiles(h.mem, S, Lo + 4, h.brk)  BY DEF Good
<1>4. Tiles(g.mem, S, Lo + 4, h.brk) /\ \A b \in S : Sz(g.mem, b) = Sz(h.mem, b)
  <2>1. Tiles(g.mem, S, Lo + 4, h.brk)  BY <1>2, <1>3, TilesFrame
  <2>2. SameSizes(h.mem, g.mem, S)  BY <1>2, <1>3, TilesFrame
  <2> QED  BY <2>1, <2>2 DEF SameSizes
<1>5. \A b \in S : b \in Lo .. Hi  BY GoodFacts, Bounds
<1>6. NULL \notin G /\ SameIndex(Index(h.mem), Index(g.mem), G)
  BY <1>4, <1>5, Bounds DEF SameIndex, Index
<1>7. SameLinks(g.mem, g.mem, G)  BY DEF SameLinks
<1>8. Linked(g.mem, g.head, G, Index(g.mem))  BY <1>6, <1>7, LinkedFrame
<1> QED  BY <1>2, <1>4, <1>8 DEF Good, Fixed

\* remove_from_list leaves the blocks as they are and one less on the lists.
LEMMA GoodRemove ==
    ASSUME NEW h, NEW S, NEW F, Good(h, S, F), NEW b \in F
    PROVE  LET g == RemoveFromList(h, b) IN
           /\ Good(g, S, F \ {b}) /\ g.brk = h.brk
           /\ Retained(h.mem, g.mem, S) /\ Untouched(h.mem, g.mem, S \ F)
<1> DEFINE g == RemoveFromList(h, b)
           m == h.mem
           pred == Pd(m, b)
           succ == Sc(m, b)
<1>1. h \in HeapRecords /\ F \subseteq S /\ Linked(m, h.head, F, Index(m))  BY DEF Good
<1>2. b \in Lo .. Hi - 3 /\ Index(m)[b] = ListIndex(BlkSize(h, b)) /\ ListIndex(BlkSize(h, b)) \in Lists
  BY <1>1, GoodFacts, Bounds
<1>3. Apart(F) /\ Indexed(F, Index(m))  BY GoodFacts
<1>4. pred \in F \cup {NULL} /\ succ \in F \cup {NULL}  BY <1>1 DEF Linked, LinkedBy
<1>5. pred \in {NULL} \cup Lo .. Hi - 3 /\ succ \in {NULL} \cup Lo .. Hi - 3
  BY <1>3, <1>4 DEF Apart
<1>6. Fixed(h, g) /\ Unlinks(m, g.mem, b) /\ Beheads(m, h.head, g.head, b, Index(m)[b])
  BY <1>1, <1>2, <1>5, RemoveWrites
<1> HIDE DEF g
<1>7. Linked(g.mem, g.head, F \ {b}, Index(m))
  BY <1>1, <1>3, <1>6, LinkedRemove
<1>8. OnlyLinks(m, g.mem, F)
  <2> HIDE DEF m, pred, succ
  <2>1. ASSUME NEW w \in Lo .. Hi, g.mem[w] # m[w] PROVE \E x \in F : w \in x .. x + 3
    <3>1. \/ succ # NULL /\ w \in {succ, succ + 1}
          \/ pred # NULL /\ w \in {pred + 2, pred + 3}
      BY <1>6, <2>1 DEF Unlinks, pred, succ
    <3>2. CASE succ # NULL /\ w \in {succ, succ + 1}
      <4>1. succ \in F /\ succ \in Int  BY <1>3, <1>4, <3>2 DEF Apart
      <4>2. w \in succ .. succ + 3  BY <3>2, <4>1
      <4> QED  BY <4>1, <4>2
    <3>3. CASE pred # NULL /\ w \in {pred + 2, pred + 3}
      <4>1. pred \in F /\ pred \in Int  BY <1>3, <1>4, <3>3 DEF Apart
      <4>2. w \in pred .. pred + 3  BY <3>3, <4>1
      <4> QED  BY <4>1, <4>2
    <3> QED  BY <3>1, <3>2, <3>3
  <2> QED  BY <2>1 DEF OnlyLinks
<1>9. F \cup (F \ {b}) = F /\ F \ {b} \in SUBSET S  BY <1>1
<1>10. Good(g, S, F \ {b}) /\ Retained(m, g.mem, S) /\ Untouched(m, g.mem, S \ F)
  BY <1>6, <1>7, <1>8, <1>9, GoodRelink
<1> QED  BY <1>6, <1>10 DEF Fixed, g

\* list_push_front leaves the blocks as they are and one more on the lists.
LEMMA GoodPush ==
    ASSUME NEW h, NEW S, NEW F, Good(h, S, F), NEW b \in S \ F
    PROVE  LET g == ListPushFront(h, b) IN
           /\ Good(g, S, F \cup {b}) /\ g.brk = h.brk
           /\ Retained(h.mem, g.mem, S) /\ Untouched(h.mem, g.mem, S \ (F \cup {b}))
<1> DEFINE g == ListPushFront(h, b)
           m == h.mem
           i == Index(m)[b]
           old == h.head[i]
           G == F \cup {b}
<1>1. h \in HeapRecords /\ F \subseteq S /\ Linked(m, h.head, F, Index(m))  BY DEF Good
<1>2. b \in Lo .. Hi - 3 /\ i = ListIndex(BlkSize(h, b)) /\ i \in Lists
  BY GoodFacts, Bounds
<1>3. Apart(F) /\ Apart(G) /\ Indexed(G, Index(m))
  BY <1>1, GoodFacts DEF Apart, Indexed
<1>4. old \in F \cup {NULL}  BY <1>1, <1>2 DEF Linked, LinkedBy
<1>5. old \in {NULL} \cup Lo .. Hi - 3  BY <1>3, <1>4 DEF Apart
<1>6. Fixed(h, g) /\ Links(m, g.mem, b, old) /\ Heads(h.head, g.head, b, i)
  <2> HIDE DEF i, m
  <2> QED  BY <1>1, <1>2, <1>5, PushWrites DEF m
<1> HIDE DEF g
<1>7. Linked(g.mem, g.head, G, Index(m))
  BY <1>1, <1>3, <1>6, LinkedPush
<1>8. OnlyLinks(m, g.mem, G)
  <2> HIDE DEF m, i, old
  <2>1. ASSUME NEW w \in Lo .. Hi, g.mem[w] # m[w] PROVE \E x \in G : w \in x .. x + 3
    <3>1. \/ w \in {b, b + 1, b + 2, b + 3}
          \/ old # NULL /\ w \in {old, old + 1}
      BY <1>6, <2>1 DEF Links
    <3>2. CASE w \in {b, b + 1, b + 2, b + 3}
      <4>1. w \in b .. b + 3  BY <1>2, <3>2
      <4> QED  BY <4>1
    <3>3. CASE old # NULL /\ w \in {old, old + 1}
      <4>1. old \in G /\ old \in Int  BY <1>3, <1>4, <3>3 DEF Apart
      <4>2. w \in old .. old + 3  BY <3>3, <4>1
      <4> QED  BY <4>1, <4>2
    <3> QED  BY <3>1, <3>2, <3>3
  <2> QED  BY <2>1 DEF OnlyLinks
<1>9. F \cup G = G /\ G \in SUBSET S  BY <1>1
<1> HIDE DEF G
<1>10. Good(g, S, G) /\ Retained(m, g.mem, S) /\ Untouched(m, g.mem, S \ G)
  BY <1>6, <1>7, <1>8, <1>9, GoodRelink
<1> QED  BY <1>6, <1>10 DEF Fixed, g, G

---------------------------------------------------------------------------
(* Blocks that are made, merged and split *)

\* m and n agree but for the words of the blocks from start up to end.
Outside(m, n, start, end) == \A w \in Lo .. Hi : w < start - 1 \/ w > end - 2 => n[w] = m[w]

\* No block of F lies from start up to end.
Avoids(F, start, end) == \A x \in F : x < start \/ x >= end

Beyond(S, start, end) == {b \in S : b < start \/ b >= end}

\* Blocks on no list can be cut anew, joined or extended.
LEMMA GoodSwap ==
    ASSUME NEW h, NEW S, NEW F, Good(h, S, F), NEW start \in S, NEW end \in S \cup {h.brk}, Avoids(F, start, end),
           NEW g, Fixed(h, g), g.head = h.head, Outside(h.mem, g.mem, start, end),
           NEW T, Tiles(g.mem, T, start, end)
    PROVE  Good(g, Swap(S, T, start, end), F) /\ Untouched(h.mem, g.mem, Beyond(S, start, end))
<1> DEFINE m == h.mem
           n == g.mem
           B == Beyond(S, start, end)
           C == Swap(S, T, start, end)
<1>1. h.brk \in Lo + 4 .. Hi + 1 /\ \A b \in S : b \in Lo + 4 .. Hi - 3 /\ Sz(m, b) \in 6 .. MaxHeap /\ b + Sz(m, b) <= h.brk
  BY GoodFacts
<1>2. Tiles(m, S, Lo + 4, h.brk) /\ F \subseteq S  BY DEF Good
<1>3. \A b \in S : b < start => b + Sz(m, b) <= start  BY <1>2 DEF Tiles
<1>4. start \in Lo + 4 .. h.brk /\ end \in Lo + 4 .. h.brk /\ start <= end
  <2>1. start <= end  BY DEF Tiles
  <2> QED  BY <1>1, <2>1, Bounds
<1> HIDE DEF m, n
<1>5. ASSUME NEW b \in B PROVE Holds(m, n, b)
  <2>1. SUFFICES ASSUME NEW w \in b - 1 .. b + Sz(m, b) - 2 PROVE n[w] = m[w]  BY DEF Holds
  <2>2. w \in Lo .. Hi  BY <1>1, Bounds DEF Beyond
  <2>3. b \in S /\ (b < start \/ b >= end)  BY DEF Beyond
  <2>4. w < start - 1 \/ w > end - 2  BY <1>1, <1>3, <1>4, <2>3, Bounds
  <2> QED  BY <2>2, <2>4 DEF Outside, m, n
<1>6. Untouched(m, n, B)  BY <1>5 DEF Untouched
<1>7. Retained(m, n, B)
  <2>1. \A b \in B : IsBlock(m, b)  BY <1>2 DEF Beyond, Tiles
  <2> QED  BY <1>5, <2>1, HoldsTags DEF Retained
<1>8. Tiles(n, C, Lo + 4, h.brk)
  <2>1. start \in S \cup {h.brk} /\ Retained(m, n, {b \in S : b < start \/ b >= end}) /\ Tiles(n, T, start, end)
    BY <1>7 DEF Beyond, n
  <2> QED  BY <1>2, <2>1, TilesSwap
<1>9. F \subseteq B  BY <1>2 DEF Avoids, Beyond
<1>10. SameLinks(m, n, F)
  <2>1. ASSUME NEW x \in F PROVE n[x] = m[x] /\ n[x + 2] = m[x + 2]
    <3>1. x \in S /\ x \in B  BY <1>2, <1>9
    <3>2. x \in x - 1 .. x + Sz(m, x) - 2 /\ x + 2 \in x - 1 .. x + Sz(m, x) - 2
      BY <1>1, <3>1
    <3> QED  BY <1>5, <3>1, <3>2 DEF Holds
  <2> QED  BY <2>1 DEF SameLinks
<1>11. SameIndex(Index(m), Index(n), F)
  <2>1. ASSUME NEW x \in F PROVE Index(n)[x] = Index(m)[x]
    <3>1. x \in S /\ x \in B /\ x \in Lo .. Hi /\ x \in Int  BY <1>1, <1>2, <1>9, Bounds
    <3>2. n[x - 1] = m[x - 1]  BY <1>7, <3>1 DEF Retained, SameTags
    <3> QED  BY <3>1, <3>2 DEF Index, Sz
  <2> QED  BY <2>1 DEF SameIndex
<1>12. Linked(n, g.head, F, Index(n))
  <2>1. NULL \notin F /\ Linked(m, h.head, F, Index(m))  BY GoodFacts DEF Good, m
  <2> QED  BY <1>10, <1>11, <2>1, LinkedFrame
<1>13. n[Lo + 1] = m[Lo + 1] /\ n[Lo + 2] = m[Lo + 2] /\ n[h.brk - 1] = m[h.brk - 1]
  <2>1. /\ Lo + 1 \in Lo .. Hi /\ Lo + 2 \in Lo .. Hi /\ h.brk - 1 \in Lo .. Hi
        /\ Lo + 1 < start - 1 /\ Lo + 2 < start - 1 /\ h.brk - 1 > end - 2
    BY <1>1, <1>4, Bounds
  <2> QED  BY <2>1 DEF Outside, m, n
<1>14. F \subseteq C  BY <1>9 DEF Swap, Beyond
<1> HIDE DEF C
<1>15. Good(g, C, F)  BY <1>8, <1>12, <1>13, <1>14 DEF Good, Fixed, m, n
<1> QED  BY <1>6, <1>15 DEF m, n, C

\* m and n agree but for words of the block at b between its tags.
WithinBody(m, n, b) == \A w \in Lo .. Hi : w < b \/ w > b + Sz(m, b) - 3 => n[w] = m[w]

\* Words within a block that is on no list may be anything.
LEMMA GoodBody ==
    ASSUME NEW h, NEW S, NEW F, Good(h, S, F), NEW b \in S \ F, NEW g, Fixed(h, g), g.head = h.head,
           WithinBody(h.mem, g.mem, b)
    PROVE  Good(g, S, F) /\ Retained(h.mem, g.mem, S) /\ Untouched(h.mem, g.mem, S \ {b})
<1> DEFINE m == h.mem
           n == g.mem
           e == b + Sz(m, b)
<1>1. b \in Lo + 4 .. Hi - 3 /\ Sz(m, b) \in 6 .. MaxHeap /\ e <= h.brk /\ h.brk \in Lo + 4 .. Hi + 1
  BY GoodFacts
<1>2. Tiles(m, S, Lo + 4, h.brk) /\ F \subseteq S  BY DEF Good
<1>3. e \in S \cup {h.brk} /\ IsBlock(m, b)  BY <1>2 DEF Tiles
<1>4. SameTags(m, n, b)
  <2>1. b - 1 \in Lo .. Hi /\ b - 1 < b /\ e - 2 \in Lo .. Hi /\ e - 2 > b + Sz(m, b) - 3
    BY <1>1, Bounds
  <2>2. n[b - 1] = m[b - 1]  BY <2>1 DEF WithinBody
  <2>3. n[e - 2] = m[e - 2]
    <3> HIDE DEF e
    <3> QED  BY <2>1 DEF WithinBody
  <2>4. b + Sz(m, b) - 2 = e - 2  BY <1>1
  <2> HIDE DEF e
  <2> QED  BY <2>2, <2>3, <2>4 DEF SameTags
<1>5. IsBlock(n, b) /\ Sz(n, b) = Sz(m, b)  BY <1>3, <1>4, TagsBlock
<1>6. Tiles(n, {b}, b, e)  BY <1>5, TilesOne
<1>7. \A c \in S : c = b \/ c < b \/ c >= e
  BY <1>2, TilesApart
<1>8. Avoids(F, b, e)  BY <1>2, <1>7 DEF Avoids
<1>9. Outside(m, n, b, e)
  <2>1. \A w \in Lo .. Hi : w < b - 1 \/ w > e - 2 => w < b \/ w > b + Sz(m, b) - 3  BY <1>1, Bounds
  <2> QED  BY <2>1 DEF Outside, WithinBody
<1>10. Swap(S, {b}, b, e) = S  BY <1>1, <1>7 DEF Swap
<1>11. Beyond(S, b, e) = S \ {b}
  <2>1. \A c \in S : c < b \/ c >= e <=> c # b
    <3>1. ~ (b < b) /\ ~ (b >= e)  BY <1>1
    <3> HIDE DEF e
    <3> QED  BY <1>7, <3>1
  <2> HIDE DEF e
  <2> QED  BY <2>1 DEF Beyond
<1> HIDE DEF e, m, n
<1>12. Good(g, S, F) /\ Untouched(m, n, S \ {b})
  <2>1. Outside(h.mem, g.mem, b, e) /\ Tiles(g.mem, {b}, b, e)  BY <1>6, <1>9 DEF m, n
  <2>2. Good(g, Swap(S, {b}, b, e), F) /\ Untouched(h.mem, g.mem, Beyond(S, b, e))
    BY <1>3, <1>8, <2>1, GoodSwap
  <2> QED  BY <1>10, <1>11, <2>2 DEF m, n
<1>13. \A c \in S \ {b} : SameTags(m, n, c)
  <2>1. \A c \in S : IsBlock(m, c)  BY <1>2 DEF Tiles
  <2> QED  BY <1>12, <2>1, HoldsTags DEF Untouched
<1> QED  BY <1>4, <1>12, <1>13 DEF Retained, m, n

\* Equal tags make a block.
LEMMA TagsMakeBlock ==
    ASSUME NEW h \in HeapRecords, NEW b \in Lo + 1 .. Hi, b % 2 = 0, NEW s \in 6 .. MaxHeap, s % 2 = 0,
           b + s - 2 \in Lo .. Hi, NEW a \in {0, 1}
    PROVE  LET g == SetTags(h, b, s, a) IN
           /\ Fixed(h, g) /\ g.head = h.head /\ Outside(h.mem, g.mem, b, b + s)
           /\ IsBlock(g.mem, b) /\ Sz(g.mem, b) = s /\ Al(g.mem, b) = a
           /\ \A w \in Lo .. Hi : w # b - 1 /\ w # b + s - 2 => g.mem[w] = h.mem[w]
<1> DEFINE g == SetTags(h, b, s, a)
<1>1. s \in 3 .. MaxHeap  BY Bounds
<1>2. /\ Fixed(h, g) /\ g.head = h.head
      /\ \A w \in Lo .. Hi : g.mem[w] = IF w \in {b - 1, b + s - 2} THEN Tag(s, a) ELSE h.mem[w]
  BY <1>1, SetTagsWrites
<1>3. b - 1 \in Lo .. Hi  BY Bounds
<1> HIDE DEF g
<1>4. g.mem[b - 1] = Tag(s, a) /\ g.mem[b + s - 2] = Tag(s, a)  BY <1>2, <1>3
<1>5. Sz(g.mem, b) = s /\ Al(g.mem, b) = a  BY <1>4 DEF Sz, Al, Tag
<1>6. IsBlock(g.mem, b)  BY <1>4, <1>5 DEF IsBlock
<1>7. Outside(h.mem, g.mem, b, b + s)
  <2>1. \A w \in Lo .. Hi : w < b - 1 \/ w > b + s - 2 => w \notin {b - 1, b + s - 2}  BY Bounds
  <2>2. b + s - 2 = (b + s) - 2  BY Bounds
  <2> QED  BY <1>2, <2>1 DEF Outside
<1> QED  BY <1>2, <1>5, <1>6, <1>7 DEF g

FreeOf(m, S) == {b \in S : Al(m, b) = 0}
AllocOf(m, S) == {b \in S : Al(m, b) = 1}

\* Agreement is transitive, and tags that are kept keep sizes.
LEMMA RetainedSizes ==
    ASSUME NEW m, NEW n, NEW S, Retained(m, n, S)
    PROVE  SameSizes(m, n, S)
BY DEF Retained, SameTags, SameSizes, Sz, Al

\* Tags kept twice are kept.
LEMMA RetainedOn ==
    ASSUME NEW m, NEW n, NEW o, NEW S, Retained(m, n, S), Retained(n, o, S)
    PROVE  Retained(m, o, S)
<1>1. SameSizes(m, n, S)  BY RetainedSizes
<1> QED  BY <1>1 DEF Retained, SameTags, SameSizes

\* Words kept twice are kept.
LEMMA UntouchedOn ==
    ASSUME NEW m, NEW n, NEW o, NEW S, Untouched(m, n, S), Untouched(n, o, S), Retained(m, n, S)
    PROVE  Untouched(m, o, S)
<1>1. SameSizes(m, n, S)  BY RetainedSizes
<1> QED  BY <1>1 DEF Untouched, Holds, SameSizes

\* Blocks whose words are kept keep their tags.
LEMMA UntouchedRetains ==
    ASSUME NEW m, NEW n, NEW S, Untouched(m, n, S), \A b \in S : IsBlock(m, b)
    PROVE  Retained(m, n, S)
BY HoldsTags DEF Untouched, Retained

\* Blocks begin and end at even words.
LEMMA EvenEnds ==
    ASSUME NEW h, NEW S, NEW F, Good(h, S, F)
    PROVE  \A c \in S \cup {h.brk} : c \in Lo + 4 .. h.brk /\ c % 2 = 0
<1>1. h.brk \in Lo + 4 .. Hi + 1 /\ \A b \in S : b \in Lo + 4 .. Hi - 3 /\ Sz(h.mem, b) \in 6 .. MaxHeap /\ b + Sz(h.mem, b) <= h.brk
  BY GoodFacts
<1>2. \A b \in S : b % 2 = 0 /\ Sz(h.mem, b) % 2 = 0  BY DEF Good, Tiles, IsBlock
<1>3. h.brk % 2 = 0
  <2>1. CASE h.brk = Lo + 4  BY <2>1, Bounds
  <2>2. CASE h.brk # Lo + 4
    <3>1. PICK b \in S : b + Sz(h.mem, b) = h.brk  BY <2>2 DEF Good, Tiles
    <3>2. b \in Int /\ Sz(h.mem, b) \in Int /\ b % 2 = 0 /\ Sz(h.mem, b) % 2 = 0  BY <1>1, <1>2
    <3> QED  BY <3>1, <3>2
  <2> QED  BY <2>1, <2>2
<1>4. \A b \in S : b \in Lo + 4 .. h.brk  BY <1>1, Bounds
<1> QED  BY <1>1, <1>2, <1>3, <1>4, Bounds

\* The words from start up to end become one free block.
MadeFree(h, start, size) == ListPushFront(SetTags(h, start, size, 0), start)

\* A free block made of blocks on no list, and put on its list.
LEMMA FreeBlockMade ==
    ASSUME NEW h, NEW S, NEW F, Good(h, S, F), NEW start \in S, NEW end \in S \cup {h.brk}, start < end,
           Avoids(F, start, end), NEW size, size = end - start, NEW T, T = Beyond(S, start, end),
           NEW g, g = MadeFree(h, start, size)
    PROVE  /\ Good(g, T \cup {start}, F \cup {start}) /\ g.brk = h.brk
           /\ Sz(g.mem, start) = size /\ Al(g.mem, start) = 0
           /\ Retained(h.mem, g.mem, T) /\ Untouched(h.mem, g.mem, T \ F)
<1> DEFINE t == SetTags(h, start, size, 0)
           C == T \cup {start}
<1>0. g = ListPushFront(t, start)  BY DEF MadeFree
<1>1. h.brk \in Lo + 4 .. Hi + 1 /\ \A b \in S : b \in Lo + 4 .. Hi - 3 /\ Sz(h.mem, b) \in 6 .. MaxHeap /\ b + Sz(h.mem, b) <= h.brk
  BY GoodFacts
<1>2. start \in Lo + 4 .. h.brk /\ end \in Lo + 4 .. h.brk /\ start % 2 = 0 /\ end % 2 = 0
  BY EvenEnds
<1>3. start + Sz(h.mem, start) <= end  BY <1>1 DEF Good, Tiles
<1>4. size \in 6 .. MaxHeap /\ size % 2 = 0 /\ start + size = end /\ start + size - 2 \in Lo .. Hi /\ start \in Lo + 1 .. Hi
  BY <1>1, <1>2, <1>3, Bounds
<1>5. /\ Fixed(h, t) /\ t.head = h.head /\ Outside(h.mem, t.mem, start, end)
      /\ IsBlock(t.mem, start) /\ Sz(t.mem, start) = size /\ Al(t.mem, start) = 0
  <2>1. h \in HeapRecords  BY DEF Good
  <2> HIDE DEF t
  <2> QED  BY <1>2, <1>4, <2>1, TagsMakeBlock DEF t
<1> HIDE DEF t
<1>6. Tiles(t.mem, {start}, start, end)
  <2>1. Tiles(t.mem, {start}, start, start + Sz(t.mem, start))  BY <1>5, TilesOne
  <2> QED  BY <1>4, <1>5, <2>1
<1>7. Good(t, Swap(S, {start}, start, end), F) /\ Untouched(h.mem, t.mem, T)
  BY <1>5, <1>6, GoodSwap
<1>8. Swap(S, {start}, start, end) = C  BY DEF Swap, Beyond
<1>9. start \notin F /\ start \in C  BY <1>2 DEF Avoids
<1>10. /\ Good(g, C, F \cup {start}) /\ g.brk = t.brk
       /\ Retained(t.mem, g.mem, C) /\ Untouched(t.mem, g.mem, C \ (F \cup {start}))
  <2> DEFINE k == ListPushFront(t, start)
  <2>1. Good(t, C, F) /\ start \in C \ F  BY <1>7, <1>8, <1>9
  <2> HIDE DEF C
  <2>2. /\ Good(k, C, F \cup {start}) /\ k.brk = t.brk
        /\ Retained(t.mem, k.mem, C) /\ Untouched(t.mem, k.mem, C \ (F \cup {start}))
    BY <2>1, GoodPush
  <2> HIDE DEF k
  <2>3. g = k  BY <1>0 DEF k
  <2> QED  BY <2>2, <2>3
<1>11. Sz(g.mem, start) = size /\ Al(g.mem, start) = 0
  BY <1>5, <1>9, <1>10, RetainedSizes DEF SameSizes
<1>12. Retained(h.mem, t.mem, T)
  <2>1. \A b \in T : IsBlock(h.mem, b)  BY DEF Good, Tiles, Beyond
  <2> QED  BY <1>7, <2>1, UntouchedRetains
<1>13. Retained(h.mem, g.mem, T)
  <2>1. Retained(t.mem, g.mem, T)  BY <1>10 DEF Retained
  <2> QED  BY <1>12, <2>1, RetainedOn
<1>14. Untouched(h.mem, g.mem, T \ F)
  <2>1. start \notin T  BY <1>2 DEF Beyond
  <2>2. Untouched(t.mem, g.mem, T \ F)  BY <1>10, <2>1 DEF Untouched
  <2>3. Untouched(h.mem, t.mem, T \ F) /\ Retained(h.mem, t.mem, T \ F)  BY <1>7, <1>12 DEF Untouched, Retained
  <2> QED  BY <2>2, <2>3, UntouchedOn
<1> QED  BY <1>5, <1>10, <1>11, <1>13, <1>14 DEF Fixed

\* A block taken out of its list, or not.
RemovedIf(h, b, c) == IF c THEN RemoveFromList(h, b) ELSE h
LessIf(F, b, c) == IF c THEN F \ {b} ELSE F

\* Taking a free neighbour out of its list, if there is one.
LEMMA RemoveIf ==
    ASSUME NEW h, NEW S, NEW F, Good(h, S, F), NEW c \in BOOLEAN, NEW b, c => b \in F,
           NEW g, g = RemovedIf(h, b, c), NEW G, G = LessIf(F, b, c)
    PROVE  /\ Good(g, S, G) /\ g.brk = h.brk
           /\ Retained(h.mem, g.mem, S) /\ Untouched(h.mem, g.mem, S \ F)
<1>1. CASE c
  <2>1. g = RemoveFromList(h, b) /\ G = F \ {b}  BY <1>1 DEF RemovedIf, LessIf
  <2> DEFINE k == RemoveFromList(h, b)
  <2>2. b \in F  BY <1>1
  <2>3. /\ Good(k, S, F \ {b}) /\ k.brk = h.brk
        /\ Retained(h.mem, k.mem, S) /\ Untouched(h.mem, k.mem, S \ F)
    BY <2>2, GoodRemove
  <2> HIDE DEF k
  <2>4. g = k  BY <2>1 DEF k
  <2> QED  BY <2>1, <2>3, <2>4
<1>2. CASE ~c
  <2>1. g = h /\ G = F  BY <1>2 DEF RemovedIf, LessIf
  <2> QED  BY <2>1 DEF Retained, SameTags, Untouched, Holds
<1> QED  BY <1>1, <1>2

NoTwoFree(m, S) == \A b, c \in S : b + Sz(m, b) = c => Al(m, b) = 1 \/ Al(m, c) = 1

\* The heap between two calls; and when only bp has not been put on its list
\* nor merged with its neighbours.
Consistent(h, S) == Good(h, S, FreeOf(h.mem, S)) /\ NoTwoFree(h.mem, S)
Nearly(h, S, bp) ==
    /\ bp \in S /\ Al(h.mem, bp) = 0
    /\ Good(h, S, FreeOf(h.mem, S) \ {bp}) /\ NoTwoFree(h.mem, S \ {bp})

\* g has the same allocated blocks as h, with the same contents.
Keeps(h, S, g, T) ==
    /\ Consistent(g, T) /\ g.brk = h.brk
    /\ AllocOf(g.mem, T) = AllocOf(h.mem, S) /\ Untouched(h.mem, g.mem, AllocOf(h.mem, S))

\* What is before bp, what is after it.
Before(m, S, bp, free, prev) ==
    IF free THEN prev \in S /\ prev + Sz(m, prev) = bp /\ Al(m, prev) = 0
            ELSE \A b \in S : b + Sz(m, b) = bp => Al(m, b) = 1
After(m, S, bp, free, next) ==
    /\ next = bp + Sz(m, bp)
    /\ IF free THEN next \in S /\ Al(m, next) = 0 ELSE next \in S => Al(m, next) = 1

\* The blocks that are merged are those from start up to end.
SpanStart(pf, prev, bp) == IF pf THEN prev ELSE bp
SpanEnd(m, nf, next) == IF nf THEN next + Sz(m, next) ELSE next
SizeIf(m, b, c) == IF c THEN Sz(m, b) ELSE 0

Spans(m, S, hi, bp, pf, nf, prev, next, start, end, size) ==
    /\ start \in S /\ end \in S \cup {hi} /\ start < end /\ start \in Int /\ end \in Int
    /\ start <= bp /\ bp < end
    /\ \A x \in S : x < start \/ x >= end \/ x = bp \/ (pf /\ x = prev) \/ (nf /\ x = next)
    /\ pf => start <= prev /\ prev < end
    /\ nf => start <= next /\ next < end
    /\ size = end - start /\ size >= Sz(m, bp)

\* coalesce joins bp with the neighbours that are free, and no block else.
LEMMA MergedBlocks ==
    ASSUME NEW m, NEW S, NEW lo, NEW hi, Tiles(m, S, lo, hi), NEW bp \in S, NEW pf \in BOOLEAN, NEW nf \in BOOLEAN,
           NEW prev, NEW next, Before(m, S, bp, pf, prev), After(m, S, bp, nf, next),
           NEW start, start = SpanStart(pf, prev, bp), NEW end, end = SpanEnd(m, nf, next),
           NEW size, size = Sz(m, bp) + SizeIf(m, next, nf) + SizeIf(m, prev, pf)
    PROVE  Spans(m, S, hi, bp, pf, nf, prev, next, start, end, size)
<1>0. /\ pf => start = prev
      /\ ~pf => start = bp
      /\ nf => end = next + Sz(m, next)
      /\ ~nf => end = next
  BY DEF SpanStart, SpanEnd
<1>1. \A b \in S : b \in Int /\ Sz(m, b) \in Int /\ Sz(m, b) >= 6  BY TilesApart
<1>2. \A b, c \in S : b = c \/ b + Sz(m, b) <= c \/ c + Sz(m, c) <= b  BY TilesApart
<1>3. \A b \in S : b + Sz(m, b) \in S \cup {hi}  BY DEF Tiles
<1>4. next = bp + Sz(m, bp) /\ next \in Int  BY <1>1 DEF After
<1>5. pf => prev \in S /\ prev + Sz(m, prev) = bp  BY DEF Before
<1>6. nf => next \in S  BY DEF After
<1>7. end \in S \cup {hi} /\ end \in Int /\ next <= end
  <2>1. CASE nf
    <3>1. next \in S /\ end = next + Sz(m, next)  BY <1>0, <1>6, <2>1
    <3> QED  BY <1>1, <1>3, <3>1
  <2>2. CASE ~nf
    <3>1. end = next  BY <1>0, <2>2
    <3> QED  BY <1>3, <1>4, <3>1
  <2> QED  BY <2>1, <2>2
<1>8. start \in S /\ start \in Int /\ start <= bp
  <2>1. CASE pf
    <3>1. prev \in S /\ prev + Sz(m, prev) = bp /\ start = prev  BY <1>0, <1>5, <2>1
    <3> QED  BY <1>1, <3>1
  <2>2. CASE ~pf
    <3>1. start = bp  BY <1>0, <2>2
    <3> QED  BY <1>1, <3>1
  <2> QED  BY <2>1, <2>2
<1>9. bp < end /\ start < end  BY <1>1, <1>4, <1>7, <1>8
<1>10. ASSUME NEW x \in S, ~ (x < start), ~ (x >= end), x # bp PROVE (pf /\ x = prev) \/ (nf /\ x = next)
  <2>1. CASE x + Sz(m, x) <= bp
    <3>1. pf  BY <1>0, <1>1, <1>10, <2>1
    <3>2. start = prev /\ prev \in S /\ prev + Sz(m, prev) = bp  BY <1>0, <1>5, <3>1
    <3>3. x = prev  BY <1>1, <1>2, <1>10, <2>1, <3>2
    <3> QED  BY <3>1, <3>3
  <2>2. CASE bp + Sz(m, bp) <= x
    <3>1. nf  BY <1>0, <1>1, <1>4, <1>10, <2>2
    <3>2. end = next + Sz(m, next) /\ next \in S  BY <1>0, <1>6, <3>1
    <3>3. x = next  BY <1>1, <1>2, <1>4, <1>10, <2>2, <3>2
    <3> QED  BY <3>1, <3>3
  <2> QED  BY <1>2, <1>10, <2>1, <2>2
<1>11. ASSUME pf PROVE start <= prev /\ prev < end
  <2>1. start = prev /\ start \in Int  BY <1>0, <1>8, <1>11
  <2> QED  BY <1>9, <2>1
<1>12. ASSUME nf PROVE start <= next /\ next < end
  <2>1. next \in S /\ end = next + Sz(m, next)  BY <1>0, <1>6, <1>12
  <2>2. next < end  BY <1>1, <2>1
  <2>3. bp \in Int /\ bp <= next  BY <1>1, <1>4
  <2> QED  BY <1>4, <1>8, <2>2, <2>3
<1>13. size = end - start /\ size >= Sz(m, bp)
  <2> DEFINE n == SizeIf(m, next, nf)
             p == SizeIf(m, prev, pf)
             z == Sz(m, bp)
  <2>1. n \in Nat /\ end = next + n
    <3>1. CASE nf
      <4>1. n = Sz(m, next) /\ end = next + Sz(m, next) /\ next \in S  BY <1>0, <1>6, <3>1 DEF SizeIf
      <4> HIDE DEF n
      <4> QED  BY <1>1, <4>1
    <3>2. CASE ~nf
      <4>1. n = 0 /\ end = next  BY <1>0, <3>2 DEF SizeIf
      <4> HIDE DEF n
      <4> QED  BY <1>4, <4>1
    <3> QED  BY <3>1, <3>2
  <2>2. p \in Nat /\ start = bp - p
    <3>1. CASE pf
      <4>1. p = Sz(m, prev) /\ prev + Sz(m, prev) = bp /\ start = prev /\ prev \in S  BY <1>0, <1>5, <3>1 DEF SizeIf
      <4> HIDE DEF p
      <4> QED  BY <1>1, <4>1
    <3>2. CASE ~pf
      <4>1. p = 0 /\ start = bp /\ bp \in Int  BY <1>0, <1>1, <3>2 DEF SizeIf
      <4> HIDE DEF p
      <4> QED  BY <4>1
    <3> QED  BY <3>1, <3>2
  <2>3. z \in Int /\ bp \in Int /\ next = bp + z  BY <1>1, <1>4
  <2>4. size = z + n + p  OBVIOUS
  <2> HIDE DEF n, p, z
  <2>5. size = end - start /\ size >= z  BY ONLY <2>1, <2>2, <2>3, <2>4
  <2> QED  BY <2>5 DEF z
<1> QED  BY <1>7, <1>8, <1>9, <1>10, <1>11, <1>12, <1>13 DEF Spans

\* Merging keeps the allocated blocks, and the block it returns is free.
Merged(h, S, bp, r) ==
    \E T : /\ Keeps(h, S, r.heap, T)
           /\ r.bp \in T /\ Al(r.heap.mem, r.bp) = 0 /\ Sz(r.heap.mem, r.bp) >= Sz(h.mem, bp)

\* In each of the four cases of coalesce.
LEMMA MergeKeeps ==
    ASSUME NEW h, NEW S, NEW bp, Nearly(h, S, bp), NEW pf \in BOOLEAN, NEW nf \in BOOLEAN,
           Before(h.mem, S, bp, pf, PrevBlk(h, bp)), After(h.mem, S, bp, nf, NextBlk(h, bp))
    PROVE  Merged(h, S, bp, Merge(h, bp, pf, nf))
<1> DEFINE m == h.mem
           prev == PrevBlk(h, bp)
           next == NextBlk(h, bp)
           h1 == RemovedIf(h, next, nf)
           h2 == RemovedIf(h1, prev, pf)
           start == SpanStart(pf, prev, bp)
           end == SpanEnd(m, nf, next)
           size == Sz(m, bp) + SizeIf(m, next, nf) + SizeIf(m, prev, pf)
           g == MadeFree(h2, start, size)
           F == FreeOf(m, S) \ {bp}
           F1 == LessIf(F, next, nf)
           F2 == LessIf(F1, prev, pf)
           B == Beyond(S, start, end)
           T == B \cup {start}
           r == Merge(h, bp, pf, nf)
<1>1. r = [heap |-> g, bp |-> start]
  BY DEF Merge, BlkSize, GetSize, HeaderPtr, Sz, RemovedIf, SpanStart, SizeIf, MadeFree
<1>2. r.heap = g /\ r.bp = start  BY <1>1
<1> HIDE DEF r
<1>3. /\ bp \in S /\ Al(m, bp) = 0 /\ Good(h, S, F) /\ NoTwoFree(m, S \ {bp})
  BY DEF Nearly
<1>4. Tiles(m, S, Lo + 4, h.brk) /\ F \subseteq S  BY <1>3 DEF Good
<1>5. Before(m, S, bp, pf, prev) /\ After(m, S, bp, nf, next)  OBVIOUS
<1> HIDE DEF m, prev, next
<1>6. Spans(m, S, h.brk, bp, pf, nf, prev, next, start, end, size)
  <2> HIDE DEF start, end, size
  <2> QED  BY <1>3, <1>4, <1>5, MergedBlocks DEF start, end, size
<1>7. \A b \in S : b \in Int /\ Sz(m, b) \in Int /\ Sz(m, b) >= 6 /\ Al(m, b) \in {0, 1}
  BY <1>4 DEF Tiles, IsBlock
<1>8. /\ start \in S /\ end \in S \cup {h.brk} /\ start < end /\ start \in Int /\ end \in Int
      /\ start <= bp /\ bp < end
      /\ \A x \in S : x < start \/ x >= end \/ x = bp \/ (pf /\ x = prev) \/ (nf /\ x = next)
      /\ pf => start <= prev /\ prev < end
      /\ nf => start <= next /\ next < end
      /\ size = end - start /\ size >= Sz(m, bp)
  <2> HIDE DEF start, end, size
  <2> QED  BY <1>6 DEF Spans
<1>9. (nf => next \in F) /\ (pf => prev \in F1)
  <2>1. nf => next \in S /\ Al(m, next) = 0 /\ next # bp
    BY <1>3, <1>5, <1>7 DEF After
  <2>2. pf => prev \in S /\ Al(m, prev) = 0 /\ prev # bp /\ prev < bp
    BY <1>3, <1>5, <1>7 DEF Before
  <2>3. next > bp  BY <1>3, <1>5, <1>7 DEF After
  <2>4. pf => prev # next
    <3>1. pf => prev \in Int  BY <1>7, <2>2
    <3>2. next \in Int /\ bp \in Int  BY <1>3, <1>5, <1>7 DEF After
    <3> QED  BY <2>2, <2>3, <3>1, <3>2
  <2>5. nf => next \in F  BY <2>1 DEF FreeOf
  <2>6. pf => prev \in F  BY <2>2 DEF FreeOf
  <2> HIDE DEF F
  <2>7. pf => prev \in F1  BY <2>4, <2>6 DEF LessIf
  <2> QED  BY <2>5, <2>7
<1> HIDE DEF start, end, size, h1, h2, F, F1, F2, g, B, T
<1>10. Good(h1, S, F1) /\ h1.brk = h.brk /\ Retained(m, h1.mem, S) /\ Untouched(m, h1.mem, S \ F)
  BY <1>3, <1>9, RemoveIf DEF m, h1, F1
<1>11. Good(h2, S, F2) /\ h2.brk = h1.brk /\ Retained(h1.mem, h2.mem, S) /\ Untouched(h1.mem, h2.mem, S \ F1)
  BY <1>9, <1>10, RemoveIf DEF h2, F2
<1>12. F1 \subseteq F /\ F2 \subseteq F1 /\ \A x \in F : x \in F2 <=> ~ (nf /\ x = next) /\ ~ (pf /\ x = prev)
  BY DEF F1, F2, LessIf
<1>13. Retained(m, h2.mem, S)  BY <1>10, <1>11, RetainedOn
<1>14. Untouched(m, h2.mem, S \ F)
  <2>1. Untouched(h1.mem, h2.mem, S \ F)  BY <1>11, <1>12 DEF Untouched
  <2>2. Retained(m, h1.mem, S \ F)  BY <1>10 DEF Retained
  <2> QED  BY <1>10, <2>1, <2>2, UntouchedOn
<1>15. Avoids(F2, start, end)
  <2>1. bp \notin F  BY DEF F
  <2> QED  BY <1>4, <1>8, <1>12, <2>1 DEF Avoids
<1>16. /\ Good(g, T, F2 \cup {start}) /\ g.brk = h2.brk
       /\ Sz(g.mem, start) = size /\ Al(g.mem, start) = 0
       /\ Retained(h2.mem, g.mem, B) /\ Untouched(h2.mem, g.mem, B \ F2)
  <2>1. end \in S \cup {h2.brk}  BY <1>8, <1>10, <1>11
  <2>2. /\ start \in S /\ start < end /\ size = end - start /\ B = Beyond(S, start, end)
        /\ g = MadeFree(h2, start, size) /\ T = B \cup {start}
    BY <1>8 DEF g, B, T
  <2>3. Good(h2, S, F2)  BY <1>11
  <2>4. /\ Good(g, B \cup {start}, F2 \cup {start}) /\ g.brk = h2.brk
        /\ Sz(g.mem, start) = size /\ Al(g.mem, start) = 0
        /\ Retained(h2.mem, g.mem, B) /\ Untouched(h2.mem, g.mem, B \ F2)
    BY ONLY <1>15, <2>1, <2>2, <2>3, FreeBlockMade
  <2> QED  BY <2>2, <2>4
<1>17. B \subseteq S /\ bp \notin B /\ start \notin B /\ \A x \in S : x \in B <=> x < start \/ x >= end
  BY <1>3, <1>8, <1>7 DEF B, Beyond
<1>18. Retained(m, g.mem, B)
  <2>1. Retained(m, h2.mem, B)  BY <1>13, <1>17 DEF Retained
  <2> QED  BY <1>16, <2>1, RetainedOn
<1>19. SameSizes(m, g.mem, B)  BY <1>18, RetainedSizes
<1>20. FreeOf(g.mem, T) = F2 \cup {start}
  <2>1. \A x \in B : Al(g.mem, x) = Al(m, x)  BY <1>19 DEF SameSizes
  <2>2. \A x \in B : Al(m, x) = 0 <=> x \in F  BY <1>17 DEF F, FreeOf
  <2>3. \A x \in B : x \in F <=> x \in F2  BY <1>8, <1>12, <1>17
  <2>4. F2 \subseteq B  BY <1>4, <1>12, <1>15, <1>17 DEF Avoids
  <2> QED  BY <1>16, <2>1, <2>2, <2>3, <2>4 DEF T, FreeOf
<1>21. AllocOf(g.mem, T) = AllocOf(m, S)
  <2>1. \A x \in B : Al(g.mem, x) = Al(m, x)  BY <1>19 DEF SameSizes
  <2>2. \A x \in S : Al(m, x) = 1 => x \in B
    <3>1. SUFFICES ASSUME NEW x \in S, Al(m, x) = 1 PROVE x \in B  OBVIOUS
    <3>2. x # bp /\ ~ (pf /\ x = prev) /\ ~ (nf /\ x = next)  BY <1>3, <1>5, <3>1 DEF Before, After
    <3> QED  BY <1>8, <1>17, <3>2
  <2> QED  BY <1>16, <1>17, <2>1, <2>2 DEF T, AllocOf
<1>22. Untouched(m, g.mem, AllocOf(m, S))
  <2>1. AllocOf(m, S) \subseteq B \ F2
    <3>1. AllocOf(m, S) \subseteq T  BY <1>21 DEF AllocOf
    <3>2. start \notin AllocOf(m, S)  BY <1>16, <1>21 DEF AllocOf
    <3>3. \A x \in AllocOf(m, S) : x \notin F  BY DEF AllocOf, F, FreeOf
    <3> QED  BY <1>12, <3>1, <3>2, <3>3 DEF T
  <2>2. AllocOf(m, S) \subseteq S \ F  BY DEF AllocOf, F, FreeOf
  <2>3. Untouched(h2.mem, g.mem, AllocOf(m, S))  BY <1>16, <2>1 DEF Untouched
  <2>4. Untouched(m, h2.mem, AllocOf(m, S)) /\ Retained(m, h2.mem, AllocOf(m, S))
    BY <1>13, <1>14, <2>2 DEF Untouched, Retained
  <2> QED  BY <2>3, <2>4, UntouchedOn
<1>23. ASSUME NEW b \in T, NEW c \in T, b + Sz(g.mem, b) = c PROVE Al(g.mem, b) = 1 \/ Al(g.mem, c) = 1
  <2>1. \A x \in B : x \in S /\ x # bp /\ Sz(g.mem, x) = Sz(m, x) /\ Al(g.mem, x) = Al(m, x)
    BY <1>17, <1>19 DEF SameSizes
  <2>2. CASE b \in B /\ c \in B  BY <1>3, <1>23, <2>1, <2>2 DEF NoTwoFree
  <2>3. CASE b \in B /\ c = start
    <3>1. b \in S /\ b + Sz(m, b) = start  BY <1>23, <2>1, <2>3
    <3>2. CASE pf
      <4>1. start = prev /\ prev \in S /\ Al(m, prev) = 0 /\ prev # bp
        BY <1>3, <1>5, <1>7, <3>2 DEF Before, start, SpanStart
      <4>2. Al(m, b) = 1 \/ Al(m, prev) = 1  BY <1>3, <2>1, <2>3, <3>1, <4>1 DEF NoTwoFree
      <4> QED  BY <2>1, <2>3, <4>1, <4>2
    <3>3. CASE ~pf
      <4>1. start = bp  BY <3>3 DEF start, SpanStart
      <4>2. Al(m, b) = 1  BY <1>5, <3>1, <3>3, <4>1 DEF Before
      <4> QED  BY <2>1, <2>3, <4>2
    <3> QED  BY <3>2, <3>3
  <2>4. CASE b = start
    <3>1. c = end
      <4>1. start + size = end  BY <1>8
      <4> QED  BY <1>16, <1>23, <2>4, <4>1
    <3>2. c \in B /\ c \in S  BY <1>8, <1>17, <3>1 DEF T
    <3>3. CASE nf
      <4>1. end = next + Sz(m, next) /\ next \in S /\ Al(m, next) = 0 /\ next # bp
        BY <1>3, <1>5, <1>7, <3>3 DEF After, end, SpanEnd
      <4>2. Al(m, next) = 1 \/ Al(m, c) = 1  BY <1>3, <1>17, <3>1, <3>2, <4>1 DEF NoTwoFree
      <4> QED  BY <2>1, <3>2, <4>1, <4>2
    <3>4. CASE ~nf
      <4>1. end = next  BY <3>4 DEF end, SpanEnd
      <4>2. Al(m, c) = 1  BY <1>5, <3>1, <3>2, <3>4, <4>1 DEF After
      <4> QED  BY <2>1, <3>2, <4>2
    <3> QED  BY <3>3, <3>4
  <2> QED  BY <2>2, <2>3, <2>4 DEF T
<1>24. Consistent(g, T)  BY <1>16, <1>20, <1>23 DEF Consistent, NoTwoFree
<1>25. Keeps(h, S, g, T)  BY <1>10, <1>11, <1>16, <1>21, <1>22, <1>24 DEF Keeps, m
<1>26. start \in T /\ Al(g.mem, start) = 0 /\ Sz(g.mem, start) >= Sz(m, bp)
  BY <1>8, <1>16 DEF T
<1>27. Merged(h, S, bp, r)  BY <1>2, <1>25, <1>26 DEF Merged, m
<1> QED  BY <1>27 DEF r

\* What coalesce looks at is what is before and after the block.
LEMMA CoalesceKeeps ==
    ASSUME NEW h, NEW S, NEW bp, Nearly(h, S, bp)
    PROVE  Merged(h, S, bp, Coalesce(h, bp))
<1> DEFINE m == h.mem
           prev == PrevBlk(h, bp)
           next == NextBlk(h, bp)
           pf == GetAlloc(h, FooterPtr(h, prev)) = 0
           nf == NextFree(h, bp)
<1>1. bp \in S /\ Good(h, S, FreeOf(m, S) \ {bp})  BY DEF Nearly
<1>2. Tiles(m, S, Lo + 4, h.brk) /\ m[Lo + 1] = Tag(2, 1) /\ m[Lo + 2] = Tag(2, 1) /\ m[h.brk - 1] = Tag(0, 1)
  BY <1>1 DEF Good
<1>3. \A b \in S : /\ b \in Int /\ Sz(m, b) \in Int /\ Sz(m, b) >= 6 /\ Lo + 4 <= b /\ b + Sz(m, b) <= h.brk
                   /\ Al(m, b) \in {0, 1} /\ b + Sz(m, b) \in S \cup {h.brk}
                   /\ m[b + Sz(m, b) - 2] = Tag(Sz(m, b), Al(m, b))
  BY <1>2 DEF Tiles, IsBlock
<1>4. \A b, c \in S : b = c \/ b + Sz(m, b) <= c \/ c + Sz(m, c) <= b  BY <1>2, TilesApart
<1>5. next = bp + Sz(m, bp) /\ (nf <=> Al(m, next) = 0)
  BY DEF NextBlk, NextFree, GetSize, GetAlloc, HeaderPtr, Sz, Al
<1> HIDE DEF next, nf
<1>6. After(m, S, bp, nf, next)
  <2>1. next \in S \cup {h.brk}  BY <1>1, <1>3, <1>5
  <2>2. next = h.brk => Al(m, next) = 1  BY <1>2 DEF Al, Tag
  <2>3. next \in S => Al(m, next) \in {0, 1}  BY <1>3
  <2> QED  BY <1>5, <2>1, <2>2, <2>3 DEF After
<1>7. prev = bp - m[bp - 2][2] /\ (pf <=> m[prev + Sz(m, prev) - 2][3] = 0)
  BY DEF PrevBlk, FooterPtr, GetSize, GetAlloc, HeaderPtr, Sz
<1>8. \A s, a : Tag(s, a)[2] = s /\ Tag(s, a)[3] = a  BY DEF Tag
<1> HIDE DEF prev, pf
<1>9. Before(m, S, bp, pf, prev)
  <2>1. CASE bp = Lo + 4
    <3>1. bp - 2 = Lo + 2 /\ (Lo + 2) - 1 = Lo + 1 /\ Lo + 2 + 2 - 2 = Lo + 2 /\ bp - 2 + 2 - 2 = bp - 2
      BY <2>1, Bounds
    <3>2. prev = Lo + 2  BY <1>2, <1>7, <1>8, <3>1
    <3>3. Sz(m, prev) = 2  BY <1>2, <1>8, <3>1, <3>2 DEF Sz
    <3>4. ~pf
      <4>1. prev + Sz(m, prev) - 2 = Lo + 2  BY <3>2, <3>3, Bounds
      <4> QED  BY <1>2, <1>7, <1>8, <4>1
    <3>5. \A b \in S : b + Sz(m, b) # bp  BY <1>3, <2>1, Bounds
    <3> QED  BY <3>4, <3>5 DEF Before
  <2>2. CASE bp # Lo + 4
    <3>1. PICK b \in S : b + Sz(m, b) = bp  BY <1>1, <1>2, <2>2 DEF Tiles
    <3>2. b + Sz(m, b) - 2 = bp - 2  BY <1>3, <3>1
    <3>3. m[bp - 2] = Tag(Sz(m, b), Al(m, b))  BY <1>3, <3>2
    <3>4. prev = b
      <4>1. prev = bp - Sz(m, b)  BY <1>7, <1>8, <3>3
      <4> QED  BY <1>3, <3>1, <4>1
    <3>5. pf <=> Al(m, b) = 0  BY <1>7, <1>8, <3>2, <3>3, <3>4
    <3>6. \A c \in S : c + Sz(m, c) = bp => c = b  BY <1>3, <1>4, <3>1
    <3>7. Al(m, b) \in {0, 1}  BY <1>3
    <3> QED  BY <3>1, <3>4, <3>5, <3>6, <3>7 DEF Before
  <2> QED  BY <2>1, <2>2
<1>10. Coalesce(h, bp) = Merge(h, bp, pf, nf)  BY DEF Coalesce, pf, prev, nf
<1>11. pf \in BOOLEAN /\ nf \in BOOLEAN  BY DEF pf, nf, NextFree
<1>12. Merged(h, S, bp, Merge(h, bp, pf, nf))  BY <1>6, <1>9, <1>11, MergeKeeps DEF m, prev, next
<1> QED  BY <1>10, <1>12

\* r offers a free block of at least size words and keeps the allocated ones.
Offers(h, S, size, r, T) ==
    /\ Consistent(r.heap, T)
    /\ AllocOf(r.heap.mem, T) = AllocOf(h.mem, S) /\ Untouched(h.mem, r.heap.mem, AllocOf(h.mem, S))
    /\ r.bp \in T /\ Al(r.heap.mem, r.bp) = 0 /\ Sz(r.heap.mem, r.bp) >= size

\* The heap with size more words, a free block before the new epilogue.
Grown(h, size) ==
    [SetTags([h EXCEPT !.brk = @ + size], h.brk, size, 0) EXCEPT !.mem[HeaderPtr(h.brk + size)] = Tag(0, 1)]

\* What growing by a block leaves.
Appends(h, S, size, g) ==
    /\ Nearly(g, S \cup {h.brk}, h.brk) /\ g.brk = h.brk + size
    /\ Sz(g.mem, h.brk) = size /\ Untouched(h.mem, g.mem, S)
    /\ AllocOf(g.mem, S \cup {h.brk}) = AllocOf(h.mem, S)

\* extend_heap puts a free block between the last block and a new epilogue.
LEMMA GrowMakesBlock ==
    ASSUME NEW h, NEW S, Consistent(h, S), NEW size \in Nat, size >= 6, size % 2 = 0, CanGrow(h, size),
           NEW g, g = Grown(h, size)
    PROVE  Appends(h, S, size, g)
<1> DEFINE m == h.mem
           n == g.mem
           bp == h.brk
           one == [h EXCEPT !.brk = bp + size]
           two == SetTags(one, bp, size, 0)
           last == bp + size - 1
           F == FreeOf(m, S)
           C == S \cup {bp}
<1>1. Good(h, S, F) /\ NoTwoFree(m, S)  BY DEF Consistent
<1>2. /\ h \in HeapRecords /\ h.listp = Lo + 2 /\ Tiles(m, S, Lo + 4, bp)
      /\ m[Lo + 1] = Tag(2, 1) /\ m[Lo + 2] = Tag(2, 1) /\ Linked(m, h.head, F, Index(m))
  BY <1>1 DEF Good
<1>3. /\ bp \in Lo + 4 .. Hi + 1 /\ NULL \notin F
      /\ \A b \in S : b \in Lo + 4 .. Hi - 3 /\ Sz(m, b) \in 6 .. MaxHeap /\ b + Sz(m, b) <= bp
  BY <1>1, GoodFacts
<1>4. bp % 2 = 0  BY <1>1, EvenEnds
<1>5. /\ bp + size \in Lo .. Hi + 1 /\ size \in 6 .. MaxHeap /\ bp \in Lo + 1 .. Hi /\ bp + size - 2 \in Lo .. Hi
      /\ last \in Lo .. Hi
  BY <1>3, Bounds DEF CanGrow
<1>6. one \in HeapRecords /\ one.mem = m /\ one.brk = bp + size /\ one.head = h.head /\ one.listp = h.listp
  BY <1>2, <1>5 DEF HeapRecords
<1> HIDE DEF one
<1>7. /\ Fixed(one, two) /\ two.head = one.head
      /\ IsBlock(two.mem, bp) /\ Sz(two.mem, bp) = size /\ Al(two.mem, bp) = 0
      /\ \A w \in Lo .. Hi : w # bp - 1 /\ w # bp + size - 2 => two.mem[w] = one.mem[w]
  BY <1>4, <1>5, <1>6, TagsMakeBlock
<1> HIDE DEF two
<1>8. g = Put(two, last, Tag(0, 1))
  <2>1. g = Put(two, HeaderPtr(bp + size), Tag(0, 1))  BY DEF Grown, Put, two, one
  <2>2. HeaderPtr(bp + size) = last  BY <1>5 DEF HeaderPtr
  <2> HIDE DEF last
  <2> QED  BY <2>1, <2>2
<1>9. /\ Fixed(two, g) /\ g.head = two.head
      /\ \A w \in Lo .. Hi : n[w] = IF w = last THEN Tag(0, 1) ELSE two.mem[w]
  <2>1. Tag(0, 1) \in Word  BY Bounds DEF Word
  <2>2. two \in HeapRecords  BY <1>7 DEF Fixed
  <2> HIDE DEF last
  <2> QED  BY <1>5, <1>8, <2>1, <2>2, OneWord
<1> HIDE DEF m, n
<1>10. g \in HeapRecords /\ g.brk = bp + size /\ g.listp = Lo + 2 /\ g.head = h.head
  BY <1>2, <1>6, <1>7, <1>9 DEF Fixed
<1>11. \A w \in Lo .. Hi : w < bp - 1 => n[w] = m[w]
  <2>1. \A w \in Lo .. Hi : w < bp - 1 => w # bp - 1 /\ w # bp + size - 2 /\ w # last
    BY <1>3, <1>5
  <2> HIDE DEF last
  <2> QED  BY <1>6, <1>7, <1>9, <2>1
<1>12. n[last] = Tag(0, 1)
  <2> HIDE DEF last
  <2> QED  BY <1>5, <1>9
<1>13. IsBlock(n, bp) /\ Sz(n, bp) = size /\ Al(n, bp) = 0
  <2>1. /\ bp - 1 \in Lo .. Hi /\ bp - 1 # last /\ bp + size - 2 # last
    BY <1>3, <1>5, Bounds
  <2>2. SameTags(two.mem, n, bp)
    <3> HIDE DEF last
    <3> QED  BY <1>5, <1>7, <1>9, <2>1 DEF SameTags
  <2> QED  BY <1>7, <2>2, TagsBlock
<1>14. Untouched(m, n, S)
  <2>1. ASSUME NEW b \in S, NEW w \in b - 1 .. b + Sz(m, b) - 2 PROVE n[w] = m[w]
    <3>1. w \in Lo .. Hi /\ w < bp - 1  BY <1>3, Bounds
    <3> QED  BY <1>11, <3>1
  <2> QED  BY <2>1 DEF Untouched, Holds
<1>15. Retained(m, n, S)
  <2>1. \A b \in S : IsBlock(m, b)  BY <1>2 DEF Tiles
  <2> QED  BY <1>14, <2>1, UntouchedRetains
<1>16. SameSizes(m, n, S)  BY <1>15, RetainedSizes
<1>17. Tiles(n, C, Lo + 4, bp + size)
  <2>1. Tiles(n, S, Lo + 4, bp)  BY <1>2, <1>15, TilesFrame
  <2>2. Tiles(n, {bp}, bp, bp + size)
    <3>1. Tiles(n, {bp}, bp, bp + Sz(n, bp))  BY <1>13, TilesOne
    <3> QED  BY <1>13, <3>1
  <2> QED  BY <2>1, <2>2, TilesJoin
<1>18. bp \notin S  BY <1>3
<1>19. FreeOf(n, C) \ {bp} = F /\ AllocOf(n, C) = AllocOf(m, S)
  BY <1>13, <1>16, <1>18 DEF FreeOf, AllocOf, SameSizes
<1>20. Linked(n, g.head, F, Index(n))
  <2>1. SameLinks(m, n, F)
    <3>1. ASSUME NEW x \in F PROVE n[x] = m[x] /\ n[x + 2] = m[x + 2]
      <4>1. x \in S  BY DEF FreeOf
      <4>2. x \in Lo .. Hi /\ x + 2 \in Lo .. Hi /\ x < bp - 1 /\ x + 2 < bp - 1  BY <1>3, <4>1, Bounds
      <4> QED  BY <1>11, <4>2
    <3> QED  BY <3>1 DEF SameLinks
  <2>2. SameIndex(Index(m), Index(n), F)
    <3>1. \A x \in F : x \in S /\ x \in Lo .. Hi  BY <1>3, Bounds DEF FreeOf
    <3> QED  BY <1>16, <3>1 DEF SameIndex, SameSizes, Index
  <2> QED  BY <1>2, <1>3, <1>10, <2>1, <2>2, LinkedFrame
<1>21. n[Lo + 1] = Tag(2, 1) /\ n[Lo + 2] = Tag(2, 1)
  <2>1. Lo + 1 \in Lo .. Hi /\ Lo + 2 \in Lo .. Hi /\ Lo + 1 < bp - 1 /\ Lo + 2 < bp - 1  BY <1>3, Bounds
  <2> QED  BY <1>2, <1>11, <2>1
<1>22. n[(bp + size) - 1] = Tag(0, 1)  BY <1>12, <1>5
<1>23. Good(g, C, F)
  <2>1. F \subseteq C  BY DEF FreeOf
  <2> QED  BY <1>10, <1>17, <1>20, <1>21, <1>22, <2>1 DEF Good, n
<1>24. NoTwoFree(n, C \ {bp})
  <2>1. C \ {bp} = S  BY <1>18
  <2>2. NoTwoFree(n, S)  BY <1>1, <1>16 DEF NoTwoFree, SameSizes
  <2> QED  BY <2>1, <2>2
<1>25. Nearly(g, C, bp)
  <2>1. bp \in C /\ Al(g.mem, bp) = 0  BY <1>13 DEF n
  <2>2. Good(g, C, FreeOf(g.mem, C) \ {bp})  BY <1>19, <1>23 DEF n
  <2>3. NoTwoFree(g.mem, C \ {bp})  BY <1>24 DEF n
  <2> QED  BY <2>1, <2>2, <2>3 DEF Nearly
<1> QED  BY <1>10, <1>13, <1>14, <1>19, <1>25 DEF Appends, m, n

\* The heap grows by a block that is free, or stays as it is.
LEMMA ExtendOffers ==
    ASSUME NEW h, NEW S, Consistent(h, S), NEW size \in Nat, size >= 6, size % 2 = 0,
           NEW r, r = ExtendHeap(h, size)
    PROVE  /\ ~CanGrow(h, size) => r.heap = h /\ r.bp = NULL
           /\ CanGrow(h, size) => r.heap.brk = h.brk + size /\ \E T : Offers(h, S, size, r, T)
<1>1. ~ (size % 2 = 1)  OBVIOUS
<1>2. CASE ~CanGrow(h, size)
  <2>1. r = [heap |-> h, bp |-> NULL]  BY <1>1, <1>2 DEF ExtendHeap
  <2> QED  BY <1>2, <2>1
<1>3. CASE CanGrow(h, size)
  <2> DEFINE g == Grown(h, size)
             bp == h.brk
             C == S \cup {bp}
  <2>1. r = Coalesce(g, bp)  BY <1>1, <1>3 DEF ExtendHeap, Grown
  <2>0. g = Grown(h, size)  OBVIOUS
  <2> HIDE DEF g
  <2>2. /\ Nearly(g, C, bp) /\ g.brk = h.brk + size
        /\ Sz(g.mem, bp) = size /\ Untouched(h.mem, g.mem, S)
        /\ AllocOf(g.mem, C) = AllocOf(h.mem, S)
    <3>1. Appends(h, S, size, g)  BY <1>3, <2>0, GrowMakesBlock
    <3> QED  BY <3>1 DEF Appends
  <2>3. Merged(g, C, bp, r)  BY <2>1, <2>2, CoalesceKeeps
  <2>4. PICK T : /\ Keeps(g, C, r.heap, T)
                 /\ r.bp \in T /\ Al(r.heap.mem, r.bp) = 0 /\ Sz(r.heap.mem, r.bp) >= Sz(g.mem, bp)
    BY <2>3 DEF Merged
  <2>5. Untouched(h.mem, r.heap.mem, AllocOf(h.mem, S))
    <3>1. AllocOf(h.mem, S) \subseteq S  BY DEF AllocOf
    <3>2. Untouched(h.mem, g.mem, AllocOf(h.mem, S))  BY <2>2, <3>1 DEF Untouched
    <3>3. Untouched(g.mem, r.heap.mem, AllocOf(h.mem, S))  BY <2>2, <2>4 DEF Keeps
    <3>4. \A b \in AllocOf(h.mem, S) : IsBlock(h.mem, b)  BY <3>1 DEF Consistent, Good, Tiles
    <3>5. Retained(h.mem, g.mem, AllocOf(h.mem, S))  BY <3>2, <3>4, UntouchedRetains
    <3> QED  BY <3>2, <3>3, <3>5, UntouchedOn
  <2>6. Offers(h, S, size, r, T)  BY <2>2, <2>4, <2>5 DEF Offers, Keeps
  <2>7. r.heap.brk = h.brk + size  BY <2>2, <2>4 DEF Keeps
  <2> QED  BY <1>3, <2>6, <2>7
<1> QED  BY <1>2, <1>3

\* g is h with the free block at bp given out.
Placed(h, S, bp, asize, g, T) ==
    /\ Consistent(g, T) /\ g.brk = h.brk
    /\ AllocOf(g.mem, T) = AllocOf(h.mem, S) \cup {bp} /\ Untouched(h.mem, g.mem, AllocOf(h.mem, S))
    /\ Sz(g.mem, bp) >= asize

\* Place gives out the block whole when what remains is too small.
LEMMA PlaceWhole ==
    ASSUME NEW h, NEW S, Consistent(h, S), NEW bp \in FreeOf(h.mem, S), NEW free, free = Sz(h.mem, bp),
           NEW g, g = SetTags(RemoveFromList(h, bp), bp, free, 1)
    PROVE  Placed(h, S, bp, free, g, S)
<1> DEFINE m == h.mem
           h1 == RemoveFromList(h, bp)
           F == FreeOf(m, S)
           G == F \ {bp}
           end == bp + free
<1>1. Good(h, S, F) /\ NoTwoFree(m, S) /\ bp \in S /\ bp \in F /\ Al(m, bp) = 0  BY DEF Consistent, FreeOf
<1>2. /\ Good(h1, S, G) /\ h1.brk = h.brk
      /\ Retained(m, h1.mem, S) /\ Untouched(m, h1.mem, S \ F)
  <2> HIDE DEF F
  <2> QED  BY <1>1, GoodRemove
<1> HIDE DEF h1
<1>3. /\ h1.brk \in Lo + 4 .. Hi + 1
      /\ \A b \in S : b \in Lo + 4 .. Hi - 3 /\ Sz(h1.mem, b) \in 6 .. MaxHeap /\ b + Sz(h1.mem, b) <= h1.brk
  BY <1>2, GoodFacts
<1>4. \A b \in S : Sz(h1.mem, b) = Sz(m, b) /\ Al(h1.mem, b) = Al(m, b)
  BY <1>2, RetainedSizes DEF SameSizes
<1>5. free \in 6 .. MaxHeap /\ bp \in Lo + 1 .. Hi /\ bp + free - 2 \in Lo .. Hi /\ end <= h1.brk
  BY <1>1, <1>3, <1>4, Bounds
<1>6. free % 2 = 0 /\ bp % 2 = 0 /\ end \in S \cup {h1.brk}
  BY <1>1, <1>2, <1>4 DEF Good, Tiles, IsBlock
<1>7. /\ Fixed(h1, g) /\ g.head = h1.head /\ Outside(h1.mem, g.mem, bp, end)
      /\ IsBlock(g.mem, bp) /\ Sz(g.mem, bp) = free /\ Al(g.mem, bp) = 1
  <2> DEFINE t == SetTags(h1, bp, free, 1)
  <2>1. h1 \in HeapRecords  BY <1>2 DEF Good
  <2>2. /\ Fixed(h1, t) /\ t.head = h1.head /\ Outside(h1.mem, t.mem, bp, end)
        /\ IsBlock(t.mem, bp) /\ Sz(t.mem, bp) = free /\ Al(t.mem, bp) = 1
    BY <1>5, <1>6, <2>1, TagsMakeBlock
  <2>3. g = t  BY DEF h1
  <2> HIDE DEF t
  <2> QED  BY <2>2, <2>3
<1>8. \A x \in S : x = bp \/ x < bp \/ x >= end
  <2>1. \A b, c \in S : b = c \/ b + Sz(m, b) <= c \/ c + Sz(m, c) <= b  BY <1>1, TilesApart DEF Good
  <2> QED  BY <1>1, <1>3, <1>4, <2>1
<1>9. Avoids(G, bp, end)
  <2>1. G \subseteq S \ {bp}  BY DEF FreeOf
  <2> HIDE DEF G, end
  <2> QED  BY <1>8, <2>1 DEF Avoids
<1>10. Swap(S, {bp}, bp, end) = S /\ Beyond(S, bp, end) = S \ {bp}
  <2>1. ~ (bp < bp) /\ ~ (bp >= end)  BY <1>5
  <2> HIDE DEF end
  <2>2. Swap(S, {bp}, bp, end) = S  BY <1>1, <1>8 DEF Swap
  <2>3. Beyond(S, bp, end) = S \ {bp}  BY <1>8, <2>1 DEF Beyond
  <2> QED  BY <2>2, <2>3
<1>11. Tiles(g.mem, {bp}, bp, end)
  <2>1. Tiles(g.mem, {bp}, bp, bp + Sz(g.mem, bp))  BY <1>7, TilesOne
  <2> QED  BY <1>7, <2>1
<1> HIDE DEF G, end
<1>12. Good(g, S, G) /\ Untouched(h1.mem, g.mem, S \ {bp})
  <2>1. Good(g, Swap(S, {bp}, bp, end), G) /\ Untouched(h1.mem, g.mem, Beyond(S, bp, end))
    BY <1>1, <1>2, <1>6, <1>7, <1>9, <1>11, GoodSwap
  <2> QED  BY <1>10, <2>1
<1>13. \A x \in S \ {bp} : Sz(g.mem, x) = Sz(m, x) /\ Al(g.mem, x) = Al(m, x)
  <2>1. \A x \in S \ {bp} : IsBlock(h1.mem, x)  BY <1>2 DEF Good, Tiles
  <2>2. SameSizes(h1.mem, g.mem, S \ {bp})  BY <1>12, <2>1, UntouchedRetains, RetainedSizes
  <2> QED  BY <1>4, <2>2 DEF SameSizes
<1>14. FreeOf(g.mem, S) = G /\ AllocOf(g.mem, S) = AllocOf(m, S) \cup {bp}
  BY <1>1, <1>7, <1>13 DEF FreeOf, AllocOf, G, F
<1>15. NoTwoFree(g.mem, S)  BY <1>1, <1>7, <1>13 DEF NoTwoFree
<1>16. Untouched(m, g.mem, AllocOf(m, S))
  <2>1. AllocOf(m, S) \subseteq S \ F /\ AllocOf(m, S) \subseteq S \ {bp} /\ AllocOf(m, S) \subseteq S
    BY <1>1 DEF AllocOf, FreeOf
  <2>2. /\ Untouched(m, h1.mem, AllocOf(m, S)) /\ Retained(m, h1.mem, AllocOf(m, S))
        /\ Untouched(h1.mem, g.mem, AllocOf(m, S))
    BY <1>2, <1>12, <2>1 DEF Untouched, Retained
  <2> QED  BY <2>2, UntouchedOn
<1>17. Consistent(g, S)  BY <1>12, <1>14, <1>15 DEF Consistent
<1>18. g.brk = h.brk  BY <1>2, <1>7 DEF Fixed
<1>19. Sz(g.mem, bp) >= free  BY <1>5, <1>7
<1> QED  BY <1>14, <1>16, <1>17, <1>18, <1>19 DEF Placed

\* Otherwise the rest becomes a free block.
Divided(h, bp, asize, rest, more) ==
    ListPushFront(SetTags(SetTags(RemoveFromList(h, bp), bp, asize, 1), rest, more, 0), rest)

\* place divides the block when what remains is large enough for one.
LEMMA PlaceDivides ==
    ASSUME NEW h, NEW S, Consistent(h, S), NEW bp \in FreeOf(h.mem, S), NEW asize \in Nat, asize >= 6, asize % 2 = 0,
           NEW more, more = Sz(h.mem, bp) - asize, more >= 6, NEW rest, rest = bp + asize,
           NEW g, g = Divided(h, bp, asize, rest, more)
    PROVE  \E T : Placed(h, S, bp, asize, g, T)
<1> DEFINE m == h.mem
           h1 == RemoveFromList(h, bp)
           one == SetTags(h1, bp, asize, 1)
           two == SetTags(one, rest, more, 0)
           F == FreeOf(m, S)
           G == F \ {bp}
           end == bp + Sz(m, bp)
           B == Beyond(S, bp, end)
           N == {bp} \cup {rest}
           T == Swap(S, N, bp, end)
<1>1. Good(h, S, F) /\ NoTwoFree(m, S) /\ bp \in S /\ bp \in F /\ Al(m, bp) = 0  BY DEF Consistent, FreeOf
<1>2. /\ Good(h1, S, G) /\ h1.brk = h.brk
      /\ Retained(m, h1.mem, S) /\ Untouched(m, h1.mem, S \ F)
  <2> HIDE DEF F
  <2> QED  BY <1>1, GoodRemove
<1> HIDE DEF h1
<1>3. /\ h1.brk \in Lo + 4 .. Hi + 1
      /\ \A b \in S : b \in Lo + 4 .. Hi - 3 /\ Sz(h1.mem, b) \in 6 .. MaxHeap /\ b + Sz(h1.mem, b) <= h1.brk
  BY <1>2, GoodFacts
<1>4. \A b \in S : Sz(h1.mem, b) = Sz(m, b) /\ Al(h1.mem, b) = Al(m, b)
  BY <1>2, RetainedSizes DEF SameSizes
<1>5. Sz(m, bp) \in 6 .. MaxHeap /\ bp \in Lo + 4 .. Hi - 3 /\ end <= h1.brk
  BY <1>1, <1>3, <1>4
<1>6. Sz(m, bp) % 2 = 0 /\ bp % 2 = 0 /\ end \in S \cup {h1.brk}
  BY <1>1, <1>2, <1>4 DEF Good, Tiles, IsBlock
<1> DEFINE z == Sz(m, bp)
<1> HIDE DEF z
<1>7. /\ more \in 6 .. MaxHeap /\ more % 2 = 0 /\ rest \in Lo + 1 .. Hi /\ rest % 2 = 0 /\ rest + more = end
      /\ rest + more - 2 \in Lo .. Hi
      /\ asize \in 6 .. MaxHeap /\ bp \in Lo + 1 .. Hi /\ bp + asize - 2 \in Lo .. Hi
  <2>1. more = z - asize /\ end = bp + z /\ z \in 6 .. MaxHeap /\ z % 2 = 0  BY <1>5, <1>6 DEF z
  <2> HIDE DEF end
  <2> QED  BY <1>3, <1>5, <1>6, <2>1, Bounds
<1>8. bp < rest /\ rest < end /\ bp + asize = rest /\ bp \in Int /\ rest \in Int /\ end \in Int
  <2> HIDE DEF end
  <2> QED  BY <1>5, <1>7
<1> HIDE DEF end
<1>9. /\ Fixed(h1, one) /\ one.head = h1.head /\ Outside(h1.mem, one.mem, bp, rest)
      /\ IsBlock(one.mem, bp) /\ Sz(one.mem, bp) = asize /\ Al(one.mem, bp) = 1
  <2>1. h1 \in HeapRecords  BY <1>2 DEF Good
  <2>2. Outside(h1.mem, one.mem, bp, bp + asize)  BY <1>6, <1>7, <2>1, TagsMakeBlock
  <2>3. /\ Fixed(h1, one) /\ one.head = h1.head
        /\ IsBlock(one.mem, bp) /\ Sz(one.mem, bp) = asize /\ Al(one.mem, bp) = 1
    BY <1>6, <1>7, <2>1, TagsMakeBlock
  <2> QED  BY <1>8, <2>2, <2>3
<1> HIDE DEF one
<1>10. /\ Fixed(one, two) /\ two.head = one.head /\ Outside(one.mem, two.mem, rest, end)
       /\ IsBlock(two.mem, rest) /\ Sz(two.mem, rest) = more /\ Al(two.mem, rest) = 0
  <2>1. one \in HeapRecords  BY <1>9 DEF Fixed
  <2>2. Outside(one.mem, two.mem, rest, rest + more)  BY <1>7, <2>1, TagsMakeBlock
  <2>3. /\ Fixed(one, two) /\ two.head = one.head
        /\ IsBlock(two.mem, rest) /\ Sz(two.mem, rest) = more /\ Al(two.mem, rest) = 0
    BY <1>7, <2>1, TagsMakeBlock
  <2> QED  BY <1>7, <2>2, <2>3
<1> HIDE DEF two
<1>11. Fixed(h1, two) /\ two.head = h1.head /\ Outside(h1.mem, two.mem, bp, end)
  <2>1. \A w \in Lo .. Hi : w < bp - 1 \/ w > end - 2 => (w < bp - 1 \/ w > rest - 2) /\ (w < rest - 1 \/ w > end - 2)
    BY <1>8, Bounds
  <2> QED  BY <1>9, <1>10, <2>1 DEF Fixed, Outside
<1>12. IsBlock(two.mem, bp) /\ Sz(two.mem, bp) = asize /\ Al(two.mem, bp) = 1
  <2>1. SameTags(one.mem, two.mem, bp)
    <3>1. bp - 1 \in Lo .. Hi /\ bp - 1 < rest - 1 /\ bp + asize - 2 < rest - 1  BY <1>5, <1>7, <1>8, Bounds
    <3> QED  BY <1>7, <1>9, <1>10, <3>1 DEF SameTags, Outside
  <2> QED  BY <1>9, <2>1, TagsBlock
<1>13. Tiles(two.mem, N, bp, end)
  <2>1. Tiles(two.mem, {bp}, bp, rest)
    <3>1. Tiles(two.mem, {bp}, bp, bp + Sz(two.mem, bp))  BY <1>12, TilesOne
    <3> QED  BY <1>8, <1>12, <3>1
  <2>2. Tiles(two.mem, {rest}, rest, end)
    <3>1. Tiles(two.mem, {rest}, rest, rest + Sz(two.mem, rest))  BY <1>10, TilesOne
    <3> QED  BY <1>7, <1>10, <3>1
  <2> QED  BY <2>1, <2>2, TilesJoin
<1>14. \A x \in S : x = bp \/ x < bp \/ x >= end
  <2>1. \A b, c \in S : b = c \/ b + Sz(m, b) <= c \/ c + Sz(m, c) <= b  BY <1>1, TilesApart DEF Good
  <2> QED  BY <1>1, <1>3, <1>4, <2>1 DEF end
<1>15. B = S \ {bp} /\ T = B \cup N
  <2>1. B = S \ {bp}  BY <1>8, <1>14 DEF Beyond
  <2>2. T = B \cup N  BY DEF Beyond, Swap
  <2> QED  BY <2>1, <2>2
<1>16. Avoids(G, bp, end)
  <2>1. G \subseteq S \ {bp}  BY DEF FreeOf
  <2> HIDE DEF G
  <2> QED  BY <1>14, <2>1 DEF Avoids
<1> HIDE DEF G
<1>17. Good(two, T, G) /\ Untouched(h1.mem, two.mem, B)
  <2> HIDE DEF N
  <2> QED  BY <1>1, <1>2, <1>6, <1>11, <1>13, <1>16, GoodSwap
<1>18. rest \in T \ G /\ rest \notin S
  <2>1. rest \notin S  BY <1>8, <1>14
  <2>2. G \subseteq S  BY DEF G, FreeOf
  <2>3. rest \in T  BY <1>15
  <2> QED  BY <2>1, <2>2, <2>3
<1>19. g = ListPushFront(two, rest)  BY DEF Divided, two, one, h1
<1> HIDE DEF T, N, B
<1>20. /\ Good(g, T, G \cup {rest}) /\ g.brk = two.brk
       /\ Retained(two.mem, g.mem, T) /\ Untouched(two.mem, g.mem, T \ (G \cup {rest}))
  <2> DEFINE k == ListPushFront(two, rest)
  <2>1. /\ Good(k, T, G \cup {rest}) /\ k.brk = two.brk
        /\ Retained(two.mem, k.mem, T) /\ Untouched(two.mem, k.mem, T \ (G \cup {rest}))
    BY <1>17, <1>18, GoodPush
  <2>2. g = k  BY <1>19
  <2> HIDE DEF k
  <2> QED  BY <2>1, <2>2
<1>21. \A x \in T : Sz(g.mem, x) = Sz(two.mem, x) /\ Al(g.mem, x) = Al(two.mem, x)
  BY <1>20, RetainedSizes DEF SameSizes
<1>22. bp \in T /\ rest \in T /\ \A x \in T : x = bp \/ x = rest \/ x \in B
  BY <1>15 DEF N
<1>23. /\ Sz(g.mem, bp) = asize /\ Al(g.mem, bp) = 1
       /\ Sz(g.mem, rest) = more /\ Al(g.mem, rest) = 0
  BY <1>10, <1>12, <1>21, <1>22
<1>24. \A x \in B : x \in T /\ x \in S /\ x # bp /\ Sz(g.mem, x) = Sz(m, x) /\ Al(g.mem, x) = Al(m, x)
  <2>1. \A x \in B : x \in S /\ x # bp /\ x \in T  BY <1>15
  <2>2. \A x \in B : IsBlock(h1.mem, x)  BY <1>2, <2>1 DEF Good, Tiles
  <2>3. SameSizes(h1.mem, two.mem, B)  BY <1>17, <2>2, UntouchedRetains, RetainedSizes
  <2> QED  BY <1>4, <1>21, <2>1, <2>3 DEF SameSizes
<1>25. FreeOf(g.mem, T) = G \cup {rest}
  <2>1. \A x \in B : x \in G <=> Al(m, x) = 0  BY <1>24 DEF G, F, FreeOf
  <2>2. G \subseteq B  BY <1>15 DEF G, F, FreeOf
  <2>3. bp \notin G /\ bp # rest /\ Al(g.mem, bp) # 0 /\ Al(g.mem, rest) = 0  BY <1>8, <1>23 DEF G
  <2>4. \A x \in T : Al(g.mem, x) = 0 <=> x \in G \cup {rest}  BY <1>22, <1>24, <2>1, <2>3
  <2>5. G \cup {rest} \subseteq T  BY <1>22, <1>24, <2>2
  <2> QED  BY <2>4, <2>5 DEF FreeOf
<1>26. AllocOf(g.mem, T) = AllocOf(m, S) \cup {bp}
  <2>1. \A x \in S : x \in B \/ x = bp  BY <1>15
  <2>2. Al(m, bp) # 1 /\ Al(g.mem, rest) # 1 /\ Al(g.mem, bp) = 1 /\ rest \notin S /\ bp # rest
    BY <1>1, <1>8, <1>18, <1>23
  <2>3. \A x \in T : Al(g.mem, x) = 1 <=> (x \in S /\ Al(m, x) = 1) \/ x = bp
    BY <1>22, <1>24, <2>2
  <2>4. \A x \in S : x \in T  BY <1>22, <1>24, <2>1
  <2> QED  BY <1>22, <2>3, <2>4 DEF AllocOf
<1>27. NoTwoFree(g.mem, T)
  <2>1. SUFFICES ASSUME NEW b \in T, NEW c \in T, b + Sz(g.mem, b) = c, Al(g.mem, b) # 1, Al(g.mem, c) # 1 PROVE FALSE
    BY DEF NoTwoFree
  <2>2. b # bp /\ c # bp  BY <1>23, <2>1
  <2>3. CASE b = rest
    <3>1. c = end  BY <1>7, <1>23, <2>1, <2>3
    <3>2. c \in B  BY <1>8, <1>22, <2>1, <2>2, <3>1
    <3>3. c \in S /\ Al(m, c) # 1 /\ bp + Sz(m, bp) = c  BY <1>24, <2>1, <3>1, <3>2 DEF end
    <3>4. Al(m, bp) # 1  BY <1>1
    <3> QED  BY <1>1, <3>3, <3>4 DEF NoTwoFree
  <2>4. CASE b \in B /\ c = rest
    <3>1. b \in S /\ b + Sz(m, b) = rest  BY <1>24, <2>1, <2>4
    <3>2. b + Sz(m, b) \in S \cup {h.brk}  BY <1>1, <3>1 DEF Good, Tiles
    <3>3. rest # h.brk  BY <1>2, <1>3, <1>5, <1>8
    <3> QED  BY <1>18, <3>1, <3>2, <3>3
  <2>5. CASE b \in B /\ c \in B
    <3>1. b \in S /\ c \in S /\ b + Sz(m, b) = c /\ Al(m, b) # 1 /\ Al(m, c) # 1  BY <1>24, <2>1, <2>5
    <3> QED  BY <1>1, <3>1 DEF NoTwoFree
  <2> QED  BY <1>22, <2>1, <2>2, <2>3, <2>4, <2>5
<1>28. Untouched(m, g.mem, AllocOf(m, S))
  <2>1. AllocOf(m, S) \subseteq S \ F /\ AllocOf(m, S) \subseteq B /\ AllocOf(m, S) \subseteq T \ (G \cup {rest})
    <3>1. AllocOf(m, S) \subseteq S \ F /\ bp \notin AllocOf(m, S)  BY <1>1 DEF AllocOf, F, FreeOf
    <3>2. G \subseteq F  BY DEF G
    <3>3. AllocOf(m, S) \subseteq B /\ B \subseteq T  BY <1>15, <1>24, <3>1
    <3> QED  BY <1>18, <3>1, <3>2, <3>3
  <2>2. /\ Untouched(m, h1.mem, AllocOf(m, S)) /\ Retained(m, h1.mem, AllocOf(m, S))
        /\ Untouched(h1.mem, two.mem, AllocOf(m, S)) /\ Untouched(two.mem, g.mem, AllocOf(m, S))
    BY <1>2, <1>17, <1>20, <2>1 DEF Untouched, Retained
  <2>3. Retained(h1.mem, two.mem, AllocOf(m, S))
    <3>1. \A x \in AllocOf(m, S) : IsBlock(h1.mem, x)  BY <1>2, <2>1 DEF Good, Tiles
    <3> QED  BY <2>2, <3>1, UntouchedRetains
  <2>4. Untouched(m, two.mem, AllocOf(m, S)) /\ Retained(m, two.mem, AllocOf(m, S))
    BY <2>2, <2>3, UntouchedOn, RetainedOn
  <2> QED  BY <2>2, <2>4, UntouchedOn
<1>29. Consistent(g, T)  BY <1>20, <1>25, <1>27 DEF Consistent
<1>30. g.brk = h.brk  BY <1>2, <1>11, <1>20 DEF Fixed
<1>31. Sz(g.mem, bp) >= asize  BY <1>23
<1> QED  BY <1>26, <1>28, <1>29, <1>30, <1>31 DEF Placed

\* A free block that is large enough is given out.
LEMMA PlaceKeeps ==
    ASSUME NEW h, NEW S, Consistent(h, S), NEW bp \in FreeOf(h.mem, S),
           NEW asize \in Nat, asize >= 6, asize % 2 = 0, Sz(h.mem, bp) >= asize,
           NEW g, g = Place(h, bp, asize)
    PROVE  \E T : Placed(h, S, bp, asize, g, T)
<1> DEFINE free == Sz(h.mem, bp)
<1>1. BlkSize(h, bp) = free  BY DEF BlkSize, GetSize, HeaderPtr, Sz
<1>2. free \in Int
  <2>1. bp \in S  BY DEF FreeOf
  <2>2. IsBlock(h.mem, bp)  BY <2>1 DEF Consistent, Good, Tiles
  <2> QED  BY <2>2 DEF IsBlock
<1> HIDE DEF free
<1>3. CASE free - asize >= MinBlkSize
  <2> DEFINE more == free - asize
             rest == bp + asize
  <2>1. g = Divided(h, bp, asize, rest, more)  BY <1>1, <1>3 DEF Place, Divided
  <2>2. more >= 6 /\ more = Sz(h.mem, bp) - asize  BY <1>3 DEF MinBlkSize, free
  <2>3. rest = bp + asize  OBVIOUS
  <2> HIDE DEF more, rest
  <2> QED  BY <2>1, <2>2, <2>3, PlaceDivides
<1>4. CASE ~ (free - asize >= MinBlkSize)
  <2>1. g = SetTags(RemoveFromList(h, bp), bp, free, 1)  BY <1>1, <1>4 DEF Place
  <2>2. free = Sz(h.mem, bp)  BY DEF free
  <2>3. Placed(h, S, bp, free, g, S)  BY <2>1, <2>2, PlaceWhole
  <2>4. Sz(g.mem, bp) >= asize
    <3>1. Sz(g.mem, bp) >= free /\ free >= asize /\ bp \in AllocOf(g.mem, S) /\ Consistent(g, S)
      BY <2>2, <2>3 DEF Placed
    <3>2. IsBlock(g.mem, bp)  BY <3>1 DEF AllocOf, Consistent, Good, Tiles
    <3> QED  BY <1>2, <3>1, <3>2 DEF IsBlock
  <2> QED  BY <2>3, <2>4 DEF Placed
<1> QED  BY <1>3, <1>4

---------------------------------------------------------------------------
(* The walks along lists and blocks *)

\* Blocks are six words or more: there are no more of them than MaxNodes.
LEMMA NodeBound == MaxNodes \in Nat /\ MaxHeap >= 6 * MaxNodes /\ MaxHeap < 6 * MaxNodes + 6
BY Bounds DEF MaxNodes, MinBlkSize

\* node is the walk along list i.
IsWalk(h, F, i, node) ==
    /\ node \in [0 .. MaxNodes -> F \cup {NULL}] /\ node[0] = h.head[i]
    /\ \A n \in 1 .. MaxNodes : node[n] = IF node[n - 1] = NULL THEN NULL ELSE Sc(h.mem, node[n - 1])

\* The recursive function of Node is a walk.
LEMMA NodeWalks ==
    ASSUME NEW h, NEW S, NEW F, Good(h, S, F), NEW i \in Lists
    PROVE  IsWalk(h, F, i, Node(h, i))
<1> DEFINE V == F \cup {NULL}
           Body(f) == [n \in 0 .. MaxNodes |->
                          IF n = 0 THEN h.head[i]
                          ELSE IF f[n - 1] = NULL THEN NULL ELSE SuccPtr(h, f[n - 1])]
           step == [p \in (1 .. MaxNodes) \X V |-> IF p[2] = NULL THEN NULL ELSE SuccPtr(h, p[2])]
           node == Node(h, i)
<1>1. MaxNodes \in Nat  BY NodeBound
<1>2. h.head[i] \in V /\ \A x \in F : SuccPtr(h, x) \in V
  BY DEF Good, Linked, LinkedBy, SuccPtr, Sc
<1> HIDE DEF V
<1>3. NULL \in V /\ \A x \in V : x # NULL => x \in F  BY DEF V
<1>4. step \in Steps(V, MaxNodes)  BY <1>2, <1>3 DEF Steps
<1>5. \A n \in 1 .. MaxNodes, x \in V : step[<<n, x>>] = IF x = NULL THEN NULL ELSE SuccPtr(h, x)  OBVIOUS
<1> HIDE DEF step
<1>6. PICK f : Follows(f, V, h.head[i], MaxNodes, step)  BY <1>1, <1>2, <1>4, RecursionExists
<1>7. /\ f \in [0 .. MaxNodes -> V] /\ f[0] = h.head[i]
      /\ \A n \in 1 .. MaxNodes : f[n] = IF f[n - 1] = NULL THEN NULL ELSE SuccPtr(h, f[n - 1])
  <2>1. \A n \in 1 .. MaxNodes : f[n - 1] \in V  BY <1>1, <1>6 DEF Follows
  <2> QED  BY <1>5, <1>6, <2>1 DEF Follows
<1>8. f = Body(f)
  <2>1. ASSUME NEW n \in 0 .. MaxNodes PROVE f[n] = Body(f)[n]
    <3>1. CASE n = 0  BY <1>7, <3>1
    <3>2. CASE n # 0
      <4>1. n \in 1 .. MaxNodes  BY <1>1, <3>2
      <4> QED  BY <1>7, <3>2, <4>1
    <3> QED  BY <3>1, <3>2
  <2>2. f = [n \in 0 .. MaxNodes |-> f[n]] /\ Body(f) = [n \in 0 .. MaxNodes |-> Body(f)[n]]  BY <1>7
  <2> HIDE DEF Body
  <2> QED  BY <2>1, <2>2
<1>9. node = Body(node)
  <2>1. node = CHOOSE g : g = Body(g)  BY Zenon DEF Node
  <2> HIDE DEF Body, node
  <2> QED  BY <1>8, <2>1
<1> HIDE DEF node
<1>10. node[0] = h.head[i] /\ \A n \in 1 .. MaxNodes : node[n] = IF node[n - 1] = NULL THEN NULL ELSE SuccPtr(h, node[n - 1])
  <2>1. 0 \in 0 .. MaxNodes /\ \A n \in 1 .. MaxNodes : n \in 0 .. MaxNodes /\ n # 0  BY <1>1
  <2>2. Body(node)[0] = h.head[i]  BY <2>1
  <2>3. \A n \in 1 .. MaxNodes : Body(node)[n] = IF node[n - 1] = NULL THEN NULL ELSE SuccPtr(h, node[n - 1])
    BY <2>1
  <2> HIDE DEF Body
  <2> QED  BY <1>9, <2>2, <2>3
<1>11. \A n \in 0 .. MaxNodes : node[n] \in V
  <2> DEFINE U == {n \in 0 .. MaxNodes : node[n] \in V}
  <2>1. U \in SUBSET (0 .. MaxNodes) /\ 0 \in U  BY <1>1, <1>2, <1>10
  <2>2. ASSUME NEW n \in 0 .. MaxNodes - 1, n \in U PROVE n + 1 \in U
    <3>1. n + 1 \in 1 .. MaxNodes /\ (n + 1) - 1 = n /\ node[n] \in V  BY <1>1, <2>2
    <3>2. node[n + 1] = IF node[n] = NULL THEN NULL ELSE SuccPtr(h, node[n])  BY <1>10, <3>1
    <3> QED  BY <1>2, <1>3, <3>1, <3>2
  <2> HIDE DEF U
  <2>3. U = 0 .. MaxNodes  BY <1>1, <2>1, <2>2, BoundedInd
  <2> QED  BY <2>3 DEF U
<1>12. node \in [0 .. MaxNodes -> V]
  <2>1. Body(node) = [n \in 0 .. MaxNodes |-> Body(node)[n]]  OBVIOUS
  <2> HIDE DEF Body
  <2>2. node = [n \in 0 .. MaxNodes |-> node[n]]  BY <1>9, <2>1
  <2> QED  BY <1>11, <2>2
<1> QED  BY <1>10, <1>12 DEF IsWalk, SuccPtr, Sc, V, node

\* The walk meets every block of the list once and ends.
ListedOnce(h, F, i, node) ==
    /\ node[MaxNodes] = NULL
    /\ \A n \in 0 .. MaxNodes : node[n] # NULL =>
          /\ node[n] \in F /\ Index(h.mem)[node[n]] = i
          /\ Pd(h.mem, node[n]) = IF n = 0 THEN NULL ELSE node[n - 1]
    /\ \A x, y \in 0 .. MaxNodes : node[x] # NULL /\ node[x] = node[y] => x = y
    /\ \A b \in F : Index(h.mem)[b] = i => \E n \in 0 .. MaxNodes : node[n] = b

\* A walk along linked blocks does: the rank decreases, so it meets none twice.
LEMMA WalkListsOnce ==
    ASSUME NEW h, NEW S, NEW F, Good(h, S, F), NEW i \in Lists, NEW node, IsWalk(h, F, i, node)
    PROVE  ListedOnce(h, F, i, node)
<1> DEFINE m == h.mem
           ix == Index(m)
           N == MaxNodes
<1>1. PICK k \in Nat : \E rk \in [F -> 0 .. k] : LinkedBy(m, h.head, F, ix, rk)  BY DEF Good, Linked
<1>2. PICK rk \in [F -> 0 .. k] : LinkedBy(m, h.head, F, ix, rk)  BY <1>1
<1>3. /\ \A x \in F :
            /\ Pd(m, x) \in F \cup {NULL} /\ Sc(m, x) \in F \cup {NULL}
            /\ Pd(m, x) = NULL => h.head[ix[x]] = x
            /\ Pd(m, x) # NULL => Sc(m, Pd(m, x)) = x /\ ix[Pd(m, x)] = ix[x]
            /\ Sc(m, x) # NULL => Pd(m, Sc(m, x)) = x /\ ix[Sc(m, x)] = ix[x] /\ rk[Sc(m, x)] < rk[x]
      /\ h.head[i] # NULL => ix[h.head[i]] = i /\ Pd(m, h.head[i]) = NULL
  BY <1>2 DEF LinkedBy
<1>4. \A x \in F : rk[x] \in 0 .. k /\ x # NULL
  BY <1>2, GoodFacts
<1>5. N \in Nat /\ MaxHeap >= 6 * N /\ MaxHeap < 6 * N + 6  BY NodeBound
<1>6. /\ \A n \in 0 .. N : node[n] # NULL => node[n] \in F
      /\ node[0] = h.head[i]
      /\ \A n \in 1 .. N : node[n] = IF node[n - 1] = NULL THEN NULL ELSE Sc(m, node[n - 1])
  BY DEF IsWalk
<1> HIDE DEF m, ix, N
<1>7. ASSUME NEW n \in 1 .. N, node[n] # NULL
      PROVE  /\ node[n - 1] \in F /\ node[n - 1] # NULL /\ Pd(m, node[n]) = node[n - 1]
             /\ ix[node[n]] = ix[node[n - 1]] /\ rk[node[n]] < rk[node[n - 1]]
  <2>1. n - 1 \in 0 .. N  BY <1>5
  <2>2. node[n - 1] # NULL /\ node[n] = Sc(m, node[n - 1])  BY <1>6, <1>7
  <2> QED  BY <1>3, <1>6, <1>7, <2>1, <2>2
<1>8. \A n \in 0 .. N : node[n] # NULL => ix[node[n]] = i
  <2> DEFINE U == {n \in 0 .. N : node[n] # NULL => ix[node[n]] = i}
  <2>1. U \in SUBSET (0 .. N) /\ 0 \in U  BY <1>3, <1>5, <1>6
  <2>2. ASSUME NEW n \in 0 .. N - 1, n \in U PROVE n + 1 \in U
    <3>1. n + 1 \in 1 .. N /\ (n + 1) - 1 = n /\ n + 1 \in 0 .. N  BY <1>5
    <3>2. node[n + 1] # NULL => node[n] # NULL /\ ix[node[n + 1]] = ix[node[n]]  BY <1>7, <3>1
    <3> QED  BY <2>2, <3>1, <3>2
  <2> HIDE DEF U
  <2>3. U = 0 .. N  BY <1>5, <2>1, <2>2, BoundedInd
  <2> QED  BY <2>3 DEF U
<1>9. \A n \in 0 .. N : node[n] # NULL => \A x \in 0 .. n - 1 : node[x] # NULL /\ rk[node[n]] < rk[node[x]]
  <2> DEFINE P(n) == node[n] # NULL => \A x \in 0 .. n - 1 : node[x] # NULL /\ rk[node[n]] < rk[node[x]]
             U == {n \in 0 .. N : P(n)}
  <2>1. U \in SUBSET (0 .. N) /\ 0 \in U
    <3>1. P(0)  OBVIOUS
    <3> HIDE DEF P
    <3> QED  BY <1>5, <3>1
  <2>2. ASSUME NEW n \in 0 .. N - 1, n \in U PROVE n + 1 \in U
    <3>1. n + 1 \in 1 .. N /\ (n + 1) - 1 = n /\ n + 1 \in 0 .. N /\ n \in 0 .. N  BY <1>5
    <3>2. P(n)  BY <2>2
    <3>3. ASSUME node[n + 1] # NULL, NEW x \in 0 .. (n + 1) - 1 PROVE node[x] # NULL /\ rk[node[n + 1]] < rk[node[x]]
      <4>1. node[n] # NULL /\ rk[node[n + 1]] < rk[node[n]]  BY <1>7, <3>1, <3>3
      <4>2. CASE x = n  BY <4>1, <4>2
      <4>3. CASE x # n
        <5>1. x \in 0 .. n - 1 /\ x \in 0 .. N  BY <1>5, <3>1, <3>3, <4>3
        <5>2. node[x] # NULL /\ rk[node[n]] < rk[node[x]]  BY <3>2, <4>1, <5>1
        <5>3. rk[node[n]] \in Int /\ rk[node[x]] \in Int /\ rk[node[n + 1]] \in Int
          BY <1>4, <1>6, <3>1, <3>3, <4>1, <5>1, <5>2
        <5> QED  BY <4>1, <5>2, <5>3
      <4> QED  BY <4>2, <4>3
    <3>4. P(n + 1)  BY <3>3
    <3> HIDE DEF P
    <3> QED  BY <3>1, <3>4
  <2> HIDE DEF U, P
  <2>3. U = 0 .. N  BY <1>5, <2>1, <2>2, BoundedInd
  <2> QED  BY <2>3 DEF U, P
<1>10. ASSUME NEW x \in 0 .. N, NEW y \in 0 .. N, node[x] # NULL, node[x] = node[y], x < y PROVE FALSE
  <2>1. rk[node[y]] < rk[node[x]]
    <3>1. x \in 0 .. y - 1  BY <1>10
    <3> QED  BY <1>9, <1>10, <3>1
  <2>2. rk[node[x]] \in Int  BY <1>4, <1>6, <1>10
  <2> QED  BY <1>10, <2>1, <2>2
<1>11. \A x, y \in 0 .. N : node[x] # NULL /\ node[x] = node[y] => x = y
  <2>1. SUFFICES ASSUME NEW x \in 0 .. N, NEW y \in 0 .. N, node[x] # NULL, node[x] = node[y] PROVE x = y  OBVIOUS
  <2>2. x < y \/ y < x \/ x = y  OBVIOUS
  <2> QED  BY <1>10, <2>1, <2>2
<1>12. node[N] = NULL
  <2>1. SUFFICES ASSUME node[N] # NULL PROVE FALSE  OBVIOUS
  <2>2. \A n \in 0 .. N : node[n] # NULL /\ node[n] \in F
    <3>1. \A n \in 0 .. N : n = N \/ n \in 0 .. N - 1  BY <1>5
    <3>2. N \in 0 .. N  BY <1>5
    <3> QED  BY <1>6, <1>9, <2>1, <3>1, <3>2
  <2>3. /\ F \subseteq S
        /\ \A b \in S : b \in Int /\ Sz(m, b) \in Int /\ Sz(m, b) >= 6 /\ Lo + 4 <= b /\ b + Sz(m, b) <= h.brk
        /\ \A b, c \in S : b = c \/ b + Sz(m, b) <= c \/ c + Sz(m, c) <= b
    BY TilesApart DEF Good, m
  <2>4. h.brk \in Int /\ h.brk <= Hi + 1  BY GoodFacts
  <2> DEFINE at == [n \in 0 .. N |-> (node[n] - (Lo + 4)) \div 6]
  <2>5. \A b \in S : (b - (Lo + 4)) \div 6 \in 0 .. N - 1
    <3>1. SUFFICES ASSUME NEW b \in S PROVE (b - (Lo + 4)) \div 6 \in 0 .. N - 1  OBVIOUS
    <3>2. b \in Int /\ Lo + 4 <= b /\ b + 6 <= MaxHeap + 2 /\ Lo = 2  BY <2>3, <2>4, Bounds
    <3> QED  BY <1>5, <3>2, Bounds
  <2>6. at \in [0 .. N -> 0 .. N - 1]
    <3>1. \A n \in 0 .. N : node[n] \in S  BY <2>2, <2>3
    <3> QED  BY <2>5, <3>1
  <2>7. \E x, y \in 0 .. N : x # y /\ at[x] = at[y]
    <3>1. /\ IsFiniteSet(0 .. N) /\ Cardinality(0 .. N) = N + 1
          /\ IsFiniteSet(0 .. N - 1) /\ Cardinality(0 .. N - 1) = N
      <4>1. /\ IsFiniteSet(0 .. N) /\ Cardinality(0 .. N) = IF 0 > N THEN 0 ELSE N - 0 + 1
            /\ IsFiniteSet(0 .. N - 1) /\ Cardinality(0 .. N - 1) = IF 0 > N - 1 THEN 0 ELSE (N - 1) - 0 + 1
        <5>1. 0 \in Int /\ N \in Int /\ N - 1 \in Int  BY <1>5
        <5> QED  BY <5>1, FS_Interval
      <4> QED  BY <1>5, <4>1
    <3>2. Cardinality(0 .. N - 1) < Cardinality(0 .. N)  BY <1>5, <3>1
    <3> HIDE DEF at
    <3> QED  BY <2>6, <3>1, <3>2, FS_PigeonHole
  <2>8. PICK x \in 0 .. N, y \in 0 .. N : x # y /\ (node[x] - (Lo + 4)) \div 6 = (node[y] - (Lo + 4)) \div 6
    BY <2>7
  <2>9. node[x] \in S /\ node[y] \in S /\ node[x] # node[y]  BY <1>11, <2>2, <2>3, <2>8
  <2>10. node[x] + 6 <= node[y] \/ node[y] + 6 <= node[x]  BY <2>3, <2>9
  <2>11. node[x] \in Int /\ node[y] \in Int /\ Lo = 2  BY <2>3, <2>9, Bounds
  <2> QED  BY <2>8, <2>10, <2>11
<1>13. ASSUME NEW b \in F, ix[b] = i PROVE \E n \in 0 .. N : node[n] = b
  <2> DEFINE U == {x \in F : ix[x] = i /\ \A n \in 0 .. N : node[n] # x}
             R == {rk[x] : x \in U}
  <2>1. SUFFICES ASSUME U # {} PROVE FALSE  BY <1>13
  <2>2. R \in SUBSET (0 .. k) /\ R # {}  BY <1>4, <2>1
  <2>3. PICK u \in U : \A x \in U : rk[x] <= rk[u]
    <3>1. Max(R) \in R /\ \A r \in R : r <= Max(R)
      <4> HIDE DEF R
      <4> QED  BY <2>2, MaxIsMember
    <3> QED  BY <3>1
  <2>4. u \in F /\ ix[u] = i /\ \A n \in 0 .. N : node[n] # u  OBVIOUS
  <2>5. 0 \in 0 .. N  BY <1>5
  <2>6. Pd(m, u) # NULL
    <3>1. Pd(m, u) = NULL => h.head[i] = u  BY <1>3, <2>4
    <3> QED  BY <1>6, <2>4, <2>5, <3>1
  <2> DEFINE p == Pd(m, u)
  <2>7. p \in F /\ Sc(m, p) = u /\ ix[p] = i  BY <1>3, <2>4, <2>6
  <2>8. rk[u] < rk[p]  BY <1>3, <1>4, <2>4, <2>7
  <2>9. p \notin U
    <3>1. rk[p] \in Int /\ rk[u] \in Int  BY <1>4, <2>4, <2>7
    <3> HIDE DEF p, U
    <3> QED  BY <2>3, <2>8, <3>1
  <2>10. PICK n \in 0 .. N : node[n] = p  BY <2>7, <2>9
  <2> HIDE DEF p, U
  <2>11. n # N /\ p # NULL  BY <1>4, <1>12, <2>7, <2>10
  <2>12. n + 1 \in 1 .. N /\ (n + 1) - 1 = n /\ n + 1 \in 0 .. N  BY <1>5, <2>11
  <2>13. node[n + 1] = Sc(m, node[n])  BY <1>6, <2>10, <2>11, <2>12
  <2> QED  BY <2>4, <2>7, <2>10, <2>12, <2>13
<1>14. ASSUME NEW n \in 0 .. N, node[n] # NULL
       PROVE  /\ node[n] \in F /\ ix[node[n]] = i
              /\ Pd(m, node[n]) = IF n = 0 THEN NULL ELSE node[n - 1]
  <2>1. CASE n = 0  BY <1>3, <1>6, <1>8, <1>14, <2>1
  <2>2. CASE n # 0
    <3>1. n \in 1 .. N  BY <2>2
    <3> QED  BY <1>6, <1>7, <1>8, <1>14, <2>2, <3>1
  <2> QED  BY <2>1, <2>2
<1> QED  BY <1>11, <1>12, <1>13, <1>14 DEF ListedOnce, N, m, ix

\* Where the walk along the blocks goes from x.
Onward(m, x) == IF Sz(m, x) = 0 THEN x ELSE x + Sz(m, x)

\* The walk along the blocks meets all of them and the epilogue.
LEMMA BlocksAreTiles ==
    ASSUME NEW h, NEW S, NEW F, Good(h, S, F)
    PROVE  Blocks(h) = S \cup {h.brk}
<1> DEFINE m == h.mem
           V == S \cup {h.brk}
           N == MaxNodes
           lo == Lo + 4
           Body(f) == [n \in 0 .. MaxNodes + 1 |->
                          IF n = 0 THEN NextBlk(h, h.listp)
                          ELSE IF BlkSize(h, f[n - 1]) = 0 THEN f[n - 1] ELSE NextBlk(h, f[n - 1])]
           next == CHOOSE g : g = Body(g)
           step == [p \in (1 .. N + 1) \X V |-> Onward(m, p[2])]
<1>1. N \in Nat /\ MaxHeap >= 6 * N /\ MaxHeap < 6 * N + 6  BY NodeBound
<1>2. /\ m[Lo + 1] = Tag(2, 1) /\ m[h.brk - 1] = Tag(0, 1) /\ h.listp = Lo + 2 /\ Tiles(m, S, lo, h.brk)
  BY DEF Good
<1>3. \A x : BlkSize(h, x) = Sz(m, x) /\ NextBlk(h, x) = x + Sz(m, x)
  BY DEF BlkSize, NextBlk, GetSize, HeaderPtr, Sz
<1>4. NextBlk(h, h.listp) = lo
  <2>1. h.listp - 1 = Lo + 1 /\ h.listp + 2 = lo  BY <1>2, Bounds
  <2>2. Sz(m, h.listp) = 2  BY <1>2, <2>1 DEF Sz, Tag
  <2> QED  BY <1>3, <2>1, <2>2
<1>5. h.brk \in Lo + 4 .. Hi + 1 /\ Sz(m, h.brk) = 0
  <2>1. h.brk \in Lo + 4 .. Hi + 1  BY GoodFacts
  <2> QED  BY <1>2, <2>1 DEF Sz, Tag
<1>6. /\ \A b \in S : /\ b \in Int /\ Sz(m, b) \in Int /\ Sz(m, b) >= 6 /\ lo <= b /\ b + Sz(m, b) <= h.brk
                      /\ b + Sz(m, b) \in V
      /\ lo \in V
      /\ \A c \in V : c = lo \/ \E b \in S : b + Sz(m, b) = c
  BY <1>2, TilesApart DEF Tiles
<1> HIDE DEF m, N, lo, V
<1>7. \A x \in V : Onward(m, x) \in V /\ (x = h.brk => Onward(m, x) = x) /\ (x \in S => Onward(m, x) = x + Sz(m, x))
  <2>1. \A x \in S : Sz(m, x) # 0  BY <1>6
  <2>2. \A x \in V : x \in S \/ x = h.brk  BY DEF V
  <2> QED  BY <1>5, <1>6, <2>1, <2>2 DEF Onward
<1>8. step \in Steps(V, N + 1)  BY <1>7 DEF Steps
<1>9. \A n \in 1 .. N + 1, x \in V : step[<<n, x>>] = Onward(m, x)  OBVIOUS
<1> HIDE DEF step
<1>10. PICK f : Follows(f, V, lo, N + 1, step)
  <2>1. N + 1 \in Nat  BY <1>1
  <2> QED  BY <1>6, <1>8, <2>1, RecursionExists
<1>11. f \in [0 .. N + 1 -> V] /\ f[0] = lo /\ \A n \in 1 .. N + 1 : f[n] = Onward(m, f[n - 1])
  <2>1. \A n \in 1 .. N + 1 : f[n - 1] \in V  BY <1>1, <1>10 DEF Follows
  <2> QED  BY <1>9, <1>10, <2>1 DEF Follows
<1>12. f = Body(f)
  <2>1. ASSUME NEW n \in 0 .. N + 1 PROVE f[n] = Body(f)[n]
    <3>1. CASE n = 0  BY <1>4, <1>11, <3>1 DEF N
    <3>2. CASE n # 0
      <4>1. n \in 1 .. N + 1  BY <1>1, <3>2
      <4> QED  BY <1>3, <1>11, <3>2, <4>1 DEF Onward, N
    <3> QED  BY <3>1, <3>2
  <2>2. f = [n \in 0 .. N + 1 |-> f[n]] /\ Body(f) = [n \in 0 .. N + 1 |-> Body(f)[n]]  BY <1>11 DEF N
  <2> HIDE DEF Body
  <2> QED  BY <2>1, <2>2
<1>13. next = Body(next)
  <2> HIDE DEF Body
  <2>1. \E g : g = Body(g)  BY <1>12
  <2> QED  BY <2>1, Zenon
<1>14. Blocks(h) = {next[n] : n \in 0 .. N + 1}  BY Zenon DEF Blocks, N
<1> HIDE DEF next
<1>15. next[0] = lo /\ \A n \in 1 .. N + 1 : next[n] = Onward(m, next[n - 1])
  <2>1. 0 \in 0 .. N + 1 /\ \A n \in 1 .. N + 1 : n \in 0 .. N + 1 /\ n # 0  BY <1>1
  <2>2. Body(next)[0] = lo  BY <1>4, <2>1 DEF N
  <2>3. \A n \in 1 .. N + 1 : Body(next)[n] = Onward(m, next[n - 1])  BY <1>3, <2>1 DEF N, Onward
  <2> HIDE DEF Body
  <2> QED  BY <1>13, <2>2, <2>3
<1> HIDE DEF Body
\* the walk stays among the blocks, and has passed n of them or has ended
<1>16. \A n \in 0 .. N + 1 : next[n] \in V /\ (next[n] = h.brk \/ next[n] >= lo + 6 * n)
  <2> DEFINE P(n) == next[n] \in V /\ (next[n] = h.brk \/ next[n] >= lo + 6 * n)
             U == {n \in 0 .. N + 1 : P(n)}
  <2>0. lo \in Int  BY Bounds DEF lo
  <2>1. U \in SUBSET (0 .. N + 1) /\ 0 \in U
    <3>1. P(0)  BY <1>6, <1>15, <2>0
    <3>2. 0 \in 0 .. N + 1  BY <1>1
    <3> HIDE DEF P
    <3> QED  BY <3>1, <3>2
  <2>2. ASSUME NEW n \in 0 .. (N + 1) - 1, n \in U PROVE n + 1 \in U
    <3>1. n + 1 \in 1 .. N + 1 /\ (n + 1) - 1 = n /\ n + 1 \in 0 .. N + 1 /\ n \in Nat  BY <1>1
    <3>2. P(n)  BY <2>2
    <3>3. next[n + 1] = Onward(m, next[n])  BY <1>15, <3>1
    <3>4. P(n + 1)
      <4>1. CASE next[n] = h.brk  BY <1>7, <3>2, <3>3, <4>1
      <4>2. CASE next[n] # h.brk
        <5> DEFINE x == next[n]
                   z == Sz(m, x)
        <5>1. x \in S /\ x >= lo + 6 * n  BY <3>2, <4>2 DEF V
        <5>2. next[n + 1] = x + z /\ next[n + 1] \in V  BY <1>7, <3>2, <3>3, <5>1
        <5>3. x \in Int /\ z \in Int /\ z >= 6  BY <1>6, <5>1
        <5> HIDE DEF x, z
        <5>4. x + z >= lo + 6 * (n + 1)  BY <2>0, <3>1, <5>1, <5>3
        <5> QED  BY <5>2, <5>4
      <4> QED  BY <4>1, <4>2
    <3> HIDE DEF P
    <3> QED  BY <3>1, <3>4
  <2> HIDE DEF U, P
  <2>3. U = 0 .. N + 1
    <3>1. N + 1 \in Nat  BY <1>1
    <3> QED  BY <2>1, <2>2, <3>1, BoundedInd
  <2> QED  BY <2>3 DEF U, P
<1>17. \A n \in 0 .. N + 1 : n >= N => next[n] = h.brk
  <2>1. SUFFICES ASSUME NEW n \in 0 .. N + 1, n >= N, next[n] # h.brk PROVE FALSE  OBVIOUS
  <2> DEFINE x == next[n]
             z == Sz(m, x)
  <2>2. x \in S /\ x >= lo + 6 * n  BY <1>16, <2>1 DEF V
  <2>3. x \in Int /\ z \in Int /\ z >= 6 /\ x + z <= h.brk  BY <1>6, <2>2
  <2> HIDE DEF x, z
  <2>4. lo = 6 /\ h.brk \in Int /\ h.brk <= MaxHeap + 2  BY <1>5, Bounds DEF lo
  <2>5. n \in Nat /\ N \in Nat /\ 6 * n >= 6 * N  BY <1>1, <2>1
  <2>6. x >= 6 + 6 * N  BY <2>2, <2>3, <2>4, <2>5
  <2>7. x + 6 <= MaxHeap + 2  BY <2>3, <2>4, Bounds
  <2> QED  BY <1>1, <2>3, <2>5, <2>6, <2>7, Bounds
<1>18. ASSUME NEW c \in V PROVE \E n \in 0 .. N + 1 : next[n] = c
  <2> DEFINE U == {x \in V : \A n \in 0 .. N + 1 : next[n] # x}
  <2>1. SUFFICES ASSUME U # {} PROVE FALSE  BY <1>18
  <2>2. \A x \in V : x \in Nat
    <3>1. lo \in Nat  BY Bounds DEF lo
    <3> QED  BY <1>5, <1>6, <3>1, Bounds DEF V
  <2>3. Min(U) \in U /\ \A x \in U : Min(U) <= x
    <3>1. U \in SUBSET Nat  BY <2>2
    <3> HIDE DEF U
    <3> QED  BY <2>1, <3>1, MinIsMember
  <2>4. PICK u \in U : \A x \in U : u <= x  BY <2>3
  <2>5. u \in V /\ \A n \in 0 .. N + 1 : next[n] # u  OBVIOUS
  <2>6. 0 \in 0 .. N + 1 /\ N + 1 \in 0 .. N + 1 /\ N + 1 >= N  BY <1>1
  <2>7. u # lo /\ u # h.brk  BY <1>15, <1>17, <2>5, <2>6
  <2>8. PICK b \in S : b + Sz(m, b) = u  BY <1>6, <2>5, <2>7
  <2>9. b \notin U
    <3>1. b \in Int /\ u \in Int /\ b < u  BY <1>6, <2>2, <2>5, <2>8
    <3> HIDE DEF U
    <3> QED  BY <2>4, <3>1
  <2>10. b \in V  BY DEF V
  <2>11. PICK n \in 0 .. N + 1 : next[n] = b  BY <2>9, <2>10
  <2>12. b # h.brk  BY <1>5, <1>6
  <2>13. ~ (n >= N)  BY <1>17, <2>11, <2>12
  <2>14. n + 1 \in 1 .. N + 1 /\ (n + 1) - 1 = n /\ n + 1 \in 0 .. N + 1  BY <1>1, <2>13
  <2>15. next[n + 1] = Onward(m, b)  BY <1>15, <2>11, <2>14
  <2>16. Onward(m, b) = u  BY <1>7, <2>8, <2>10
  <2> QED  BY <2>5, <2>14, <2>15, <2>16
<1> QED  BY <1>14, <1>16, <1>18 DEF V

\* The set the walk gives is the set of the blocks, whatever set that was.
LEMMA BlocksOfHeap ==
    ASSUME NEW h, NEW S, NEW F, Good(h, S, F)
    PROVE  /\ RealBlocks(h) = S /\ FreeBlocks(h) = FreeOf(h.mem, S) /\ AllocatedBlocks(h) = AllocOf(h.mem, S)
           /\ \A x : BlkSize(h, x) = Sz(h.mem, x)
<1> DEFINE m == h.mem
<1>1. Blocks(h) = S \cup {h.brk}  BY BlocksAreTiles
<1>2. \A x : BlkSize(h, x) = Sz(m, x) /\ GetAlloc(h, HeaderPtr(x)) = Al(m, x)
  BY DEF BlkSize, GetSize, GetAlloc, HeaderPtr, Sz, Al
<1>3. Sz(m, h.brk) = 0  BY DEF Good, Sz, Tag
<1>4. \A b \in S : Sz(m, b) > 0
  <2>1. \A b \in S : Sz(m, b) \in Int /\ Sz(m, b) >= 6  BY TilesApart DEF Good
  <2> QED  BY <2>1
<1> HIDE DEF m
<1>5. RealBlocks(h) = S
  <2>1. \A x : BlkSize(h, x) > 0 <=> Sz(m, x) > 0  BY <1>2
  <2>2. ~ (Sz(m, h.brk) > 0)  BY <1>3
  <2> QED  BY <1>1, <1>4, <2>1, <2>2 DEF RealBlocks
<1>6. FreeBlocks(h) = FreeOf(m, S)  BY <1>2, <1>5 DEF FreeBlocks, FreeOf
<1>7. AllocatedBlocks(h) = AllocOf(m, S)  BY <1>2, <1>5 DEF AllocatedBlocks, AllocOf
<1> QED  BY <1>2, <1>5, <1>6, <1>7 DEF m

\* Searching a list finds a block of it that fits, if there is one.
LEMMA ListSearch ==
    ASSUME NEW h, NEW S, NEW F, Good(h, S, F), NEW asize \in Nat, NEW i \in Lists,
           NEW r, r = FindFitFromList(h, asize, i)
    PROVE  /\ r # NULL => r \in F /\ Sz(h.mem, r) >= asize
           /\ r = NULL => \A b \in F : Index(h.mem)[b] = i => Sz(h.mem, b) < asize
<1> DEFINE m == h.mem
           node == Node(h, i)
           fits == {n \in 0 .. MaxNodes : node[n] # NULL /\ asize <= BlkSize(h, node[n])}
<1>1. IsWalk(h, F, i, node)  BY NodeWalks
<1>2. ListedOnce(h, F, i, node)
  <2> HIDE DEF node
  <2> QED  BY <1>1, WalkListsOnce
<1>3. r = IF fits = {} THEN NULL ELSE node[SetMin(fits)]  BY DEF FindFitFromList
<1> HIDE DEF node
<1>4. \A x : BlkSize(h, x) = Sz(m, x)  BY BlocksOfHeap
<1>5. \A b \in F : Sz(m, b) \in Int /\ b # NULL
  <2>1. NULL \notin F /\ F \subseteq S  BY GoodFacts DEF Good
  <2>2. \A b \in S : Sz(m, b) \in Int  BY TilesApart DEF Good
  <2> QED  BY <2>1, <2>2
<1>6. \A n \in 0 .. MaxNodes : node[n] # NULL => node[n] \in F  BY <1>2 DEF ListedOnce
<1> HIDE DEF m
<1>7. CASE fits # {}
  <2>1. SetMin(fits) \in fits
    <3>1. fits \in SUBSET Nat  OBVIOUS
    <3>2. SetMin(fits) = Min(fits)
      <4> HIDE DEF fits
      <4> QED  BY Zenon DEF SetMin, Min
    <3> HIDE DEF fits
    <3> QED  BY <1>7, <3>1, <3>2, MinIsMember
  <2>2. r = node[SetMin(fits)]
    <3> HIDE DEF fits
    <3> QED  BY <1>3, <1>7
  <2>3. r # NULL /\ asize <= Sz(m, r) /\ r \in F  BY <1>4, <1>6, <2>1, <2>2
  <2>4. Sz(m, r) >= asize  BY <1>5, <2>3
  <2> QED  BY <2>3, <2>4 DEF m
<1>8. CASE fits = {}
  <2>1. r = NULL
    <3> HIDE DEF fits
    <3> QED  BY <1>3, <1>8
  <2>2. ASSUME NEW b \in F, Index(m)[b] = i PROVE Sz(m, b) < asize
    <3>1. PICK n \in 0 .. MaxNodes : node[n] = b  BY <1>2, <2>2 DEF ListedOnce, m
    <3>2. ~ (asize <= Sz(m, b))  BY <1>4, <1>5, <1>8, <3>1
    <3> QED  BY <1>5, <3>2
  <2> QED  BY <2>1, <2>2 DEF m
<1> QED  BY <1>7, <1>8

\* First fit finds a free block that fits, if there is one: lists of smaller
\* sizes have none.
LEMMA FitFound ==
    ASSUME NEW h, NEW S, NEW F, Good(h, S, F), NEW asize \in Nat, NEW r, r = FindFit(h, asize)
    PROVE  /\ r # NULL => r \in F /\ Sz(h.mem, r) >= asize
           /\ r = NULL => \A b \in F : Sz(h.mem, b) < asize
<1> DEFINE m == h.mem
           from == ListIndex(asize)
           last == NoOfSizeType - 1
           found == {i \in from .. last : FindFitFromList(h, asize, i) # NULL}
<1>1. from \in Lists /\ last \in Nat /\ Lists = 0 .. last
  <2>1. from \in Lists  BY IndexOfSize
  <2> QED  BY <2>1, MmAssumption DEF Lists
<1>2. r = IF found = {} THEN NULL ELSE FindFitFromList(h, asize, SetMin(found))  BY DEF FindFit
<1>3. \A b \in F : Sz(m, b) \in Nat /\ Index(m)[b] = ListIndex(Sz(m, b)) /\ Index(m)[b] \in Lists
  <2>1. \A b \in F : Sz(m, b) \in 6 .. MaxHeap /\ Index(m)[b] = ListIndex(BlkSize(h, b)) /\ Index(m)[b] \in Lists
    BY GoodFacts DEF Good
  <2>2. \A b : BlkSize(h, b) = Sz(m, b)  BY BlocksOfHeap
  <2> QED  BY <2>1, <2>2
<1> HIDE DEF m, from, last
<1>4. \A i \in from .. last : i \in Lists  BY <1>1
<1>5. CASE found # {}
  <2>1. SetMin(found) \in found
    <3>1. found \in SUBSET Nat  BY <1>1
    <3>2. SetMin(found) = Min(found)
      <4> HIDE DEF found
      <4> QED  BY Zenon DEF SetMin, Min
    <3> HIDE DEF found
    <3> QED  BY <1>5, <3>1, <3>2, MinIsMember
  <2> DEFINE i == SetMin(found)
  <2>2. i \in Lists /\ FindFitFromList(h, asize, i) # NULL  BY <1>4, <2>1
  <2>3. r = FindFitFromList(h, asize, i)
    <3> HIDE DEF found
    <3> QED  BY <1>2, <1>5
  <2> HIDE DEF i
  <2> QED  BY <2>2, <2>3, ListSearch
<1>6. CASE found = {}
  <2>1. r = NULL
    <3> HIDE DEF found
    <3> QED  BY <1>2, <1>6
  <2>2. ASSUME NEW b \in F PROVE Sz(m, b) < asize
    <3> DEFINE i == Index(m)[b]
    <3>1. i \in Lists /\ Sz(m, b) \in Nat /\ i = ListIndex(Sz(m, b))  BY <1>3
    <3> HIDE DEF i
    <3>2. CASE i \in from .. last
      <4>1. FindFitFromList(h, asize, i) = NULL  BY <1>6, <3>2
      <4> QED  BY <3>1, <4>1, ListSearch DEF i, m
    <3>3. CASE i \notin from .. last
      <4>1. i \in Int /\ from \in Int /\ i < from  BY <1>1, <3>1, <3>3
      <4>2. ~ (asize <= Sz(m, b))
        <5>1. SUFFICES ASSUME asize <= Sz(m, b) PROVE FALSE  OBVIOUS
        <5>2. from <= i  BY <3>1, <5>1, IndexOfSize DEF from
        <5> QED  BY <4>1, <5>2
      <4> QED  BY <3>1, <4>2
    <3> QED  BY <3>2, <3>3
  <2> QED  BY <2>1, <2>2 DEF m
<1> QED  BY <1>5, <1>6

---------------------------------------------------------------------------
(* The functions of the package *)

\* Sizes in bytes become even numbers of words, with room for the tags.
LEMMA Adjusted ==
    ASSUME NEW size \in Nat
    PROVE  /\ AdjustedSize(size) \in Nat /\ AdjustedSize(size) >= 6 /\ AdjustedSize(size) % 2 = 0
           /\ WordsOf(size) \in Nat /\ WordsOf(size) <= AdjustedSize(size) - 2 /\ (size > 0 => WordsOf(size) >= 1)
<1> DEFINE a == AdjustedSize(size)
           w == WordsOf(size)
<1>1. w = (size + 3) \div 4  BY DEF WordsOf
<1>2. CASE size <= 16
  <2>1. a = 6  BY <1>2 DEF AdjustedSize, MinBlkSize
  <2> HIDE DEF a, w
  <2>2. w \in Nat /\ w <= 4 /\ (size > 0 => w >= 1)  BY <1>1, <1>2
  <2> QED  BY <2>1, <2>2 DEF a, w
<1>3. CASE ~ (size <= 16)
  <2>1. a = 2 * ((size + 15) \div 8)  BY <1>3 DEF AdjustedSize
  <2> HIDE DEF a, w
  <2>2. a \in Nat /\ a >= 6 /\ a % 2 = 0 /\ w \in Nat /\ w <= a - 2 /\ w >= 1  BY <1>1, <1>3, <2>1
  <2> QED  BY <2>2 DEF a, w
<1> QED  BY <1>2, <1>3

\* The heap grows by an even number of words, enough for what is asked.
LEMMA GrowsEnough ==
    ASSUME NEW asize \in Nat, asize >= 6, asize % 2 = 0
    PROVE  GrowBy(asize) \in Nat /\ GrowBy(asize) >= asize /\ GrowBy(asize) % 2 = 0
BY MmAssumption DEF GrowBy

\* The heap before the first call.
Unused(h) == h \in HeapRecords /\ h.listp = NULL /\ h.brk = Lo /\ h.head = [i \in Lists |-> NULL]

\* mm_init makes a heap with no allocated block, and a free one if it can.
LEMMA InitConsistent ==
    ASSUME NEW h, Unused(h), NEW g, g = MmInit(h)
    PROVE  \E T : Consistent(g, T) /\ AllocOf(g.mem, T) = {}
<1> DEFINE m == [h.mem EXCEPT ![Lo + 1] = Tag(2, 1), ![Lo + 2] = Tag(2, 1), ![Lo + 3] = Tag(0, 1)]
           k == [mem |-> m, brk |-> Lo + 4, head |-> [i \in Lists |-> NULL], listp |-> Lo + 2]
           r == ExtendHeap(k, ChunkSize)
<1>1. g = r.heap  BY DEF MmInit, Unused
<1>2. MaxHeap \in Nat /\ MaxHeap >= 4 /\ Lo = 2 /\ Hi = MaxHeap + 1 /\ NULL = 0 /\ Hi \in Nat
  BY MmAssumption, Bounds
<1>3. m \in Mems /\ m[Lo + 1] = Tag(2, 1) /\ m[Lo + 2] = Tag(2, 1) /\ m[Lo + 3] = Tag(0, 1)
  <2>1. h.mem \in Mems  BY DEF Unused, HeapRecords
  <2>2. Tag(2, 1) \in Word /\ Tag(0, 1) \in Word  BY <1>2 DEF Word
  <2>3. Lo + 1 \in Lo .. Hi /\ Lo + 2 \in Lo .. Hi /\ Lo + 3 \in Lo .. Hi  BY <1>2
  <2>4. Lo + 1 # Lo + 2 /\ Lo + 1 # Lo + 3 /\ Lo + 2 # Lo + 3  BY <1>2
  <2> QED  BY <2>1, <2>2, <2>3, <2>4 DEF Mems
<1>4. k \in HeapRecords
  <2>1. Lo + 4 \in Lo .. Hi + 1  BY <1>2
  <2>2. [i \in Lists |-> NULL] \in [Lists -> Pointers]  BY DEF Pointers
  <2> HIDE DEF m
  <2> QED  BY <1>3, <2>1, <2>2 DEF HeapRecords
<1>5. k.mem = m /\ k.brk = Lo + 4 /\ k.head = [i \in Lists |-> NULL] /\ k.listp = Lo + 2  OBVIOUS
<1> HIDE DEF m, k
<1>6. Good(k, {}, {})
  <2>1. Tiles(m, {}, Lo + 4, Lo + 4)  BY <1>2 DEF Tiles
  <2>2. LinkedBy(m, k.head, {}, Index(m), [x \in {} |-> 0])  BY <1>5 DEF LinkedBy
  <2>3. Linked(m, k.head, {}, Index(m))
    <3>1. [x \in {} |-> 0] \in [{} -> 0 .. 0] /\ 0 \in Nat  OBVIOUS
    <3> QED  BY <2>2, <3>1 DEF Linked
  <2>4. (Lo + 4) - 1 = Lo + 3  BY <1>2
  <2> QED  BY <1>3, <1>4, <1>5, <2>1, <2>3, <2>4 DEF Good
<1>7. Consistent(k, {})
  <2>1. FreeOf(k.mem, {}) = {}  BY DEF FreeOf
  <2> QED  BY <1>6, <2>1 DEF Consistent, NoTwoFree
<1>8. AllocOf(k.mem, {}) = {}  BY DEF AllocOf
<1>9. ChunkSize \in Nat /\ ChunkSize >= 6 /\ ChunkSize % 2 = 0  BY MmAssumption
<1>10. r = ExtendHeap(k, ChunkSize)  OBVIOUS
<1> HIDE DEF r
<1>11. CASE CanGrow(k, ChunkSize)
  <2>1. PICK T : Offers(k, {}, ChunkSize, r, T)  BY <1>7, <1>9, <1>10, <1>11, ExtendOffers
  <2> QED  BY <1>1, <1>8, <2>1 DEF Offers
<1>12. CASE ~CanGrow(k, ChunkSize)
  <2>1. r.heap = k  BY <1>7, <1>9, <1>10, <1>12, ExtendOffers
  <2> QED  BY <1>1, <1>7, <1>8, <2>1
<1> QED  BY <1>11, <1>12

AreBlocks(m, L) == \A b \in L : IsBlock(m, b)

\* What is untouched twice is untouched.
LEMMA UntouchedTwice ==
    ASSUME NEW m, NEW n, NEW o, NEW L, AreBlocks(m, L), Untouched(m, n, L), Untouched(n, o, L)
    PROVE  Untouched(m, o, L)
<1>1. Retained(m, n, L)  BY UntouchedRetains DEF AreBlocks
<1> QED  BY <1>1, UntouchedOn

\* The blocks of a heap are blocks.
LEMMA ConsistentBlocks ==
    ASSUME NEW h, NEW S, Consistent(h, S)
    PROVE  AreBlocks(h.mem, S) /\ AreBlocks(h.mem, AllocOf(h.mem, S))
BY DEF Consistent, Good, Tiles, AreBlocks, AllocOf

\* What malloc makes of a heap: an allocated block more, or the same heap when
\* nothing fits and it cannot grow.
Gives(h, S, asize, r) ==
    /\ r.bp # NULL => \E T : /\ Consistent(r.heap, T)
                             /\ AllocOf(r.heap.mem, T) = AllocOf(h.mem, S) \cup {r.bp}
                             /\ r.bp \notin AllocOf(h.mem, S)
                             /\ Untouched(h.mem, r.heap.mem, AllocOf(h.mem, S))
                             /\ Sz(r.heap.mem, r.bp) >= asize
    /\ r.bp = NULL => r.heap = h /\ ~CanGrow(h, GrowBy(asize))
    /\ r.bp = NULL \/ r.heap.brk # h.brk => \A b \in FreeOf(h.mem, S) : Sz(h.mem, b) < asize

\* That is what it makes of it: what first fit, the growing of the
\* heap and place do together.
LEMMA AllocateGives ==
    ASSUME NEW h, NEW S, Consistent(h, S), NEW size \in Nat, NEW r, r = Allocate(h, size)
    PROVE  Gives(h, S, AdjustedSize(size), r)
<1> DEFINE m == h.mem
           asize == AdjustedSize(size)
           fit == FindFit(h, asize)
           got == IF fit # NULL THEN [heap |-> h, bp |-> fit] ELSE ExtendHeap(h, GrowBy(asize))
           g == Place(got.heap, got.bp, asize)
<1>1. asize \in Nat /\ asize >= 6 /\ asize % 2 = 0  BY Adjusted
<1>2. r = IF got.bp = NULL THEN got ELSE [heap |-> g, bp |-> got.bp]  BY DEF Allocate
<1> HIDE DEF asize, g
<1>3. Good(h, S, FreeOf(m, S))  BY DEF Consistent
<1>4. /\ fit # NULL => fit \in FreeOf(m, S) /\ Sz(m, fit) >= asize
      /\ fit = NULL => \A b \in FreeOf(m, S) : Sz(m, b) < asize
  <2>1. fit = FindFit(h, asize)  OBVIOUS
  <2> HIDE DEF fit
  <2> QED  BY <1>1, <1>3, <2>1, FitFound
<1> HIDE DEF fit
\* the block found, or the one the heap grows by
<1>5. ASSUME NEW k, NEW U, Consistent(k, U), NEW bp \in FreeOf(k.mem, U), Sz(k.mem, bp) >= asize,
             AllocOf(k.mem, U) = AllocOf(m, S), Untouched(m, k.mem, AllocOf(m, S)), got.heap = k, got.bp = bp
      PROVE  /\ bp # NULL /\ r.bp = bp /\ r.heap.brk = k.brk
             /\ \E T : /\ Consistent(r.heap, T)
                       /\ AllocOf(r.heap.mem, T) = AllocOf(m, S) \cup {bp}
                       /\ bp \notin AllocOf(m, S)
                       /\ Untouched(m, r.heap.mem, AllocOf(m, S))
                       /\ Sz(r.heap.mem, bp) >= asize
  <2>1. bp # NULL /\ bp \notin AllocOf(k.mem, U)
    <3>1. NULL \notin FreeOf(k.mem, U)  BY <1>5, GoodFacts DEF Consistent
    <3>2. Al(k.mem, bp) = 0  BY <1>5 DEF FreeOf
    <3> QED  BY <1>5, <3>1, <3>2 DEF AllocOf
  <2> HIDE DEF got
  <2>2. r.bp = bp /\ r.heap = g /\ g = Place(k, bp, asize)  BY <1>2, <1>5, <2>1 DEF g
  <2>3. PICK T : Placed(k, U, bp, asize, g, T)  BY <1>1, <1>5, <2>2, PlaceKeeps
  <2>4. Untouched(m, g.mem, AllocOf(m, S))
    <3>1. Untouched(k.mem, g.mem, AllocOf(m, S))  BY <1>5, <2>3 DEF Placed
    <3>2. AreBlocks(m, AllocOf(m, S))  BY ConsistentBlocks
    <3> QED  BY <1>5, <3>1, <3>2, UntouchedTwice
  <2> QED  BY <1>5, <2>1, <2>2, <2>3, <2>4 DEF Placed
<1>6. CASE fit # NULL
  <2>1. got.heap = h /\ got.bp = fit  BY <1>6
  <2> HIDE DEF got
  <2>2. Untouched(m, h.mem, AllocOf(m, S))  BY DEF Untouched, Holds
  <2>3. /\ fit # NULL /\ r.bp = fit /\ r.heap.brk = h.brk
        /\ \E T : /\ Consistent(r.heap, T)
                  /\ AllocOf(r.heap.mem, T) = AllocOf(m, S) \cup {fit}
                  /\ fit \notin AllocOf(m, S)
                  /\ Untouched(m, r.heap.mem, AllocOf(m, S))
                  /\ Sz(r.heap.mem, fit) >= asize
    BY <1>4, <1>5, <1>6, <2>1, <2>2
  <2> QED  BY <2>3 DEF Gives, m, asize
<1>7. CASE fit = NULL
  <2> DEFINE size2 == GrowBy(asize)
  <2>1. size2 \in Nat /\ size2 >= 6 /\ size2 % 2 = 0 /\ size2 >= asize
    <3>1. size2 \in Nat /\ size2 >= asize /\ size2 % 2 = 0  BY <1>1, GrowsEnough
    <3> HIDE DEF size2
    <3> QED  BY <1>1, <3>1
  <2>2. got = ExtendHeap(h, size2)  BY <1>7
  <2> HIDE DEF got, size2
  <2>3. CASE CanGrow(h, size2)
    <3>1. PICK U : Offers(h, S, size2, got, U)  BY <2>1, <2>2, <2>3, ExtendOffers
    <3>2. /\ Consistent(got.heap, U) /\ got.bp \in FreeOf(got.heap.mem, U)
          /\ AllocOf(got.heap.mem, U) = AllocOf(m, S) /\ Untouched(m, got.heap.mem, AllocOf(m, S))
          /\ Sz(got.heap.mem, got.bp) >= size2
      BY <3>1 DEF Offers, FreeOf
    <3>3. Sz(got.heap.mem, got.bp) >= asize
      <4>1. Sz(got.heap.mem, got.bp) \in Int
        <5>1. got.bp \in U  BY <3>2 DEF FreeOf
        <5> QED  BY <3>2, <5>1 DEF Consistent, Good, Tiles, IsBlock
      <4> QED  BY <1>1, <2>1, <3>2, <4>1
    <3>4. /\ got.bp # NULL /\ r.bp = got.bp
          /\ \E T : /\ Consistent(r.heap, T)
                    /\ AllocOf(r.heap.mem, T) = AllocOf(m, S) \cup {got.bp}
                    /\ got.bp \notin AllocOf(m, S)
                    /\ Untouched(m, r.heap.mem, AllocOf(m, S))
                    /\ Sz(r.heap.mem, got.bp) >= asize
      BY <1>5, <3>2, <3>3
    <3> QED  BY <1>4, <1>7, <3>4 DEF Gives, m, asize
  <2>4. CASE ~CanGrow(h, size2)
    <3>1. got.heap = h /\ got.bp = NULL  BY <2>1, <2>2, <2>4, ExtendOffers
    <3>2. r = got  BY <1>2, <3>1
    <3> QED  BY <1>4, <1>7, <2>4, <3>1, <3>2 DEF Gives, m, asize, size2
  <2> QED  BY <2>3, <2>4
<1> QED  BY <1>6, <1>7

\* g is h with words of the body of the allocated block at b written.
Written(h, S, b, g) ==
    /\ Consistent(g, S) /\ g.brk = h.brk
    /\ AllocOf(g.mem, S) = AllocOf(h.mem, S) /\ Untouched(h.mem, g.mem, S \ {b}) /\ SameSizes(h.mem, g.mem, S)

\* Writing an allocated block between its tags keeps the heap as it is.
LEMMA BodyKeeps ==
    ASSUME NEW h, NEW S, Consistent(h, S), NEW b \in AllocOf(h.mem, S), NEW n \in Mems, WithinBody(h.mem, n, b),
           NEW g, g = [h EXCEPT !.mem = n]
    PROVE  Written(h, S, b, g) /\ g.mem = n
<1> DEFINE F == FreeOf(h.mem, S)
<1>1. Good(h, S, F) /\ NoTwoFree(h.mem, S) /\ h \in HeapRecords  BY DEF Consistent, Good
<1>2. Fixed(h, g) /\ g.head = h.head /\ g.mem = n  BY <1>1 DEF HeapRecords, Fixed
<1>3. b \in S \ F  BY DEF AllocOf, FreeOf
<1> HIDE DEF F
<1>4. Good(g, S, F) /\ Retained(h.mem, g.mem, S) /\ Untouched(h.mem, g.mem, S \ {b})
  BY <1>1, <1>2, <1>3, GoodBody
<1>5. SameSizes(h.mem, g.mem, S)  BY <1>4, RetainedSizes
<1>6. FreeOf(g.mem, S) = F /\ AllocOf(g.mem, S) = AllocOf(h.mem, S)  BY <1>5 DEF SameSizes, FreeOf, AllocOf, F
<1>7. NoTwoFree(g.mem, S)  BY <1>1, <1>5 DEF NoTwoFree, SameSizes
<1> QED  BY <1>2, <1>4, <1>5, <1>6, <1>7 DEF Consistent, Written, Fixed

\* The words of a block lie in the heap.
LEMMA BlockWords ==
    ASSUME NEW h, NEW S, Consistent(h, S), NEW b \in S
    PROVE  /\ b \in Lo + 4 .. Hi - 3 /\ Sz(h.mem, b) \in 6 .. MaxHeap /\ b + Sz(h.mem, b) <= Hi + 1
           /\ h.mem \in Mems /\ h \in HeapRecords
<1>1. b \in Lo + 4 .. Hi - 3 /\ Sz(h.mem, b) \in 6 .. MaxHeap /\ b + Sz(h.mem, b) <= h.brk /\ h.brk \in Lo + 4 .. Hi + 1
  BY GoodFacts DEF Consistent
<1>2. b + Sz(h.mem, b) <= Hi + 1
  <2> DEFINE z == Sz(h.mem, b)
             e == h.brk
  <2>1. b \in Int /\ z \in Int /\ e \in Int /\ Hi \in Int /\ b + z <= e /\ e <= Hi + 1  BY <1>1, Bounds
  <2> HIDE DEF z, e
  <2>2. b + z <= Hi + 1  BY <2>1
  <2> QED  BY <2>2 DEF z
<1>3. h.mem \in Mems /\ h \in HeapRecords  BY DEF Consistent, Good, HeapRecords
<1> QED  BY <1>1, <1>2, <1>3

\* n is m with words from on of the block at b written.
Filled(m, n, b, from, words) ==
    \A w \in Lo .. Hi : n[w] = IF w \in b + from - 1 .. b + words - 1 THEN Datum(w - b + 1) ELSE m[w]

\* The program's writes stay within its block.
LEMMA FillKeeps ==
    ASSUME NEW h, NEW S, Consistent(h, S), NEW b \in AllocOf(h.mem, S), NEW from \in Nat \ {0}, NEW words \in Nat,
           words <= Sz(h.mem, b) - 2, NEW g, g = Fill(h, b, from, words)
    PROVE  Written(h, S, b, g) /\ Filled(h.mem, g.mem, b, from, words)
<1> DEFINE n == [w \in Lo .. Hi |-> IF w \in b + from - 1 .. b + words - 1 THEN Datum(w - b + 1) ELSE h.mem[w]]
           z == Sz(h.mem, b)
<1>1. b \in S  BY DEF AllocOf
<1>2. b \in Lo + 4 .. Hi - 3 /\ z \in 6 .. MaxHeap /\ b + z <= Hi + 1 /\ h.mem \in Mems /\ h \in HeapRecords
  BY <1>1, BlockWords
<1>3. g = [h EXCEPT !.mem = n]  BY <1>2 DEF Fill, Mems
<1> HIDE DEF z
<1>4. \A w \in Lo .. Hi : w \in b + from - 1 .. b + words - 1 => Datum(w - b + 1) \in Word
  <2>1. ASSUME NEW w \in Lo .. Hi, w \in b + from - 1 .. b + words - 1 PROVE w - b + 1 \in 0 .. MaxHeap
    <3>1. words <= z - 2  BY DEF z
    <3> QED  BY <1>2, <2>1, <3>1, Bounds
  <2> QED  BY <2>1 DEF Word
<1>5. n \in Mems  BY <1>2, <1>4 DEF Mems
<1>6. WithinBody(h.mem, n, b)
  <2>1. ASSUME NEW w \in Lo .. Hi, w < b \/ w > b + z - 3 PROVE w \notin b + from - 1 .. b + words - 1
    <3>1. words <= z - 2  BY DEF z
    <3> QED  BY <1>2, <2>1, <3>1, Bounds
  <2> QED  BY <2>1 DEF WithinBody, z
<1>7. \A w \in Lo .. Hi : n[w] = IF w \in b + from - 1 .. b + words - 1 THEN Datum(w - b + 1) ELSE h.mem[w]
  OBVIOUS
<1> HIDE DEF n
<1>8. Written(h, S, b, g) /\ g.mem = n  BY <1>3, <1>5, <1>6, BodyKeeps
<1> QED  BY <1>7, <1>8 DEF Filled

\* calloc clears words of its block and no others.
LEMMA ClearKeeps ==
    ASSUME NEW h, NEW S, Consistent(h, S), NEW b \in AllocOf(h.mem, S), NEW words \in Nat,
           words <= Sz(h.mem, b) - 2, NEW g, g = Clear(h, b, words)
    PROVE  /\ Written(h, S, b, g)
           /\ \A w \in Lo .. Hi : g.mem[w] = IF w \in b .. b + words - 1 THEN Datum(0) ELSE h.mem[w]
<1> DEFINE n == [w \in Lo .. Hi |-> IF w \in b .. b + words - 1 THEN Datum(0) ELSE h.mem[w]]
           z == Sz(h.mem, b)
<1>1. b \in S  BY DEF AllocOf
<1>2. b \in Lo + 4 .. Hi - 3 /\ z \in 6 .. MaxHeap /\ b + z <= Hi + 1 /\ h.mem \in Mems /\ h \in HeapRecords
  BY <1>1, BlockWords
<1>3. g = [h EXCEPT !.mem = n]  BY <1>2 DEF Clear, Mems
<1>4. Datum(0) \in Word  BY Bounds DEF Word
<1>5. n \in Mems  BY <1>2, <1>4 DEF Mems
<1> HIDE DEF z
<1>6. WithinBody(h.mem, n, b)
  <2>1. ASSUME NEW w \in Lo .. Hi, w < b \/ w > b + z - 3 PROVE w \notin b .. b + words - 1
    <3>1. words <= z - 2  BY DEF z
    <3> QED  BY <1>2, <2>1, <3>1, Bounds
  <2> QED  BY <2>1 DEF WithinBody, z
<1>7. \A w \in Lo .. Hi : n[w] = IF w \in b .. b + words - 1 THEN Datum(0) ELSE h.mem[w]  OBVIOUS
<1> HIDE DEF n
<1>8. Written(h, S, b, g) /\ g.mem = n  BY <1>3, <1>5, <1>6, BodyKeeps
<1> QED  BY <1>7, <1>8

\* What realloc copies: the words of the old block, from the first on.
LEMMA CopyKeeps ==
    ASSUME NEW h, NEW S, Consistent(h, S), NEW b \in AllocOf(h.mem, S), NEW old \in AllocOf(h.mem, S),
           NEW words \in Nat, words <= Sz(h.mem, b) - 2, NEW g, g = CopyOp(h, b, old, words),
           NEW count, count = CopiedWords(h, old, words)
    PROVE  /\ Written(h, S, b, g) /\ count \in Nat /\ count <= words /\ (count = words \/ count = Sz(h.mem, old))
           /\ \A w \in Lo .. Hi : g.mem[w] = IF w \in b .. b + count - 1 THEN h.mem[old + (w - b)] ELSE h.mem[w]
<1> DEFINE n == [w \in Lo .. Hi |-> IF w \in b .. b + count - 1 THEN h.mem[old + (w - b)] ELSE h.mem[w]]
           z == Sz(h.mem, b)
           y == Sz(h.mem, old)
<1>1. b \in S /\ old \in S  BY DEF AllocOf
<1>2. b \in Lo + 4 .. Hi - 3 /\ z \in 6 .. MaxHeap /\ b + z <= Hi + 1 /\ h.mem \in Mems /\ h \in HeapRecords
  BY <1>1, BlockWords
<1>3. old \in Lo + 4 .. Hi - 3 /\ y \in 6 .. MaxHeap /\ old + y <= Hi + 1  BY <1>1, BlockWords
<1>4. count = IF words < y THEN words ELSE y
  BY DEF CopiedWords, BlkSize, GetSize, HeaderPtr, Sz
<1>5. words <= z - 2  OBVIOUS
<1>6. g = [h EXCEPT !.mem = n]  BY <1>2 DEF CopyOp, Mems
<1> HIDE DEF z, y
<1>7. count \in Nat /\ count <= words /\ count <= y /\ (count = words \/ count = y)  BY <1>3, <1>4
<1>8. n \in Mems
  <2>1. \A w \in Lo .. Hi : w \in b .. b + count - 1 => old + (w - b) \in Lo .. Hi
    BY <1>2, <1>3, <1>7, Bounds
  <2> QED  BY <1>2, <2>1 DEF Mems
<1>9. WithinBody(h.mem, n, b)
  <2>1. ASSUME NEW w \in Lo .. Hi, w < b \/ w > b + z - 3 PROVE w \notin b .. b + count - 1
    BY <1>2, <1>5, <1>7, <2>1, Bounds
  <2> QED  BY <2>1 DEF WithinBody, z
<1>10. \A w \in Lo .. Hi : n[w] = IF w \in b .. b + count - 1 THEN h.mem[old + (w - b)] ELSE h.mem[w]  OBVIOUS
<1> HIDE DEF n
<1>11. Written(h, S, b, g) /\ g.mem = n  BY <1>6, <1>8, <1>9, BodyKeeps
<1> QED  BY <1>7, <1>10, <1>11 DEF y

\* What free leaves unknown lies within the block that is freed.
LEMMA ForgetKeeps ==
    ASSUME NEW h, NEW S, Consistent(h, S), NEW b \in AllocOf(h.mem, S), NEW g, g = Forget(h, b)
    PROVE  Written(h, S, b, g)
<1> DEFINE z == Sz(h.mem, b)
           n == [w \in Lo .. Hi |-> IF w \in b .. b + z - 3 THEN Junk ELSE h.mem[w]]
<1>1. b \in S  BY DEF AllocOf
<1>2. b \in Lo + 4 .. Hi - 3 /\ z \in 6 .. MaxHeap /\ b + z <= Hi + 1 /\ h.mem \in Mems /\ h \in HeapRecords
  BY <1>1, BlockWords
<1>3. g = [h EXCEPT !.mem = n]  BY <1>2 DEF Forget, Mems, BlkSize, GetSize, HeaderPtr, Sz
<1>4. n \in Mems
  <2>1. Junk \in Word  BY DEF Word
  <2> QED  BY <1>2, <2>1 DEF Mems
<1> HIDE DEF z
<1>5. WithinBody(h.mem, n, b)
  <2>1. ASSUME NEW w \in Lo .. Hi, w < b \/ w > b + z - 3 PROVE w \notin b .. b + z - 3
    BY <1>2, <2>1, Bounds
  <2> QED  BY <2>1 DEF WithinBody, z
<1> HIDE DEF n
<1> QED  BY <1>3, <1>4, <1>5, BodyKeeps

\* Free takes one block from the allocated ones and leaves the others alone.
Frees(h, S, b, g, T) ==
    /\ Consistent(g, T) /\ AllocOf(g.mem, T) = AllocOf(h.mem, S) \ {b}
    /\ Untouched(h.mem, g.mem, AllocOf(h.mem, S) \ {b})

\* free does: the tags are cleared and the block is merged.
LEMMA FreeKeeps ==
    ASSUME NEW h, NEW S, Consistent(h, S), NEW b \in AllocOf(h.mem, S), NEW g, g = FreeOp(h, b)
    PROVE  \E T : Frees(h, S, b, g, T)
<1> DEFINE m == h.mem
           f == Forget(h, b)
           z == Sz(m, b)
           t == SetTags(f, b, z, 0)
           F == FreeOf(m, S)
           L == AllocOf(m, S)
           r == Coalesce(t, b)
           end == b + z
<1>1. g = r.heap
  BY DEF FreeOp, BlkSize, GetSize, HeaderPtr, Sz
<1>2. b \in S /\ Al(m, b) = 1 /\ b \notin F  BY DEF AllocOf, FreeOf
<1>3. Written(h, S, b, f)  BY ForgetKeeps
<1> HIDE DEF f
<1>4. /\ Consistent(f, S) /\ SameSizes(m, f.mem, S) /\ Untouched(m, f.mem, S \ {b})
      /\ Good(f, S, F) /\ NoTwoFree(f.mem, S)
  <2>1. Consistent(f, S) /\ SameSizes(m, f.mem, S) /\ Untouched(m, f.mem, S \ {b})  BY <1>3 DEF Written
  <2>2. FreeOf(f.mem, S) = F  BY <2>1 DEF SameSizes, FreeOf
  <2> QED  BY <2>1, <2>2 DEF Consistent
<1>5. Sz(f.mem, b) = z  BY <1>2, <1>4 DEF SameSizes
<1>6. b \in Lo + 4 .. Hi - 3 /\ z \in 6 .. MaxHeap /\ b + z <= Hi + 1 /\ f \in HeapRecords
  BY <1>2, <1>4, <1>5, BlockWords
<1>7. b % 2 = 0 /\ z % 2 = 0 /\ end \in S \cup {f.brk}
  BY <1>2, <1>4, <1>5 DEF Good, Tiles, IsBlock
<1> HIDE DEF z, m, F, L
<1>8. /\ Fixed(f, t) /\ t.head = f.head /\ Outside(f.mem, t.mem, b, end)
      /\ IsBlock(t.mem, b) /\ Sz(t.mem, b) = z /\ Al(t.mem, b) = 0
  <2>1. b \in Lo + 1 .. Hi /\ b + z - 2 \in Lo .. Hi  BY <1>6, Bounds
  <2> QED  BY <1>6, <1>7, <2>1, TagsMakeBlock
<1> HIDE DEF t
<1>9. \A x \in S : x = b \/ x < b \/ x >= end
  <2>1. \A x, c \in S : x = c \/ x + Sz(f.mem, x) <= c \/ c + Sz(f.mem, c) <= x  BY <1>4, TilesApart DEF Good
  <2>2. \A x \in S : x \in Int /\ Sz(f.mem, x) \in Int /\ Sz(f.mem, x) >= 6  BY <1>4, TilesApart DEF Good
  <2>3. ASSUME NEW x \in S PROVE x = b \/ x < b \/ x >= end
    <3>1. x = b \/ x + Sz(f.mem, x) <= b \/ b + z <= x  BY <1>2, <1>5, <2>1
    <3> QED  BY <1>6, <2>2, <3>1
  <2> QED  BY <2>3
<1>10. Avoids(F, b, end)
  <2>1. F \subseteq S \ {b}  BY <1>2 DEF F, FreeOf
  <2> QED  BY <1>9, <2>1 DEF Avoids
<1>11. Swap(S, {b}, b, end) = S /\ Beyond(S, b, end) = S \ {b}
  <2>1. ~ (b < b) /\ ~ (b >= end)  BY <1>6
  <2> HIDE DEF end
  <2>2. Swap(S, {b}, b, end) = S  BY <1>2, <1>9 DEF Swap
  <2>3. Beyond(S, b, end) = S \ {b}  BY <1>9, <2>1 DEF Beyond
  <2> QED  BY <2>2, <2>3
<1>12. Tiles(t.mem, {b}, b, end)
  <2>1. Tiles(t.mem, {b}, b, b + Sz(t.mem, b))  BY <1>8, TilesOne
  <2> QED  BY <1>8, <2>1
<1> HIDE DEF end
<1>13. Good(t, S, F) /\ Untouched(f.mem, t.mem, S \ {b})
  <2>1. Good(t, Swap(S, {b}, b, end), F) /\ Untouched(f.mem, t.mem, Beyond(S, b, end))
    BY <1>2, <1>4, <1>7, <1>8, <1>10, <1>12, GoodSwap
  <2> QED  BY <1>11, <2>1
<1>14. \A x \in S \ {b} : Sz(t.mem, x) = Sz(m, x) /\ Al(t.mem, x) = Al(m, x)
  <2>1. \A x \in S \ {b} : IsBlock(f.mem, x)  BY <1>4 DEF Good, Tiles
  <2>2. SameSizes(f.mem, t.mem, S \ {b})  BY <1>13, <2>1, UntouchedRetains, RetainedSizes
  <2> QED  BY <1>4, <2>2 DEF SameSizes
<1>15. FreeOf(t.mem, S) \ {b} = F /\ AllocOf(t.mem, S) = L \ {b}
  <2>1. FreeOf(t.mem, S) \ {b} = F  BY <1>2, <1>14 DEF FreeOf, F
  <2>2. AllocOf(t.mem, S) = L \ {b}
    <3>1. Al(t.mem, b) # 1  BY <1>8
    <3> QED  BY <1>2, <1>14, <3>1 DEF AllocOf, L
  <2> QED  BY <2>1, <2>2
<1>16. Nearly(t, S, b)
  <2>1. NoTwoFree(t.mem, S \ {b})
    <3>1. NoTwoFree(m, S)  BY DEF Consistent, m
    <3> QED  BY <1>14, <3>1 DEF NoTwoFree
  <2> QED  BY <1>2, <1>8, <1>13, <1>15, <2>1 DEF Nearly
<1>17. PICK T : Keeps(t, S, r.heap, T)  BY <1>16, CoalesceKeeps DEF Merged
<1>18. Untouched(m, g.mem, L \ {b})
  <2>1. L \ {b} \subseteq S \ {b}  BY DEF L, AllocOf
  <2>2. Untouched(m, f.mem, L \ {b}) /\ Untouched(f.mem, t.mem, L \ {b})  BY <1>4, <1>13, <2>1 DEF Untouched
  <2>3. AreBlocks(m, L \ {b}) /\ AreBlocks(f.mem, L \ {b})
    <3>1. AreBlocks(m, S) /\ AreBlocks(f.mem, S)  BY <1>4, ConsistentBlocks DEF m
    <3> QED  BY <2>1, <3>1 DEF AreBlocks
  <2>4. Untouched(m, t.mem, L \ {b})  BY <2>2, <2>3, UntouchedTwice
  <2>5. Untouched(t.mem, g.mem, L \ {b})  BY <1>1, <1>15, <1>17 DEF Keeps
  <2> QED  BY <2>3, <2>4, <2>5, UntouchedTwice
<1>19. Consistent(g, T) /\ AllocOf(g.mem, T) = L \ {b}  BY <1>1, <1>15, <1>17 DEF Keeps
<1> QED  BY <1>18, <1>19 DEF Frees, m, L

---------------------------------------------------------------------------
(* The program's blocks *)

\* The allocated blocks of h are those of f, which gives each the number of
\* words the program uses of it.
HeapOf(h, S, f) ==
    /\ Consistent(h, S) /\ AllocOf(h.mem, S) = DOMAIN f
    /\ \A p \in DOMAIN f : f[p] \in Nat /\ f[p] >= 1 /\ f[p] <= Sz(h.mem, p) - 2

Holding(h, f) == (Unused(h) /\ DOMAIN f = {}) \/ \E S : HeapOf(h, S, f)

\* Blocks the program holds lie apart within the heap.
LEMMA HeldApart ==
    ASSUME NEW h, NEW f, Holding(h, f)
    PROVE  /\ \A p \in DOMAIN f : /\ p \in Lo .. Hi /\ p % 2 = 0 /\ f[p] \in 1 .. MaxHeap /\ p + f[p] - 1 <= Hi
                                  /\ IsBlock(h.mem, p) /\ f[p] <= Sz(h.mem, p) - 2
           /\ \A p, q \in DOMAIN f : p = q \/ p + f[p] <= q \/ q + f[q] <= p
<1>1. CASE DOMAIN f = {}  BY <1>1
<1>2. CASE \E S : HeapOf(h, S, f)
  <2>1. PICK S : HeapOf(h, S, f)  BY <1>2
  <2>2. Consistent(h, S) /\ DOMAIN f \subseteq S  BY <2>1 DEF HeapOf, AllocOf
  <2>3. \A p \in DOMAIN f : f[p] \in Nat /\ f[p] >= 1 /\ f[p] <= Sz(h.mem, p) - 2  BY <2>1 DEF HeapOf
  <2>4. \A p \in S : IsBlock(h.mem, p)  BY <2>2 DEF Consistent, Good, Tiles
  <2>5. ASSUME NEW p \in DOMAIN f
        PROVE  /\ p \in Lo .. Hi /\ p % 2 = 0 /\ f[p] \in 1 .. MaxHeap /\ p + f[p] - 1 <= Hi
               /\ p \in Int /\ Sz(h.mem, p) \in Int
    <3> DEFINE z == Sz(h.mem, p)
    <3>1. p \in Lo + 4 .. Hi - 3 /\ z \in 6 .. MaxHeap /\ p + z <= Hi + 1  BY <2>2, BlockWords
    <3>2. f[p] \in Nat /\ f[p] >= 1 /\ f[p] <= z - 2  BY <2>3
    <3>3. p % 2 = 0  BY <2>2, <2>4 DEF IsBlock
    <3> HIDE DEF z
    <3>4. p \in Lo .. Hi /\ f[p] \in 1 .. MaxHeap /\ p + f[p] - 1 <= Hi /\ p \in Int /\ z \in Int  BY <3>1, <3>2, Bounds
    <3> QED  BY <3>3, <3>4 DEF z
  <2>6. ASSUME NEW p \in DOMAIN f, NEW q \in DOMAIN f PROVE p = q \/ p + f[p] <= q \/ q + f[q] <= p
    <3>1. p = q \/ p + Sz(h.mem, p) <= q \/ q + Sz(h.mem, q) <= p  BY <2>2, TilesApart DEF Consistent, Good
    <3>2. p + f[p] <= p + Sz(h.mem, p) /\ q + f[q] <= q + Sz(h.mem, q)  BY <2>3, <2>5
    <3>3. /\ p \in Int /\ q \in Int /\ f[p] \in Int /\ f[q] \in Int /\ Sz(h.mem, p) \in Int /\ Sz(h.mem, q) \in Int
      BY <2>3, <2>5
    <3> QED  BY <3>1, <3>2, <3>3
  <2> QED  BY <2>2, <2>3, <2>4, <2>5, <2>6
<1> QED  BY <1>1, <1>2 DEF Holding

\* Where the first call finds the heap, or makes it.
Made(h) == IF h.listp = NULL THEN MmInit(h) ELSE h

\* mm_init leaves the program what it held: nothing.
LEMMA MadeHolds ==
    ASSUME NEW h, NEW f, Holding(h, f), NEW g, g = Made(h)
    PROVE  /\ \E S : HeapOf(g, S, f)
           /\ Untouched(h.mem, g.mem, DOMAIN f) /\ (h.listp # NULL => g = h)
<1>1. CASE Unused(h) /\ DOMAIN f = {}
  <2>1. g = MmInit(h) /\ h.listp = NULL  BY <1>1 DEF Unused, Made
  <2>2. PICK T : Consistent(g, T) /\ AllocOf(g.mem, T) = {}  BY <1>1, <2>1, InitConsistent
  <2> QED  BY <1>1, <2>1, <2>2 DEF HeapOf, Untouched
<1>2. CASE \E S : HeapOf(h, S, f)
  <2>1. PICK S : HeapOf(h, S, f)  BY <1>2
  <2>2. h.listp # NULL  BY <2>1, Bounds DEF HeapOf, Consistent, Good
  <2>3. g = h  BY <2>2 DEF Made
  <2> QED  BY <2>1, <2>3 DEF Untouched, Holds
<1> QED  BY <1>1, <1>2 DEF Holding

\* What malloc gives the program: nothing, or a block it does not hold, with
\* room for what it asks for.
Obtains(h, f, size, r, T) ==
    /\ Consistent(r.heap, T) /\ Untouched(h.mem, r.heap.mem, DOMAIN f)
    /\ r.bp = NULL => AllocOf(r.heap.mem, T) = DOMAIN f
    /\ r.bp # NULL => /\ size > 0 /\ r.bp \notin DOMAIN f /\ AllocOf(r.heap.mem, T) = DOMAIN f \cup {r.bp}
                      /\ WordsOf(size) <= Sz(r.heap.mem, r.bp) - 2

\* malloc gives that, initialising the heap first if need be.
LEMMA MallocObtains ==
    ASSUME NEW h, NEW f, Holding(h, f), NEW size \in Nat, NEW r, r = MallocOp(h, size)
    PROVE  \E T : Obtains(h, f, size, r, T)
<1> DEFINE g == Made(h)
<1>1. r = IF size = 0 THEN [heap |-> g, bp |-> NULL] ELSE Allocate(g, size)  BY DEF MallocOp, Made
<1>2. g = Made(h)  OBVIOUS
<1> HIDE DEF g
<1>3. PICK S : HeapOf(g, S, f)  BY <1>2, MadeHolds
<1>4. Consistent(g, S) /\ AllocOf(g.mem, S) = DOMAIN f /\ Untouched(h.mem, g.mem, DOMAIN f)
  BY <1>2, <1>3, MadeHolds DEF HeapOf
<1>5. CASE size = 0
  <2>1. r.heap = g /\ r.bp = NULL  BY <1>1, <1>5
  <2> QED  BY <1>4, <2>1 DEF Obtains
<1>6. CASE size # 0
  <2>1. r = Allocate(g, size)  BY <1>1, <1>6
  <2>2. Gives(g, S, AdjustedSize(size), r)  BY <1>4, <2>1, AllocateGives
  <2>3. CASE r.bp = NULL
    <3>1. r.heap = g  BY <2>2, <2>3 DEF Gives
    <3> QED  BY <1>4, <2>3, <3>1 DEF Obtains
  <2>4. CASE r.bp # NULL
    <3> DEFINE bp == r.bp
               k == r.heap
    <3>1. PICK T : /\ Consistent(k, T)
                   /\ AllocOf(k.mem, T) = DOMAIN f \cup {bp} /\ bp \notin DOMAIN f
                   /\ Untouched(g.mem, k.mem, DOMAIN f)
                   /\ Sz(k.mem, bp) >= AdjustedSize(size)
      BY <1>4, <2>2, <2>4 DEF Gives
    <3>2. Untouched(h.mem, k.mem, DOMAIN f)
      <4>1. AreBlocks(h.mem, DOMAIN f)  BY HeldApart DEF AreBlocks
      <4> QED  BY <1>4, <3>1, <4>1, UntouchedTwice
    <3>3. bp \in T  BY <3>1 DEF AllocOf
    <3>4. WordsOf(size) <= Sz(k.mem, bp) - 2
      <4> DEFINE z == Sz(k.mem, bp)
                 a == AdjustedSize(size)
                 w == WordsOf(size)
      <4>1. z \in Int  BY <3>1, <3>3, BlockWords
      <4>2. a \in Int /\ w \in Int /\ w <= a - 2  BY Adjusted
      <4>3. z >= a  BY <3>1
      <4> HIDE DEF z, a, w
      <4>4. w <= z - 2  BY <4>1, <4>2, <4>3
      <4> QED  BY <4>4 DEF z, w
    <3>5. size > 0  BY <1>6
    <3>6. Obtains(h, f, size, r, T)  BY <2>4, <3>1, <3>2, <3>4, <3>5 DEF Obtains
    <3> QED  BY <3>6
  <2> QED  BY <2>3, <2>4
<1> QED  BY <1>5, <1>6

\* With adds a block, Without takes one away.
Extends(f, p, n, e) == /\ DOMAIN e = DOMAIN f \cup {p} /\ e[p] = n
                       /\ \A q \in DOMAIN f : q # p => e[q] = f[q]

\* One more block in use, the others as they were.
LEMMA WithIs ==
    ASSUME NEW f, NEW p, NEW n, NEW e, e = With(f, p, n)
    PROVE  Extends(f, p, n, e)
BY DEF With, Extends

Lessens(f, p, e) == DOMAIN e = DOMAIN f \ {p} /\ \A q \in DOMAIN f \ {p} : e[q] = f[q]

\* One block less.
LEMMA WithoutIs ==
    ASSUME NEW f, NEW p, NEW e, e = Without(f, p)
    PROVE  Lessens(f, p, e)
BY DEF Without, Lessens

\* Sizes are kept where nothing is touched.
LEMMA SizesKept ==
    ASSUME NEW m, NEW n, NEW L, AreBlocks(m, L), Untouched(m, n, L)
    PROVE  SameSizes(m, n, L)
BY UntouchedRetains, RetainedSizes DEF AreBlocks

\* What is true of a heap and its blocks after malloc gave nothing.
LEMMA NothingObtained ==
    ASSUME NEW h, NEW f, Holding(h, f), NEW size \in Nat, NEW r, r = MallocOp(h, size), r.bp = NULL
    PROVE  Holding(r.heap, f) /\ Untouched(h.mem, r.heap.mem, DOMAIN f)
<1>1. PICK T : Obtains(h, f, size, r, T)  BY MallocObtains
<1>2. /\ Consistent(r.heap, T) /\ Untouched(h.mem, r.heap.mem, DOMAIN f) /\ AllocOf(r.heap.mem, T) = DOMAIN f
  BY <1>1 DEF Obtains
<1>3. \A p \in DOMAIN f : f[p] \in 1 .. MaxHeap /\ f[p] <= Sz(h.mem, p) - 2 /\ IsBlock(h.mem, p)  BY HeldApart
<1>4. SameSizes(h.mem, r.heap.mem, DOMAIN f)  BY <1>2, <1>3, SizesKept DEF AreBlocks
<1>5. \A p \in DOMAIN f : f[p] \in Nat /\ f[p] >= 1 /\ f[p] <= Sz(r.heap.mem, p) - 2
  BY <1>3, <1>4, Bounds DEF SameSizes
<1> QED  BY <1>2, <1>5 DEF Holding, HeapOf

\* After it gave a block, before the block is written.
LEMMA SomethingObtained ==
    ASSUME NEW h, NEW f, Holding(h, f), NEW size \in Nat, NEW r, r = MallocOp(h, size), r.bp # NULL
    PROVE  \E T : /\ HeapOf(r.heap, T, With(f, r.bp, WordsOf(size)))
                  /\ Untouched(h.mem, r.heap.mem, DOMAIN f) /\ r.bp \notin DOMAIN f
<1> DEFINE bp == r.bp
           k == r.heap
           w == WordsOf(size)
           e == With(f, bp, w)
<1>1. PICK T : Obtains(h, f, size, r, T)  BY MallocObtains
<1>2. /\ Consistent(k, T) /\ Untouched(h.mem, k.mem, DOMAIN f) /\ AllocOf(k.mem, T) = DOMAIN f \cup {bp}
      /\ size > 0 /\ bp \notin DOMAIN f /\ w <= Sz(k.mem, bp) - 2
  BY <1>1 DEF Obtains
<1>3. \A p \in DOMAIN f : f[p] \in 1 .. MaxHeap /\ f[p] <= Sz(h.mem, p) - 2 /\ IsBlock(h.mem, p)  BY HeldApart
<1>4. SameSizes(h.mem, k.mem, DOMAIN f)  BY <1>2, <1>3, SizesKept DEF AreBlocks
<1>5. \A p \in DOMAIN f : f[p] \in Nat /\ f[p] >= 1 /\ f[p] <= Sz(k.mem, p) - 2
  BY <1>3, <1>4, Bounds DEF SameSizes
<1>6. w \in Nat /\ w >= 1  BY <1>2, Adjusted
<1> HIDE DEF w
<1>0. e = With(f, bp, w)  OBVIOUS
<1> HIDE DEF e, bp, k
<1>7. DOMAIN e = DOMAIN f \cup {bp} /\ e[bp] = w /\ \A q \in DOMAIN f : q # bp => e[q] = f[q]
  <2>1. Extends(f, bp, w, e)  BY <1>0, WithIs
  <2> QED  BY <2>1 DEF Extends
<1>8. \A p \in DOMAIN e : e[p] \in Nat /\ e[p] >= 1 /\ e[p] <= Sz(k.mem, p) - 2
  BY <1>2, <1>5, <1>6, <1>7
<1>9. HeapOf(k, T, e)  BY <1>2, <1>7, <1>8 DEF HeapOf
<1> QED  BY <1>2, <1>9 DEF e, bp, k, w

\* Writing a block the program holds.
LEMMA WrittenHolds ==
    ASSUME NEW h, NEW S, NEW f, HeapOf(h, S, f), NEW b \in DOMAIN f, NEW g, Written(h, S, b, g)
    PROVE  HeapOf(g, S, f) /\ Untouched(h.mem, g.mem, DOMAIN f \ {b})
<1>1. DOMAIN f \subseteq S  BY DEF HeapOf, AllocOf
<1>2. \A p \in DOMAIN f : Sz(g.mem, p) = Sz(h.mem, p)  BY <1>1 DEF Written, SameSizes
<1>3. Untouched(h.mem, g.mem, DOMAIN f \ {b})  BY <1>1 DEF Written, Untouched
<1> QED  BY <1>2, <1>3 DEF Written, HeapOf

\* Freeing a block the program holds.
LEMMA FreedHolds ==
    ASSUME NEW h, NEW S, NEW f, HeapOf(h, S, f), NEW p \in DOMAIN f, NEW g, g = FreeOp(h, p),
           NEW e, e = Without(f, p)
    PROVE  \E T : HeapOf(g, T, e) /\ Untouched(h.mem, g.mem, DOMAIN f \ {p})
<1>1. Consistent(h, S) /\ AllocOf(h.mem, S) = DOMAIN f  BY DEF HeapOf
<1>2. PICK T : /\ Consistent(g, T) /\ AllocOf(g.mem, T) = DOMAIN f \ {p}
               /\ Untouched(h.mem, g.mem, DOMAIN f \ {p})
  <2>1. \E T : Frees(h, S, p, g, T)  BY <1>1, FreeKeeps
  <2> QED  BY <1>1, <2>1 DEF Frees
<1>3. DOMAIN e = DOMAIN f \ {p} /\ \A q \in DOMAIN f \ {p} : e[q] = f[q]
  <2>1. Lessens(f, p, e)  BY WithoutIs
  <2> QED  BY <2>1 DEF Lessens
<1>4. AreBlocks(h.mem, DOMAIN f \ {p})
  <2>1. AreBlocks(h.mem, DOMAIN f)  BY <1>1, ConsistentBlocks
  <2> QED  BY <2>1 DEF AreBlocks
<1>5. SameSizes(h.mem, g.mem, DOMAIN f \ {p})  BY <1>2, <1>4, SizesKept
<1>6. \A q \in DOMAIN f : f[q] \in Nat /\ f[q] >= 1 /\ f[q] <= Sz(h.mem, q) - 2  BY DEF HeapOf
<1>7. \A q \in DOMAIN e : e[q] \in Nat /\ e[q] >= 1 /\ e[q] <= Sz(g.mem, q) - 2
  BY <1>3, <1>5, <1>6 DEF SameSizes
<1>8. HeapOf(g, T, e)  BY <1>2, <1>3, <1>7 DEF HeapOf
<1> QED  BY <1>2, <1>8

\* The words of the blocks of D that f counts are the same in m and n.
SameWords(m, n, f, D) == \A q \in D : \A i \in 1 .. f[q] : n[q + i - 1] = m[q + i - 1]

\* Blocks left alone keep the program's words.
LEMMA WordsKept ==
    ASSUME NEW h, NEW f, Holding(h, f), NEW D, D \subseteq DOMAIN f, NEW n, Untouched(h.mem, n, D)
    PROVE  SameWords(h.mem, n, f, D)
<1> SUFFICES ASSUME NEW q \in D, NEW i \in 1 .. f[q] PROVE n[q + i - 1] = h.mem[q + i - 1]
  BY DEF SameWords
<1> DEFINE z == Sz(h.mem, q)
<1>1. q \in Lo .. Hi /\ f[q] \in 1 .. MaxHeap /\ IsBlock(h.mem, q) /\ f[q] <= z - 2  BY HeldApart
<1>2. q \in Int /\ z \in Int /\ f[q] \in Int  BY <1>1, Bounds DEF IsBlock
<1>3. Holds(h.mem, n, q)  BY DEF Untouched
<1>4. q + i - 1 \in q - 1 .. q + z - 2
  <2>1. f[q] <= z - 2  BY <1>1
  <2> HIDE DEF z
  <2> QED  BY <1>2, <2>1
<1> QED  BY <1>3, <1>4 DEF Holds

\* What the program holds after malloc, or calloc, gave it block b.
Obtained(h, f, b, g, e) ==
    /\ Holding(g, e) /\ b \notin DOMAIN f /\ SameWords(h.mem, g.mem, f, DOMAIN f)

\* A block that malloc or calloc gives: the program's words are kept, and a
\* block from calloc is cleared.
LEMMA BlockObtained ==
    ASSUME NEW h, NEW f, Holding(h, f), NEW size \in Nat, NEW r, r = MallocOp(h, size), r.bp # NULL,
           NEW e, e = With(f, r.bp, WordsOf(size))
    PROVE  /\ \A g : g = Fill(r.heap, r.bp, 1, WordsOf(size)) => Obtained(h, f, r.bp, g, e)
           /\ \A g : g = Clear(r.heap, r.bp, WordsOf(size)) =>
                 /\ Obtained(h, f, r.bp, g, e)
                 /\ \A i \in 1 .. WordsOf(size) : g.mem[r.bp + i - 1] = Datum(0)
<1> DEFINE k == r.heap
           b == r.bp
           w == WordsOf(size)
<1>1. PICK T : HeapOf(k, T, e) /\ Untouched(h.mem, k.mem, DOMAIN f) /\ b \notin DOMAIN f  BY SomethingObtained
<1>2. w \in Nat /\ 1 \in Nat \ {0}  BY Adjusted
<1>0. e = With(f, b, w)  OBVIOUS
<1> HIDE DEF k, b, w
<1>3. DOMAIN e = DOMAIN f \cup {b} /\ e[b] = w
  <2>1. Extends(f, b, w, e)  BY <1>0, WithIs
  <2> QED  BY <2>1 DEF Extends
<1>4. Consistent(k, T) /\ b \in AllocOf(k.mem, T) /\ w <= Sz(k.mem, b) - 2 /\ b \in DOMAIN e  BY <1>1, <1>3 DEF HeapOf
<1>5. ASSUME NEW g, Written(k, T, b, g) PROVE Obtained(h, f, b, g, e)
  <2>1. HeapOf(g, T, e) /\ Untouched(k.mem, g.mem, DOMAIN e \ {b})  BY <1>1, <1>4, <1>5, WrittenHolds
  <2>2. Untouched(k.mem, g.mem, DOMAIN f)  BY <1>1, <1>3, <2>1 DEF Untouched
  <2>3. AreBlocks(h.mem, DOMAIN f)  BY HeldApart DEF AreBlocks
  <2>4. Untouched(h.mem, g.mem, DOMAIN f)  BY <1>1, <2>2, <2>3, UntouchedTwice
  <2>5. SameWords(h.mem, g.mem, f, DOMAIN f)  BY <2>4, WordsKept
  <2> QED  BY <1>1, <2>1, <2>5 DEF Obtained, Holding
<1>6. ASSUME NEW g, g = Fill(k, b, 1, w) PROVE Obtained(h, f, b, g, e)
  <2>1. Written(k, T, b, g)  BY <1>2, <1>4, <1>6, FillKeeps
  <2> QED  BY <1>5, <2>1
<1>7. ASSUME NEW g, g = Clear(k, b, w)
      PROVE  Obtained(h, f, b, g, e) /\ \A i \in 1 .. w : g.mem[b + i - 1] = Datum(0)
  <2>1. /\ Written(k, T, b, g)
        /\ \A x \in Lo .. Hi : g.mem[x] = IF x \in b .. b + w - 1 THEN Datum(0) ELSE k.mem[x]
    BY <1>2, <1>4, <1>7, ClearKeeps
  <2>2. b \in Lo .. Hi /\ b + w - 1 <= Hi
    <3>1. Holding(k, e)  BY <1>1 DEF Holding
    <3> QED  BY <1>3, <3>1, HeldApart
  <2>3. \A i \in 1 .. w : b + i - 1 \in Lo .. Hi /\ b + i - 1 \in b .. b + w - 1  BY <1>2, <2>2, Bounds
  <2> QED  BY <1>5, <2>1, <2>3
<1> QED  BY <1>6, <1>7 DEF k, b, w

\* What the program holds after realloc moved block p to block b.
Moved(h, f, p, words, b, g, e) ==
    /\ Holding(g, e) /\ b \notin DOMAIN f /\ SameWords(h.mem, g.mem, f, DOMAIN f \ {p})
    /\ \A i \in 1 .. f[p] : i <= words => g.mem[b + i - 1] = h.mem[p + i - 1]

\* The smaller of the two lengths.
LEMMA SmallerOf ==
    ASSUME NEW a \in Nat, NEW b \in Nat, NEW k, k = SetMin({a, b})
    PROVE  k \in Nat /\ k <= a /\ k <= b /\ (k = a \/ k = b)
<1> DEFINE U == {a, b}
<1>1. U \in SUBSET Nat /\ U # {}  OBVIOUS
<1>2. k = Min(U)  BY Zenon DEF SetMin, Min
<1> HIDE DEF U
<1>3. Min(U) \in U /\ \A x \in U : Min(U) <= x  BY <1>1, MinIsMember
<1> QED  BY <1>2, <1>3 DEF U

\* It does not matter which of two blocks is noted first.
LEMMA WithAndWithout ==
    ASSUME NEW f, NEW p \in DOMAIN f, NEW b, b \notin DOMAIN f, NEW w,
           NEW d, d = With(f, b, w), NEW e, e = With(Without(f, p), b, w)
    PROVE  e = Without(d, p)
<1> DEFINE c == Without(f, p)
           o == Without(d, p)
           D == (DOMAIN f \ {p}) \cup {b}
<1>1. Extends(f, b, w, d)  BY WithIs
<1>2. Lessens(f, p, c)  BY WithoutIs
<1>3. Extends(c, b, w, e)
  <2>1. e = With(c, b, w)  OBVIOUS
  <2> HIDE DEF c
  <2> QED  BY <2>1, WithIs
<1>4. Lessens(d, p, o)
  <2>1. o = Without(d, p)  OBVIOUS
  <2> HIDE DEF o
  <2> QED  BY <2>1, WithoutIs
<1>5. o = [x \in DOMAIN o |-> o[x]]  BY DEF Without
<1>6. e = [x \in DOMAIN e |-> e[x]]  BY DEF With
<1> HIDE DEF c, o
<1>7. p # b  OBVIOUS
<1>8. DOMAIN e = D /\ DOMAIN o = D  BY <1>1, <1>2, <1>3, <1>4, <1>7 DEF Extends, Lessens
<1>9. \A x \in D : e[x] = o[x]  BY <1>1, <1>2, <1>3, <1>4, <1>7 DEF Extends, Lessens
<1> HIDE DEF D
<1>10. e = [x \in D |-> e[x]] /\ o = [x \in D |-> o[x]]  BY <1>5, <1>6, <1>8
<1>11. e = o  BY <1>9, <1>10
<1> QED  BY <1>11 DEF o

\* A block that realloc gives: copied from the old one before that is freed.
LEMMA BlockMoved ==
    ASSUME NEW h, NEW f, Holding(h, f), NEW p \in DOMAIN f, NEW size \in Nat,
           NEW r, r = MallocOp(h, size), r.bp # NULL, NEW w, w = WordsOf(size),
           NEW kept, kept = SetMin({f[p], w}), NEW g, g = Fill(Move(r.heap, r.bp, p, w), r.bp, kept + 1, w),
           NEW e, e = With(Without(f, p), r.bp, w)
    PROVE  Moved(h, f, p, w, r.bp, g, e)
<1> DEFINE k == r.heap
           b == r.bp
           d == With(f, b, w)
           c == CopyOp(k, b, p, w)
           a == FreeOp(c, p)
           count == CopiedWords(k, p, w)
<1>1. PICK T : HeapOf(k, T, d) /\ Untouched(h.mem, k.mem, DOMAIN f) /\ b \notin DOMAIN f  BY SomethingObtained
<1>2. w \in Nat  BY Adjusted
<1>3. f[p] \in Nat  BY HeldApart
<1>4. kept \in Nat /\ kept <= f[p] /\ kept <= w /\ (kept = f[p] \/ kept = w)  BY <1>2, <1>3, SmallerOf
<1>5. g = Fill(a, b, kept + 1, w) /\ d = With(f, b, w) /\ e = With(Without(f, p), b, w)  BY DEF Move
<1>6. c = CopyOp(k, b, p, w) /\ a = FreeOp(c, p) /\ count = CopiedWords(k, p, w)  OBVIOUS
<1> HIDE DEF k, b, d, c, a, count
<1>7. e = Without(d, p)  BY <1>1, <1>5, WithAndWithout
<1>8. DOMAIN d = DOMAIN f \cup {b} /\ d[b] = w /\ (\A q \in DOMAIN f : q # b => d[q] = f[q]) /\ p # b
  <2>1. Extends(f, b, w, d)  BY <1>5, WithIs
  <2> QED  BY <1>1, <2>1 DEF Extends
<1>9. /\ Consistent(k, T) /\ AllocOf(k.mem, T) = DOMAIN d /\ w <= Sz(k.mem, b) - 2
      /\ d[p] \in Nat /\ d[p] <= Sz(k.mem, p) - 2
  BY <1>1, <1>8 DEF HeapOf
<1>10. /\ Written(k, T, b, c) /\ count \in Nat /\ count <= w /\ (count = w \/ count = Sz(k.mem, p))
       /\ \A x \in Lo .. Hi : c.mem[x] = IF x \in b .. b + count - 1 THEN k.mem[p + (x - b)] ELSE k.mem[x]
  BY <1>2, <1>6, <1>8, <1>9, CopyKeeps
<1>11. HeapOf(c, T, d) /\ Untouched(k.mem, c.mem, DOMAIN d \ {b})  BY <1>1, <1>8, <1>10, WrittenHolds
<1>12. PICK U : HeapOf(a, U, e) /\ Untouched(c.mem, a.mem, DOMAIN d \ {p})  BY <1>6, <1>7, <1>8, <1>11, FreedHolds
<1>13. DOMAIN e = DOMAIN d \ {p} /\ b \in DOMAIN e /\ e[b] = w
  <2>1. Lessens(d, p, e)  BY <1>7, WithoutIs
  <2> QED  BY <1>8, <2>1 DEF Lessens
<1>14. Consistent(a, U) /\ b \in AllocOf(a.mem, U) /\ w <= Sz(a.mem, b) - 2  BY <1>12, <1>13 DEF HeapOf
<1>15. /\ Written(a, U, b, g)
       /\ \A x \in Lo .. Hi : g.mem[x] = IF x \in b + (kept + 1) - 1 .. b + w - 1 THEN Datum(x - b + 1) ELSE a.mem[x]
  <2> DEFINE from == kept + 1
  <2>1. from \in Nat \ {0}  BY <1>4
  <2>2. g = Fill(a, b, from, w)  BY <1>5
  <2> HIDE DEF from
  <2>3. Written(a, U, b, g) /\ Filled(a.mem, g.mem, b, from, w)  BY <1>2, <1>14, <2>1, <2>2, FillKeeps
  <2>4. \A x \in Lo .. Hi : g.mem[x] = IF x \in b + from - 1 .. b + w - 1 THEN Datum(x - b + 1) ELSE a.mem[x]
    BY <2>3 DEF Filled
  <2> QED  BY <2>3, <2>4 DEF from
<1>16. HeapOf(g, U, e) /\ Untouched(a.mem, g.mem, DOMAIN e \ {b})  BY <1>12, <1>13, <1>15, WrittenHolds
<1>17. SameWords(h.mem, g.mem, f, DOMAIN f \ {p})
  <2> DEFINE D == DOMAIN f \ {p}
  <2>1. D \subseteq DOMAIN f /\ D \subseteq DOMAIN d \ {b} /\ D \subseteq DOMAIN d \ {p} /\ D \subseteq DOMAIN e \ {b}
    BY <1>1, <1>8, <1>13
  <2> HIDE DEF D
  <2>2. /\ Untouched(h.mem, k.mem, D) /\ Untouched(k.mem, c.mem, D) /\ Untouched(c.mem, a.mem, D)
        /\ Untouched(a.mem, g.mem, D)
    BY <1>1, <1>11, <1>12, <1>16, <2>1 DEF Untouched
  <2>3. AreBlocks(h.mem, D)  BY <2>1, HeldApart DEF AreBlocks
  <2>4. Untouched(h.mem, c.mem, D)  BY <2>2, <2>3, UntouchedTwice
  <2>5. Untouched(h.mem, a.mem, D)  BY <2>2, <2>3, <2>4, UntouchedTwice
  <2>6. Untouched(h.mem, g.mem, D)  BY <2>2, <2>3, <2>5, UntouchedTwice
  <2>7. SameWords(h.mem, g.mem, f, D)  BY <2>1, <2>6, WordsKept
  <2> QED  BY <2>7 DEF D
<1>18. ASSUME NEW i \in 1 .. f[p], i <= w PROVE g.mem[b + i - 1] = h.mem[p + i - 1]
  <2> DEFINE y == Sz(k.mem, p)
  <2>1. SameWords(h.mem, k.mem, f, DOMAIN f)  BY <1>1, WordsKept
  <2>2. SameWords(c.mem, a.mem, d, DOMAIN d \ {p})
    <3>1. Holding(c, d)  BY <1>11 DEF Holding
    <3> QED  BY <1>12, <3>1, WordsKept
  <2>3. b \in Lo .. Hi /\ b + w - 1 <= Hi
    <3>1. Holding(g, e)  BY <1>16 DEF Holding
    <3> QED  BY <1>13, <3>1, HeldApart
  <2>4. i \in 1 .. w /\ i \in Nat  BY <1>2, <1>3, <1>18
  <2>5. b + i - 1 \in Lo .. Hi /\ ~ (b + i - 1 \in b + (kept + 1) - 1 .. b + w - 1)
    BY <1>2, <1>3, <1>4, <1>18, <2>3, <2>4, Bounds
  <2>6. i <= count
    <3>1. f[p] <= y - 2 /\ y \in Int /\ (count = w \/ count = y)
      <4>1. p \in T  BY <1>8, <1>9 DEF AllocOf
      <4> QED  BY <1>8, <1>9, <1>10, <4>1, BlockWords
    <3> HIDE DEF y
    <3> QED  BY <1>3, <1>18, <2>4, <3>1
  <2>7. b + i - 1 \in b .. b + count - 1 /\ p + ((b + i - 1) - b) = p + i - 1
    <3>1. p \in Int  BY HeldApart, Bounds
    <3> QED  BY <1>10, <2>3, <2>4, <2>6, <3>1, Bounds
  <2>8. g.mem[b + i - 1] = a.mem[b + i - 1]  BY <1>15, <2>5
  <2>9. a.mem[b + i - 1] = c.mem[b + i - 1]  BY <1>8, <2>2, <2>4 DEF SameWords
  <2>10. c.mem[b + i - 1] = k.mem[p + ((b + i - 1) - b)]  BY <1>10, <2>5, <2>7
  <2>11. k.mem[p + i - 1] = h.mem[p + i - 1]  BY <2>1 DEF SameWords
  <2> QED  BY <2>7, <2>8, <2>9, <2>10, <2>11
<1>19. Holding(g, e)  BY <1>16 DEF Holding
<1> QED  BY <1>1, <1>17, <1>18, <1>19 DEF Moved, k, b

---------------------------------------------------------------------------
(* The invariant *)

\* The heap is unused or well formed, and its allocated blocks are those the
\* program holds, each with room for what was asked.
IInv == crashed \in BOOLEAN /\ Holding(heap, live)

\* The heap is unused at first.
LEMMA InitHolds == Init => IInv
<1> SUFFICES ASSUME Init PROVE IInv  OBVIOUS
<1> DEFINE m == [w \in Lo .. Hi |-> Junk]
           head == [i \in Lists |-> NULL]
<1>1. heap = [mem |-> m, brk |-> Lo, head |-> head, listp |-> NULL] /\ live = << >> /\ crashed = FALSE  BY DEF Init
<1>2. m \in Mems /\ head \in [Lists -> Pointers]  BY DEF Mems, Word, Pointers
<1>3. Lo \in Lo .. Hi + 1 /\ NULL \in {NULL, Lo + 2}  BY Bounds
<1> HIDE DEF m
<1>4. Unused(heap)  BY <1>1, <1>2, <1>3 DEF Unused, HeapRecords
<1>5. DOMAIN live = {}  BY <1>1
<1> QED  BY <1>1, <1>4, <1>5 DEF IInv, Holding

\* malloc gives nothing and changes nothing the program sees, or a new block.
LEMMA MallocCases ==
    ASSUME Holding(heap, live), NEW size \in Nat, Malloc(size)
    PROVE  \/ /\ live' = live /\ Holding(heap', live) /\ SameWords(heap.mem, heap'.mem, live, DOMAIN live)
           \/ \E b : /\ live' = With(live, b, WordsOf(size)) /\ Obtained(heap, live, b, heap', live')
<1> DEFINE got == MallocOp(heap, size)
<1>1. CASE got.bp = NULL
  <2>1. heap' = got.heap /\ live' = live  BY <1>1 DEF Malloc
  <2>2. got = MallocOp(heap, size)  OBVIOUS
  <2> HIDE DEF got
  <2>3. Holding(got.heap, live) /\ Untouched(heap.mem, got.heap.mem, DOMAIN live)  BY <1>1, <2>2, NothingObtained
  <2>4. SameWords(heap.mem, got.heap.mem, live, DOMAIN live)  BY <2>3, WordsKept
  <2> QED  BY <2>1, <2>3, <2>4
<1>2. CASE got.bp # NULL
  <2>1. heap' = Fill(got.heap, got.bp, 1, WordsOf(size)) /\ live' = With(live, got.bp, WordsOf(size))
    BY <1>2 DEF Malloc
  <2>2. got = MallocOp(heap, size)  OBVIOUS
  <2> HIDE DEF got
  <2>3. Obtained(heap, live, got.bp, heap', live')  BY <1>2, <2>1, <2>2, BlockObtained
  <2> QED  BY <2>1, <2>3
<1> QED  BY <1>1, <1>2

\* calloc gives nothing, or a block that is cleared.
LEMMA CallocCases ==
    ASSUME Holding(heap, live), NEW bytes \in Nat, Calloc(bytes)
    PROVE  \/ /\ live' = live /\ Holding(heap', live) /\ SameWords(heap.mem, heap'.mem, live, DOMAIN live)
           \/ \E b : /\ live' = With(live, b, WordsOf(bytes)) /\ Obtained(heap, live, b, heap', live')
                     /\ \A i \in 1 .. WordsOf(bytes) : heap'.mem[b + i - 1] = Datum(0)
<1> DEFINE got == MallocOp(heap, bytes)
<1>1. CASE got.bp = NULL
  <2>1. heap' = got.heap /\ live' = live  BY <1>1 DEF Calloc
  <2>2. got = MallocOp(heap, bytes)  OBVIOUS
  <2> HIDE DEF got
  <2>3. Holding(got.heap, live) /\ Untouched(heap.mem, got.heap.mem, DOMAIN live)  BY <1>1, <2>2, NothingObtained
  <2>4. SameWords(heap.mem, got.heap.mem, live, DOMAIN live)  BY <2>3, WordsKept
  <2> QED  BY <2>1, <2>3, <2>4
<1>2. CASE got.bp # NULL
  <2>1. heap' = Clear(got.heap, got.bp, WordsOf(bytes)) /\ live' = With(live, got.bp, WordsOf(bytes))
    BY <1>2 DEF Calloc
  <2>2. got = MallocOp(heap, bytes)  OBVIOUS
  <2> HIDE DEF got
  <2>3. /\ Obtained(heap, live, got.bp, heap', live')
        /\ \A i \in 1 .. WordsOf(bytes) : heap'.mem[got.bp + i - 1] = Datum(0)
    BY <1>2, <2>1, <2>2, BlockObtained
  <2> QED  BY <2>1, <2>3
<1> QED  BY <1>1, <1>2

\* realloc gives nothing and keeps the block, or moves it.
LEMMA ReallocCases ==
    ASSUME Holding(heap, live), NEW p \in DOMAIN live, NEW size \in Nat, Realloc(p, size)
    PROVE  \/ /\ live' = live /\ Holding(heap', live) /\ SameWords(heap.mem, heap'.mem, live, DOMAIN live)
           \/ \E b : /\ live' = With(Without(live, p), b, WordsOf(size))
                     /\ Moved(heap, live, p, WordsOf(size), b, heap', live')
<1> DEFINE got == MallocOp(heap, size)
           w == WordsOf(size)
           kept == SetMin({live[p], w})
<1>1. CASE got.bp = NULL
  <2>1. heap' = got.heap /\ live' = live  BY <1>1 DEF Realloc
  <2>2. got = MallocOp(heap, size)  OBVIOUS
  <2> HIDE DEF got
  <2>3. Holding(got.heap, live) /\ Untouched(heap.mem, got.heap.mem, DOMAIN live)  BY <1>1, <2>2, NothingObtained
  <2>4. SameWords(heap.mem, got.heap.mem, live, DOMAIN live)  BY <2>3, WordsKept
  <2> QED  BY <2>1, <2>3, <2>4
<1>2. CASE got.bp # NULL
  <2>1. heap' = Fill(Move(got.heap, got.bp, p, w), got.bp, kept + 1, w) /\ live' = With(Without(live, p), got.bp, w)
    BY <1>2 DEF Realloc
  <2>2. got = MallocOp(heap, size) /\ w = WordsOf(size) /\ kept = SetMin({live[p], w})  OBVIOUS
  <2> HIDE DEF got, w, kept
  <2>3. Moved(heap, live, p, w, got.bp, heap', live')  BY <1>2, <2>1, <2>2, BlockMoved
  <2> QED  BY <2>1, <2>2, <2>3
<1> QED  BY <1>1, <1>2

\* free takes its block away and leaves the others as they are.
LEMMA FreeCases ==
    ASSUME Holding(heap, live), NEW p \in DOMAIN live, Free(p)
    PROVE  /\ live' = Without(live, p) /\ Holding(heap', live')
           /\ SameWords(heap.mem, heap'.mem, live, DOMAIN live \ {p})
<1>1. heap' = FreeOp(heap, p) /\ live' = Without(live, p)  BY DEF Free
<1>2. PICK S : HeapOf(heap, S, live)  BY DEF Holding
<1>3. PICK T : HeapOf(heap', T, live') /\ Untouched(heap.mem, heap'.mem, DOMAIN live \ {p})
  BY <1>1, <1>2, FreedHolds
<1>4. SameWords(heap.mem, heap'.mem, live, DOMAIN live \ {p})  BY <1>3, WordsKept
<1> QED  BY <1>1, <1>3, <1>4 DEF Holding

\* Every call keeps the invariant.
LEMMA NextHolds == IInv /\ [Next]_vars => IInv'
<1> SUFFICES ASSUME IInv, [Next]_vars PROVE IInv'  OBVIOUS
<1>1. Holding(heap, live) /\ crashed \in BOOLEAN /\ Sizes \subseteq Nat  BY MmAssumption DEF IInv
<1>2. ASSUME NEW size \in Sizes, Malloc(size) PROVE IInv'
  <2>1. Holding(heap', live')  BY <1>1, <1>2, MallocCases DEF Obtained
  <2>2. crashed' \in BOOLEAN  BY <1>1, <1>2 DEF Malloc
  <2> QED  BY <2>1, <2>2 DEF IInv
<1>3. ASSUME NEW size \in Sizes, Calloc(size) PROVE IInv'
  <2>1. Holding(heap', live')  BY <1>1, <1>3, CallocCases DEF Obtained
  <2>2. crashed' \in BOOLEAN
    <3>1. crashed' = (size > 0) \/ crashed' = crashed  BY <1>3, Zenon DEF Calloc
    <3>2. (size > 0) \in BOOLEAN  OBVIOUS
    <3> QED  BY <1>1, <3>1, <3>2, Zenon
  <2> QED  BY <2>1, <2>2 DEF IInv
<1>4. ASSUME NEW p \in DOMAIN live, Free(p) PROVE IInv'
  <2>1. Holding(heap', live')  BY <1>1, <1>4, FreeCases
  <2>2. crashed' \in BOOLEAN  BY <1>1, <1>4 DEF Free
  <2> QED  BY <2>1, <2>2 DEF IInv
<1>5. ASSUME NEW p \in DOMAIN live, NEW size \in Sizes, Realloc(p, size) PROVE IInv'
  <2>1. Holding(heap', live')  BY <1>1, <1>5, ReallocCases DEF Moved
  <2>2. crashed' \in BOOLEAN  BY <1>1, <1>5 DEF Realloc
  <2> QED  BY <2>1, <2>2 DEF IInv
<1>6. CASE UNCHANGED vars  BY <1>1, <1>6 DEF vars, IInv
<1> QED  BY <1>2, <1>3, <1>4, <1>5, <1>6 DEF Next

\* The invariant holds.
LEMMA AlwaysHolds == Spec => []IInv
BY InitHolds, NextHolds, PTL DEF Spec

\* A heap in use has blocks.
LEMMA UsedHasBlocks ==
    ASSUME IInv, Ready
    PROVE  \E S : HeapOf(heap, S, live)
BY DEF IInv, Holding, Unused, Ready

---------------------------------------------------------------------------
(* What holds in every state *)

\* The heap's words, bounds, heads and blocks given out are of their types.
LEMMA TypesHold == IInv => TypeOK
<1> SUFFICES ASSUME IInv PROVE TypeOK  OBVIOUS
<1>1. heap \in HeapRecords /\ crashed \in BOOLEAN
  BY DEF IInv, Holding, Unused, HeapOf, Consistent, Good
<1>2. \A p \in DOMAIN live : p \in Lo .. Hi /\ live[p] \in 1 .. MaxHeap  BY HeldApart DEF IInv
<1> QED  BY <1>1, <1>2 DEF TypeOK, HeapRecords, Mems, Pointers

\* The heap is consistent as mm_checkheap wants it after any calls of malloc,
\* free, realloc and calloc, for every heap size and every request.
THEOREM HeapStaysConsistent == Spec => []HeapConsistent
<1>1. IInv => HeapTiled
  <2> SUFFICES ASSUME IInv, Ready PROVE HeapTiled  BY DEF HeapTiled
  <2>1. PICK S : HeapOf(heap, S, live)  BY UsedHasBlocks
  <2> DEFINE m == heap.mem
             F == FreeOf(m, S)
  <2>2. Good(heap, S, F) /\ NoTwoFree(m, S)  BY <2>1 DEF HeapOf, Consistent
  <2>3. Blocks(heap) = S \cup {heap.brk} /\ RealBlocks(heap) = S /\ FreeBlocks(heap) = F
    BY <2>2, BlocksAreTiles, BlocksOfHeap
  <2>4. \A b \in S : IsBlock(m, b)  BY <2>2 DEF Good, Tiles
  <2>5. m[HeaderPtr(heap.brk)] = Tag(0, 1)  BY <2>2 DEF Good, HeaderPtr
  <2>6. ASSUME NEW b \in S
        PROVE  /\ b % 2 = 0 /\ m[HeaderPtr(b)] = m[FooterPtr(heap, b)] /\ BlkSize(heap, b) >= MinBlkSize
               /\ b \in F => NextBlk(heap, b) \notin F
    <3>1. b % 2 = 0 /\ m[b - 1] = m[b + Sz(m, b) - 2] /\ Sz(m, b) >= 6  BY <2>4 DEF IsBlock
    <3>2. b \in F => b + Sz(m, b) \notin F  BY <2>2 DEF NoTwoFree, FreeOf
    <3> QED  BY <3>1, <3>2 DEF HeaderPtr, FooterPtr, BlkSize, NextBlk, GetSize, Sz, MinBlkSize
  <2> HIDE DEF F
  <2> QED  BY <2>3, <2>5, <2>6 DEF HeapTiled
<1> QED  BY <1>1, TypesHold, AlwaysHolds, PTL DEF HeapConsistent

\* No call loses a block or gives one twice: the blocks marked allocated are
\* those the program holds, and each has room for what was asked.
THEOREM AllocatedStaysLive == Spec => []AllocatedIsLive
<1>1. IInv => AllocatedIsLive
  <2> SUFFICES ASSUME IInv, Ready PROVE AllocatedIsLive  BY DEF AllocatedIsLive
  <2>1. PICK S : HeapOf(heap, S, live)  BY UsedHasBlocks
  <2>2. /\ Good(heap, S, FreeOf(heap.mem, S)) /\ AllocOf(heap.mem, S) = DOMAIN live
        /\ \A p \in DOMAIN live : live[p] <= Sz(heap.mem, p) - 2
    BY <2>1 DEF HeapOf, Consistent
  <2>3. AllocatedBlocks(heap) = DOMAIN live /\ \A x : BlkSize(heap, x) = Sz(heap.mem, x)  BY <2>2, BlocksOfHeap
  <2> QED  BY <2>2, <2>3 DEF AllocatedIsLive
<1> QED  BY <1>1, AlwaysHolds, PTL

\* Each free list holds the free blocks of its sizes and nothing else, each
\* once, linked both ways.
THEOREM ListsStayFreeBlocks == Spec => []ListsAreFreeBlocks
<1>1. IInv => ListsAreFreeBlocks
  <2> SUFFICES ASSUME IInv, Ready, NEW i \in Lists, NEW node, node = Node(heap, i),
                      NEW nodes, nodes = {n \in 0 .. MaxNodes : node[n] # NULL}
               PROVE  /\ {node[n] : n \in nodes} = {bp \in FreeBlocks(heap) : ListIndex(BlkSize(heap, bp)) = i}
                      /\ \A m, n \in nodes : node[m] = node[n] => m = n
                      /\ \A n \in nodes : PredPtr(heap, node[n]) = IF n = 0 THEN NULL ELSE node[n - 1]
    BY DEF ListsAreFreeBlocks
  <2>1. PICK S : HeapOf(heap, S, live)  BY UsedHasBlocks
  <2> DEFINE m == heap.mem
             F == FreeOf(m, S)
  <2>2. Good(heap, S, F)  BY <2>1 DEF HeapOf, Consistent
  <2>3. FreeBlocks(heap) = F /\ \A x : BlkSize(heap, x) = Sz(m, x)  BY <2>2, BlocksOfHeap
  <2>4. \A b \in F : Index(m)[b] = ListIndex(BlkSize(heap, b))  BY <2>2, GoodFacts DEF Good
  <2> HIDE DEF F
  <2>5. ListedOnce(heap, F, i, node)
    <3>1. IsWalk(heap, F, i, node)  BY <2>2, NodeWalks
    <3> QED  BY <2>2, <3>1, WalkListsOnce
  <2>6. {node[n] : n \in nodes} = {bp \in F : ListIndex(BlkSize(heap, bp)) = i}
    <3>1. \A n \in nodes : node[n] \in F /\ ListIndex(BlkSize(heap, node[n])) = i  BY <2>4, <2>5 DEF ListedOnce
    <3>2. \A b \in F : ListIndex(BlkSize(heap, b)) = i => \E n \in nodes : node[n] = b
      <4>1. NULL \notin F  BY <2>2, GoodFacts
      <4> QED  BY <2>4, <2>5, <4>1 DEF ListedOnce
    <3> QED  BY <3>1, <3>2
  <2>7. \A x, y \in nodes : node[x] = node[y] => x = y  BY <2>5 DEF ListedOnce
  <2>8. \A n \in nodes : PredPtr(heap, node[n]) = IF n = 0 THEN NULL ELSE node[n - 1]
    BY <2>5 DEF ListedOnce, PredPtr, Pd
  <2> QED  BY <2>3, <2>6, <2>7, <2>8
<1> QED  BY <1>1, AlwaysHolds, PTL

\* malloc grows the heap only when no free block fits, and fails only when the
\* heap cannot grow either.
THEOREM WhatFitsIsServed == Spec => []ServesWhatFits
<1>1. IInv => ServesWhatFits
  <2> SUFFICES ASSUME IInv, Ready, NEW size \in Sizes \ {0}, NEW got, got = MallocOp(heap, size),
                      NEW asize, asize = AdjustedSize(size),
                      got.heap.brk > heap.brk \/ got.bp = NULL
               PROVE  /\ \A bp \in FreeBlocks(heap) : BlkSize(heap, bp) < asize
                      /\ got.bp = NULL => ~CanGrow(heap, GrowBy(asize))
    BY DEF ServesWhatFits
  <2>1. PICK S : HeapOf(heap, S, live)  BY UsedHasBlocks
  <2>2. Consistent(heap, S) /\ Good(heap, S, FreeOf(heap.mem, S))  BY <2>1 DEF HeapOf, Consistent
  <2>3. got = Allocate(heap, size)  BY DEF MallocOp, Ready
  <2>4. size \in Nat  BY MmAssumption
  <2>5. Gives(heap, S, asize, got)  BY <2>2, <2>3, <2>4, AllocateGives
  <2>6. got.bp = NULL \/ got.heap.brk # heap.brk
    <3>1. heap.brk \in Int  BY <2>2, Bounds DEF Good, HeapRecords
    <3> QED  BY <3>1
  <2>7. /\ got.bp = NULL => ~CanGrow(heap, GrowBy(asize))
        /\ \A b \in FreeOf(heap.mem, S) : Sz(heap.mem, b) < asize
    BY <2>5, <2>6 DEF Gives
  <2>8. FreeBlocks(heap) = FreeOf(heap.mem, S) /\ \A x : BlkSize(heap, x) = Sz(heap.mem, x)  BY <2>2, BlocksOfHeap
  <2> QED  BY <2>7, <2>8
<1> QED  BY <1>1, AlwaysHolds, PTL

---------------------------------------------------------------------------
(* mm.c is an allocator *)

\* Contents, of any heap.
WordsHeld(h, f) == [p \in DOMAIN f |-> [i \in 1 .. f[p] |-> h.mem[p + i - 1]]]

\* Contents are these words, before and after a step.
LEMMA ContentsAreWords == Contents = WordsHeld(heap, live) /\ Contents' = WordsHeld(heap', live')
BY DEF Contents, WordsHeld

\* Where the contents of blocks are.
Extents(c, f) ==
    /\ DOMAIN c = DOMAIN f
    /\ \A p \in DOMAIN f : /\ p % 2 = 0 /\ A!Extent(p, c[p]) = p .. p + f[p] - 1
                           /\ A!Extent(p, c[p]) \subseteq Lo .. Hi /\ DOMAIN c[p] = 1 .. f[p]

\* The blocks' words are in the heap, aligned, and overlap nowhere.
LEMMA WordsAreApart ==
    ASSUME NEW h, NEW f, Holding(h, f), NEW c, c = WordsHeld(h, f)
    PROVE  /\ Extents(c, f) /\ \A p \in DOMAIN f : \A i \in 1 .. f[p] : c[p][i] = h.mem[p + i - 1]
           /\ A!Disjoint(c)
<1>1. DOMAIN c = DOMAIN f  BY DEF WordsHeld
<1>2. ASSUME NEW p \in DOMAIN f
      PROVE  /\ p % 2 = 0 /\ A!Extent(p, c[p]) = p .. p + f[p] - 1
             /\ A!Extent(p, c[p]) \subseteq Lo .. Hi /\ DOMAIN c[p] = 1 .. f[p]
             /\ \A i \in 1 .. f[p] : c[p][i] = h.mem[p + i - 1]
  <2>1. p \in Lo .. Hi /\ p % 2 = 0 /\ f[p] \in 1 .. MaxHeap /\ p + f[p] - 1 <= Hi  BY HeldApart
  <2> DEFINE n == f[p]
             s == [i \in 1 .. n |-> h.mem[p + i - 1]]
  <2>2. c[p] = s  BY DEF WordsHeld
  <2>3. n \in Nat  BY <2>1, Bounds
  <2>4. DOMAIN s = 1 .. n /\ \A i \in 1 .. n : s[i] = h.mem[p + i - 1]  OBVIOUS
  <2> HIDE DEF n
  <2>5. Len(s) = n  BY <2>3
  <2> HIDE DEF s
  <2>6. A!Extent(p, c[p]) = p .. p + Len(c[p]) - 1  BY Zenon DEF A!Extent
  <2>7. p .. p + n - 1 \subseteq Lo .. Hi
    <3>1. p + n - 1 <= Hi /\ p \in Lo .. Hi  BY <2>1 DEF n
    <3> QED  BY <2>3, <3>1, Bounds
  <2> QED  BY <2>1, <2>2, <2>4, <2>5, <2>6, <2>7 DEF n
<1>3. A!Disjoint(c)
  <2>1. ASSUME NEW p \in DOMAIN f, NEW q \in DOMAIN f, p # q
        PROVE  A!Extent(p, c[p]) \cap A!Extent(q, c[q]) = {}
    <3>1. p + f[p] <= q \/ q + f[q] <= p  BY <2>1, HeldApart
    <3>2. p \in Int /\ q \in Int /\ f[p] \in Int /\ f[q] \in Int  BY HeldApart, Bounds
    <3>3. (p .. p + f[p] - 1) \cap (q .. q + f[q] - 1) = {}  BY <3>1, <3>2
    <3> QED  BY <1>2, <3>3
  <2> QED  BY <1>1, <2>1, Zenon DEF A!Disjoint
<1> QED  BY <1>1, <1>2, <1>3 DEF Extents

\* Blocks with the same words have the same contents.
LEMMA SameContents ==
    ASSUME NEW h, NEW f, NEW g, NEW e, NEW D, D \subseteq DOMAIN f, D \subseteq DOMAIN e,
           \A q \in D : e[q] = f[q], SameWords(h.mem, g.mem, f, D), NEW q \in D
    PROVE  WordsHeld(g, e)[q] = WordsHeld(h, f)[q]
<1>1. WordsHeld(g, e)[q] = [i \in 1 .. f[q] |-> g.mem[q + i - 1]]  BY DEF WordsHeld
<1>2. WordsHeld(h, f)[q] = [i \in 1 .. f[q] |-> h.mem[q + i - 1]]  BY DEF WordsHeld
<1>3. \A i \in 1 .. f[q] : g.mem[q + i - 1] = h.mem[q + i - 1]  BY DEF SameWords
<1> QED  BY <1>1, <1>2, <1>3

\* A block that joins the program's, when those in gone leave.
LEMMA BlockAppears ==
    ASSUME Holding(heap, live), Holding(heap', live'), NEW b, NEW gone, b \notin DOMAIN live,
           DOMAIN live' = (DOMAIN live \ gone) \cup {b}, \A q \in DOMAIN live \ gone : live'[q] = live[q],
           SameWords(heap.mem, heap'.mem, live, DOMAIN live \ gone)
    PROVE  A!Appears(b, gone)
<1> DEFINE c == Contents
           d == Contents'
           D == DOMAIN live \ gone
<1>1. c = WordsHeld(heap, live) /\ d = WordsHeld(heap', live')  BY ContentsAreWords
<1> HIDE DEF c, d
<1>2. DOMAIN c = DOMAIN live /\ DOMAIN d = DOMAIN live'
  BY <1>1, WordsAreApart DEF Extents
<1>3. /\ A!Disjoint(d) /\ b % 2 = 0 /\ A!Extent(b, d[b]) \subseteq Lo .. Hi
  BY <1>1, WordsAreApart DEF Extents
<1>4. \A q \in D : d[q] = c[q]
  <2>1. D \subseteq DOMAIN live /\ D \subseteq DOMAIN live' /\ \A q \in D : live'[q] = live[q]  OBVIOUS
  <2>2. SameWords(heap.mem, heap'.mem, live, D)  OBVIOUS
  <2> HIDE DEF D
  <2> QED  BY <1>1, <2>1, <2>2, SameContents
<1>5. b \notin DOMAIN c /\ DOMAIN d = (DOMAIN c \ gone) \cup {b}  BY <1>2
<1>6. \A q \in DOMAIN c \ (gone \cup {b}) : d[q] = c[q]  BY <1>2, <1>4
<1> QED  BY <1>3, <1>5, <1>6, Zenon DEF A!Appears, c, d

\* A call that gives nothing is not noticed.
LEMMA NothingAppears ==
    ASSUME live' = live, SameWords(heap.mem, heap'.mem, live, DOMAIN live)
    PROVE  Contents' = Contents
<1> DEFINE c == WordsHeld(heap, live)
           d == WordsHeld(heap', live)
           D == DOMAIN live
<1>1. \A q \in D : d[q] = c[q]
  <2>1. D \subseteq DOMAIN live /\ \A q \in D : live[q] = live[q]  OBVIOUS
  <2> HIDE DEF D
  <2> QED  BY <2>1, SameContents DEF D
<1>2. c = [q \in D |-> c[q]] /\ d = [q \in D |-> d[q]]  BY DEF WordsHeld
<1>3. Contents = c /\ Contents' = d  BY ContentsAreWords
<1> HIDE DEF c, d, D
<1> QED  BY <1>1, <1>2, <1>3

\* A block given out appears in the allocator.
LEMMA ObtainedAppears ==
    ASSUME Holding(heap, live), NEW b, NEW w, live' = With(live, b, w), Obtained(heap, live, b, heap', live')
    PROVE  A!Appears(b, {}) /\ b \in DOMAIN Contents' /\ live'[b] = w
<1>1. Extends(live, b, w, live')  BY WithIs
<1>2. Holding(heap', live') /\ b \notin DOMAIN live /\ SameWords(heap.mem, heap'.mem, live, DOMAIN live)
  BY DEF Obtained
<1>3. /\ DOMAIN live \ {} = DOMAIN live /\ DOMAIN live' = DOMAIN live \cup {b} /\ live'[b] = w
      /\ \A q \in DOMAIN live : live'[q] = live[q]
  BY <1>1, <1>2 DEF Extends
<1> DEFINE gone == {}
<1>4. DOMAIN live' = (DOMAIN live \ gone) \cup {b} /\ \A q \in DOMAIN live \ gone : live'[q] = live[q]
  BY <1>3
<1>5. SameWords(heap.mem, heap'.mem, live, DOMAIN live \ gone)  BY <1>2, <1>3
<1>6. A!Appears(b, gone)
  <2> HIDE DEF gone
  <2> QED  BY <1>2, <1>4, <1>5, BlockAppears
<1>7. b \in DOMAIN Contents'  BY <1>3, ContentsAreWords DEF WordsHeld
<1> QED  BY <1>3, <1>6, <1>7

\* malloc is the allocator's, or fails.
LEMMA MallocAllocates ==
    ASSUME Holding(heap, live), NEW size \in Nat, Malloc(size)
    PROVE  A!Malloc \/ Contents' = Contents
<1>1. CASE live' = live /\ SameWords(heap.mem, heap'.mem, live, DOMAIN live)  BY <1>1, NothingAppears
<1>2. ASSUME NEW b, live' = With(live, b, WordsOf(size)), Obtained(heap, live, b, heap', live') PROVE A!Malloc
  <2>1. A!Appears(b, {}) /\ b \in DOMAIN Contents'  BY <1>2, ObtainedAppears
  <2> QED  BY <2>1, Zenon DEF A!Malloc
<1> QED  BY <1>1, <1>2, MallocCases

\* calloc is the allocator's, with words that are 0, or fails.
LEMMA CallocAllocates ==
    ASSUME Holding(heap, live), NEW bytes \in Nat, Calloc(bytes)
    PROVE  A!Calloc \/ Contents' = Contents
<1>1. CASE live' = live /\ SameWords(heap.mem, heap'.mem, live, DOMAIN live)  BY <1>1, NothingAppears
<1>2. ASSUME NEW b, live' = With(live, b, WordsOf(bytes)), Obtained(heap, live, b, heap', live'),
             \A i \in 1 .. WordsOf(bytes) : heap'.mem[b + i - 1] = Datum(0)
      PROVE  A!Calloc
  <2>1. A!Appears(b, {}) /\ b \in DOMAIN Contents' /\ live'[b] = WordsOf(bytes)  BY <1>2, ObtainedAppears
  <2>2. \A i \in DOMAIN Contents'[b] : Contents'[b][i] = Datum(0)
    <3> DEFINE d == Contents'
    <3>1. d = WordsHeld(heap', live') /\ Holding(heap', live')  BY <1>2, ContentsAreWords DEF Obtained
    <3>2. b \in DOMAIN live'
      <4>1. Extends(live, b, WordsOf(bytes), live')  BY <1>2, WithIs
      <4> QED  BY <4>1 DEF Extends
    <3> HIDE DEF d
    <3>3. DOMAIN d[b] = 1 .. live'[b] /\ \A i \in 1 .. live'[b] : d[b][i] = heap'.mem[b + i - 1]
      BY <3>1, <3>2, WordsAreApart DEF Extents
    <3>4. \A i \in DOMAIN d[b] : d[b][i] = Datum(0)  BY <1>2, <2>1, <3>3
    <3> QED  BY <3>4 DEF d
  <2> QED  BY <2>1, <2>2, Zenon DEF A!Calloc
<1> QED  BY <1>1, <1>2, CallocCases

\* realloc is the allocator's: the words that fit are kept. Or it fails.
LEMMA ReallocAllocates ==
    ASSUME Holding(heap, live), NEW p \in DOMAIN live, NEW size \in Nat, Realloc(p, size)
    PROVE  A!Realloc \/ Contents' = Contents
<1> DEFINE w == WordsOf(size)
<1> HIDE DEF w
<1>1. CASE live' = live /\ SameWords(heap.mem, heap'.mem, live, DOMAIN live)  BY <1>1, NothingAppears
<1>2. ASSUME NEW b, live' = With(Without(live, p), b, w), Moved(heap, live, p, w, b, heap', live')
      PROVE  A!Realloc
  <2>1. /\ Holding(heap', live') /\ b \notin DOMAIN live /\ SameWords(heap.mem, heap'.mem, live, DOMAIN live \ {p})
        /\ \A i \in 1 .. live[p] : i <= w => heap'.mem[b + i - 1] = heap.mem[p + i - 1]
    BY <1>2 DEF Moved
  <2>2. /\ DOMAIN live' = (DOMAIN live \ {p}) \cup {b} /\ live'[b] = w
        /\ \A q \in DOMAIN live \ {p} : live'[q] = live[q]
    <3> DEFINE c == Without(live, p)
    <3>1. live' = With(c, b, w)  BY <1>2
    <3>2. Lessens(live, p, c)  BY WithoutIs
    <3> HIDE DEF c
    <3>3. Extends(c, b, w, live')  BY <3>1, WithIs
    <3> QED  BY <2>1, <3>2, <3>3 DEF Extends, Lessens
  <2>3. A!Appears(b, {p})
    <3> DEFINE gone == {p}
    <3>1. DOMAIN live' = (DOMAIN live \ gone) \cup {b} /\ \A q \in DOMAIN live \ gone : live'[q] = live[q]
      BY <2>2
    <3>2. SameWords(heap.mem, heap'.mem, live, DOMAIN live \ gone)  BY <2>1
    <3> HIDE DEF gone
    <3>3. A!Appears(b, gone)  BY <2>1, <3>1, <3>2, BlockAppears
    <3> QED  BY <3>3 DEF gone
  <2>4. p \in DOMAIN Contents /\ b \in DOMAIN Contents'  BY <2>2, ContentsAreWords DEF WordsHeld
  <2>5. \A i \in DOMAIN Contents[p] \cap DOMAIN Contents'[b] : Contents'[b][i] = Contents[p][i]
    <3> DEFINE c == Contents
               d == Contents'
    <3>1. c = WordsHeld(heap, live) /\ d = WordsHeld(heap', live')  BY ContentsAreWords
    <3> HIDE DEF c, d
    <3>2. DOMAIN c[p] = 1 .. live[p] /\ \A i \in 1 .. live[p] : c[p][i] = heap.mem[p + i - 1]
      BY <3>1, WordsAreApart DEF Extents
    <3>3. b \in DOMAIN live'  BY <2>2
    <3>4. DOMAIN d[b] = 1 .. w /\ \A i \in 1 .. w : d[b][i] = heap'.mem[b + i - 1]
      BY <2>1, <2>2, <3>1, <3>3, WordsAreApart DEF Extents
    <3>5. \A i \in 1 .. w : i <= w  BY Adjusted DEF w
    <3>6. \A i \in DOMAIN c[p] \cap DOMAIN d[b] : d[b][i] = c[p][i]  BY <2>1, <3>2, <3>4, <3>5
    <3> QED  BY <3>6 DEF c, d
  <2> QED  BY <2>3, <2>4, <2>5, Zenon DEF A!Realloc
<1>3. \/ live' = live /\ SameWords(heap.mem, heap'.mem, live, DOMAIN live)
      \/ \E b : live' = With(Without(live, p), b, w) /\ Moved(heap, live, p, w, b, heap', live')
  BY ReallocCases DEF w
<1> QED  BY <1>1, <1>2, <1>3

\* free is the allocator's.
LEMMA FreeAllocates ==
    ASSUME Holding(heap, live), NEW p \in DOMAIN live, Free(p)
    PROVE  A!Free
<1> DEFINE c == Contents
           d == Contents'
           D == DOMAIN live \ {p}
<1>1. /\ live' = Without(live, p) /\ Holding(heap', live')
      /\ SameWords(heap.mem, heap'.mem, live, D)
  BY FreeCases
<1>2. DOMAIN live' = D /\ \A q \in D : live'[q] = live[q]
  <2>1. Lessens(live, p, live')  BY <1>1, WithoutIs
  <2> QED  BY <2>1 DEF Lessens
<1>3. c = WordsHeld(heap, live) /\ d = WordsHeld(heap', live')  BY ContentsAreWords
<1>4. D \subseteq DOMAIN live  OBVIOUS
<1> HIDE DEF c, d
<1>5. DOMAIN c = DOMAIN live /\ DOMAIN d = DOMAIN live'  BY <1>3 DEF WordsHeld
<1>6. \A q \in DOMAIN d : d[q] = c[q]
  <2> HIDE DEF D
  <2> QED  BY <1>1, <1>2, <1>3, <1>4, <1>5, SameContents
<1>7. p \in DOMAIN c /\ DOMAIN d = DOMAIN c \ {p}  BY <1>2, <1>5
<1> QED  BY <1>6, <1>7, Zenon DEF A!Free, c, d

\* mm.c implements the allocator for every heap size and every set of
\* requests: blocks never overlap, no header, footer or link falls in what the
\* program wrote, calloc clears, and realloc keeps what fits.
THEOREM IsAllocator == Spec => ImplementsAllocator
<1>1. Init => A!Init
  <2> SUFFICES ASSUME Init PROVE Contents = << >>  BY Zenon DEF A!Init
  <2>1. live = << >>  BY DEF Init
  <2>2. DOMAIN live = {}  BY <2>1
  <2> QED  BY <2>2 DEF Contents
<1>2. IInv /\ [Next]_vars => [A!Next]_Contents
  <2> SUFFICES ASSUME IInv, [Next]_vars PROVE A!Next \/ Contents' = Contents  BY Zenon
  <2>1. Holding(heap, live) /\ Sizes \subseteq Nat  BY MmAssumption DEF IInv
  <2>2. ASSUME NEW size \in Sizes, Malloc(size) PROVE A!Malloc \/ Contents' = Contents  BY <2>1, <2>2, MallocAllocates
  <2>3. ASSUME NEW size \in Sizes, Calloc(size) PROVE A!Calloc \/ Contents' = Contents  BY <2>1, <2>3, CallocAllocates
  <2>4. ASSUME NEW p \in DOMAIN live, Free(p) PROVE A!Free  BY <2>1, <2>4, FreeAllocates
  <2>5. ASSUME NEW p \in DOMAIN live, NEW size \in Sizes, Realloc(p, size)
        PROVE  A!Realloc \/ Contents' = Contents
    BY <2>1, <2>5, ReallocAllocates
  <2>6. CASE UNCHANGED vars
    <3>1. heap' = heap /\ live' = live  BY <2>6 DEF vars
    <3>2. Contents' = Contents  BY <3>1 DEF Contents
    <3> QED  BY <3>2, Zenon
  <2>7. CASE Next
    <3>1. A!Malloc \/ A!Calloc \/ A!Realloc \/ A!Free \/ Contents' = Contents
      BY <2>2, <2>3, <2>4, <2>5, <2>7, Zenon DEF Next
    <3> QED  BY <3>1, Zenon DEF A!Next
  <2> QED  BY <2>6, <2>7, Zenon
<1> QED  BY <1>1, <1>2, AlwaysHolds, PTL DEF Spec, ImplementsAllocator, A!Spec
=============================================================================
