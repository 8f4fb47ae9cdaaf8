-------------------------------- MODULE Mm --------------------------------
(***************************************************************************)
(* The malloc package, malloc_lab/mm.c: a heap of boundary-tagged blocks   *)
(* with segregated, doubly linked free lists, first fit, immediate         *)
(* coalescing.  The heap is an array of 4-byte words, as in the code: a    *)
(* header, a footer, half a link and what the program wrote all live in    *)
(* the same words, so that one of them overwriting another would show.     *)
(* Addresses and block sizes count words (WSIZE = 1, DSIZE = 2,            *)
(* MIN_BLK_SIZE = 6); requests count bytes, as the callers do.             *)
(*                                                                         *)
(* The program that calls is modelled with it: it passes live pointers and *)
(* fills what malloc gives it before its next call.  Heap and requests are *)
(* less than 2^31 bytes: tags hold sizes in 32 bits and the list functions *)
(* take them as int.  So malloc's rounding and calloc's product, computed  *)
(* in size_t, do not wrap.                                                 *)
(***************************************************************************)
EXTENDS Powers, Integers, FiniteSets, Sequences

CONSTANTS ChunkSize,        \* words the heap grows by at least (32 in the code)
          NoOfSizeType,     \* number of free lists (12 in the code)
          MaxHeap,          \* words mem_sbrk can give in all
          Sizes             \* requests, in bytes

IntMax == 2147483647

ASSUME MmAssumption ==
    /\ ChunkSize \in Nat /\ ChunkSize % 2 = 0 /\ ChunkSize >= 6
    /\ NoOfSizeType \in Nat \ {0}
    /\ MaxHeap \in Nat /\ MaxHeap >= 4 /\ 4 * MaxHeap < IntMax
    /\ Sizes \subseteq Nat /\ \A size \in Sizes : size < IntMax - 16

VARIABLES heap,     \* the allocator's state, a record of
                    \*   mem: the words, brk: the first word beyond the heap,
                    \*   head: the heads of the free lists,
                    \*   listp: heap_listp
          live,     \* block given out and not freed -> words the program uses
          crashed   \* the process has been killed

vars == <<heap, live, crashed>>

NULL == 0
Lo == 2                         \* mem_heap_lo(), aligned and not NULL
Hi == Lo + MaxHeap - 1
Lists == 0 .. NoOfSizeType - 1
MinBlkSize == 6

\* What a word can hold.
Junk == <<"junk">>
Tag(size, alloc) == <<"tag", size, alloc>>
Half(ptr) == <<"ptr", ptr>>
Datum(i) == <<"data", i>>

SetMin(S) == CHOOSE m \in S : \A n \in S : m <= n
-----------------------------------------------------------------------------
(* Words, tags, neighbours and links. *)

GetSize(h, w) == h.mem[w][2]
GetAlloc(h, w) == h.mem[w][3]

HeaderPtr(bp) == bp - 1
FooterPtr(h, bp) == bp + GetSize(h, HeaderPtr(bp)) - 2
NextBlk(h, bp) == bp + GetSize(h, HeaderPtr(bp))
PrevBlk(h, bp) == bp - GetSize(h, bp - 2)
BlkSize(h, bp) == GetSize(h, HeaderPtr(bp))

PredPtr(h, bp) == h.mem[bp][2]
SuccPtr(h, bp) == h.mem[bp + 2][2]
SetPred(h, bp, ptr) == [h EXCEPT !.mem[bp] = Half(ptr), !.mem[bp + 1] = Half(ptr)]
SetSucc(h, bp, ptr) == [h EXCEPT !.mem[bp + 2] = Half(ptr), !.mem[bp + 3] = Half(ptr)]

\* Header and footer of the block at bp.
SetTags(h, bp, size, alloc) ==
    [h EXCEPT !.mem[HeaderPtr(bp)] = Tag(size, alloc),
              !.mem[bp + size - 2] = Tag(size, alloc)]

\* get_list_index_by_size: list i holds what is at most MinBlkSize * 2^i,
\* the last list all the rest.
ListIndex(size) ==
    SetMin({i \in Lists : size <= MinBlkSize * Pow2[i] \/ i = NoOfSizeType - 1})
-----------------------------------------------------------------------------
(* Free lists. *)

ListPushFront(h, bp) ==
    LET i    == ListIndex(BlkSize(h, bp))
        old  == h.head[i]
        back == IF old = NULL THEN h ELSE SetPred(h, old, bp)
    IN  [SetSucc(SetPred(back, bp, NULL), bp, old) EXCEPT !.head[i] = bp]

\* Mutant: the successor keeps its link to the block removed.
RemoveKeepsPred(h, bp) ==
    LET pred == PredPtr(h, bp) IN
    IF pred = NULL THEN [h EXCEPT !.head[ListIndex(BlkSize(h, bp))] = SuccPtr(h, bp)]
                   ELSE SetSucc(h, pred, SuccPtr(h, bp))

RemoveFromList(h, bp) ==
    LET i    == ListIndex(BlkSize(h, bp))
        pred == PredPtr(h, bp)
        succ == SuccPtr(h, bp)
        past == IF pred = NULL THEN [h EXCEPT !.head[i] = succ]
                               ELSE SetSucc(h, pred, succ)
    IN  IF succ = NULL THEN past ELSE SetPred(past, succ, pred)

\* No list has more nodes than the heap has room for blocks.
MaxNodes == MaxHeap \div MinBlkSize

\* The n-th node of list i, NULL beyond its end.
Node(h, i) ==
    LET node[n \in 0 .. MaxNodes] ==
            IF n = 0 THEN h.head[i]
            ELSE IF node[n - 1] = NULL THEN NULL ELSE SuccPtr(h, node[n - 1])
    IN  node

FindFitFromList(h, asize, i) ==
    LET node == Node(h, i)
        fits == {n \in 0 .. MaxNodes : node[n] # NULL /\ asize <= BlkSize(h, node[n])}
    IN  IF fits = {} THEN NULL ELSE node[SetMin(fits)]

\* Mutant: lists of larger sizes are not searched.
FindFitOneList(h, asize) == FindFitFromList(h, asize, ListIndex(asize))

FindFit(h, asize) ==
    LET found == {i \in ListIndex(asize) .. NoOfSizeType - 1 :
                      FindFitFromList(h, asize, i) # NULL}
    IN  IF found = {} THEN NULL ELSE FindFitFromList(h, asize, SetMin(found))
-----------------------------------------------------------------------------
(* Blocks.  Coalesce and ExtendHeap return the heap and a block pointer. *)

\* bp with those of its neighbours that are free.
Merge(h, bp, prevFree, nextFree) ==
    LET prev  == PrevBlk(h, bp)
        next  == NextBlk(h, bp)
        h1    == IF nextFree THEN RemoveFromList(h, next) ELSE h
        h2    == IF prevFree THEN RemoveFromList(h1, prev) ELSE h1
        start == IF prevFree THEN prev ELSE bp
        size  == BlkSize(h, bp) + (IF nextFree THEN BlkSize(h, next) ELSE 0)
                                + (IF prevFree THEN BlkSize(h, prev) ELSE 0)
    IN  [heap |-> ListPushFront(SetTags(h2, start, size, 0), start), bp |-> start]

NextFree(h, bp) == GetAlloc(h, HeaderPtr(NextBlk(h, bp))) = 0

\* Mutant: the block before is not looked at.
CoalesceForward(h, bp) == Merge(h, bp, FALSE, NextFree(h, bp))

Coalesce(h, bp) ==
    Merge(h, bp, GetAlloc(h, FooterPtr(h, PrevBlk(h, bp))) = 0, NextFree(h, bp))

\* mem_sbrk gives the words from brk on or fails and gives nothing.
CanGrow(h, size) == h.brk + size <= Lo + MaxHeap

ExtendHeap(h, words) ==
    LET size  == IF words % 2 = 1 THEN words + 1 ELSE words
        bp    == h.brk
        grown == SetTags([h EXCEPT !.brk = @ + size], bp, size, 0)
    IN  IF CanGrow(h, size)
        THEN Coalesce([grown EXCEPT !.mem[HeaderPtr(bp + size)] = Tag(0, 1)], bp)
        ELSE [heap |-> h, bp |-> NULL]

\* The remainder becomes a block when it is large enough for one.
Place(h, bp, asize) ==
    LET free == BlkSize(h, bp)
        h1   == RemoveFromList(h, bp)
        rest == bp + asize
    IN  IF free - asize >= MinBlkSize
        THEN ListPushFront(SetTags(SetTags(h1, bp, asize, 1), rest, free - asize, 0), rest)
        ELSE SetTags(h1, bp, free, 1)

\* Padding, the prologue's two tags, the epilogue, and a first free block.
MmInit(h) ==
    LET w == h.brk IN
    ExtendHeap(
        [mem   |-> [h.mem EXCEPT ![w + 1] = Tag(2, 1), ![w + 2] = Tag(2, 1),
                                 ![w + 3] = Tag(0, 1)],
         brk   |-> w + 4,
         head  |-> [i \in Lists |-> NULL],
         listp |-> w + 2],
        ChunkSize).heap
-----------------------------------------------------------------------------
(* The package's functions. *)

\* Room for the tags, rounded up to a double word; in words.
AdjustedSize(size) ==
    IF size <= 16 THEN MinBlkSize ELSE 2 * ((size + 15) \div 8)

GrowBy(asize) == IF asize > ChunkSize THEN asize ELSE ChunkSize

Allocate(h, size) ==
    LET asize == AdjustedSize(size)
        fit   == FindFit(h, asize)
        got   == IF fit # NULL THEN [heap |-> h, bp |-> fit]
                               ELSE ExtendHeap(h, GrowBy(asize))
    IN  IF got.bp = NULL THEN got
        ELSE [heap |-> Place(got.heap, got.bp, asize), bp |-> got.bp]

\* Mutant: 0 bytes are allocated like any other number.
MallocZero(h, size) == Allocate(IF h.listp = NULL THEN MmInit(h) ELSE h, size)

MallocOp(h, size) ==
    LET h1 == IF h.listp = NULL THEN MmInit(h) ELSE h IN
    IF size = 0 THEN [heap |-> h1, bp |-> NULL] ELSE Allocate(h1, size)

\* What a freed block held is indeterminate from then on.
Forget(h, bp) ==
    [h EXCEPT !.mem = [w \in DOMAIN @ |->
        IF w \in bp .. bp + BlkSize(h, bp) - 3 THEN Junk ELSE @[w]]]

FreeOp(h, bp) == Coalesce(SetTags(Forget(h, bp), bp, BlkSize(h, bp), 0), bp).heap

\* memcpy of as many bytes as realloc is asked for, or as the old block has,
\* its tags included.
CopiedWords(h, old, words) == IF words < BlkSize(h, old) THEN words ELSE BlkSize(h, old)

CopyOp(h, new, old, words) ==
    LET n == CopiedWords(h, old, words) IN
    [h EXCEPT !.mem = [w \in DOMAIN @ |->
        IF w \in new .. new + n - 1 THEN @[old + (w - new)] ELSE @[w]]]

\* Mutant: the old block is not freed.
MoveKeepsOld(h, new, old, words) == CopyOp(h, new, old, words)

\* Mutant: the old block is freed before it is copied.
MoveFreesFirst(h, new, old, words) == CopyOp(FreeOp(h, old), new, old, words)

Move(h, new, old, words) == FreeOp(CopyOp(h, new, old, words), old)

WordsOf(size) == (size + 3) \div 4

\* What the program does with words i >= from of the block.
Fill(h, bp, from, words) ==
    [h EXCEPT !.mem = [w \in DOMAIN @ |->
        IF w \in bp + from - 1 .. bp + words - 1 THEN Datum(w - bp + 1) ELSE @[w]]]

\* memset(newptr, 0, bytes)
Clear(h, bp, words) ==
    [h EXCEPT !.mem = [w \in DOMAIN @ |->
        IF w \in bp .. bp + words - 1 THEN Datum(0) ELSE @[w]]]

With(f, bp, words) == [p \in DOMAIN f \cup {bp} |-> IF p = bp THEN words ELSE f[p]]
Without(f, bp) == [p \in DOMAIN f \ {bp} |-> f[p]]
-----------------------------------------------------------------------------
Init ==
    /\ heap = [mem |-> [w \in Lo .. Hi |-> Junk], brk |-> Lo,
               head |-> [i \in Lists |-> NULL], listp |-> NULL]
    /\ live = << >>
    /\ crashed = FALSE

Malloc(size) ==
    LET got == MallocOp(heap, size) IN
    /\ ~crashed
    /\ IF got.bp = NULL
       THEN heap' = got.heap /\ live' = live
       ELSE /\ heap' = Fill(got.heap, got.bp, 1, WordsOf(size))
            /\ live' = With(live, got.bp, WordsOf(size))
    /\ UNCHANGED crashed

Free(p) ==
    /\ ~crashed
    /\ p \in DOMAIN live
    /\ heap' = FreeOp(heap, p)
    /\ live' = Without(live, p)
    /\ UNCHANGED crashed

\* realloc(NULL, size) is Malloc(size) and realloc(p, 0) is Free(p).
Realloc(p, size) ==
    LET got  == MallocOp(heap, size)
        kept == SetMin({live[p], WordsOf(size)})
    IN
    /\ ~crashed
    /\ p \in DOMAIN live
    /\ size > 0
    /\ IF got.bp = NULL
       THEN heap' = got.heap /\ live' = live
       ELSE /\ heap' = Fill(Move(got.heap, got.bp, p, WordsOf(size)),
                         got.bp, kept + 1, WordsOf(size))
            /\ live' = With(Without(live, p), got.bp, WordsOf(size))
    /\ UNCHANGED crashed

\* bytes is the product nmemb * size, which does not wrap.  The result of
\* malloc is cleared without a test for NULL.
Calloc(bytes) ==
    LET got == MallocOp(heap, bytes) IN
    /\ ~crashed
    /\ IF got.bp = NULL
       THEN heap' = got.heap /\ live' = live /\ crashed' = (bytes > 0)
       ELSE /\ heap' = Clear(got.heap, got.bp, WordsOf(bytes))
            /\ live' = With(live, got.bp, WordsOf(bytes))
            /\ UNCHANGED crashed

Next ==
    \/ \E size \in Sizes : Malloc(size) \/ Calloc(size)
    \/ \E p \in DOMAIN live : Free(p)
    \/ \E p \in DOMAIN live, size \in Sizes : Realloc(p, size)

Spec == Init /\ [][Next]_vars
-----------------------------------------------------------------------------
(* Properties. *)

Word == {Junk} \cup {Tag(s, a) : s \in 0 .. MaxHeap, a \in {0, 1}}
          \cup {Half(p) : p \in {NULL} \cup Lo .. Hi}
          \cup {Datum(i) : i \in 0 .. MaxHeap}

TypeOK ==
    /\ heap.mem \in [Lo .. Hi -> Word]
    /\ heap.brk \in Lo .. Hi + 1
    /\ heap.head \in [Lists -> {NULL} \cup Lo .. Hi]
    /\ heap.listp \in {NULL, Lo + 2}
    /\ DOMAIN live \subseteq Lo .. Hi /\ \A p \in DOMAIN live : live[p] \in 1 .. MaxHeap
    /\ crashed \in BOOLEAN

\* The blocks from the prologue on, as mm_checkheap walks them: the set of
\* block pointers, ending where the epilogue's header says size 0.
Blocks(h) ==
    LET next[n \in 0 .. MaxNodes + 1] ==
            IF n = 0 THEN NextBlk(h, h.listp)
            ELSE IF BlkSize(h, next[n - 1]) = 0 THEN next[n - 1]
            ELSE NextBlk(h, next[n - 1])
    IN  {next[n] : n \in 0 .. MaxNodes + 1}

RealBlocks(h) == {bp \in Blocks(h) : BlkSize(h, bp) > 0}
FreeBlocks(h) == {bp \in RealBlocks(h) : GetAlloc(h, HeaderPtr(bp)) = 0}
AllocatedBlocks(h) == {bp \in RealBlocks(h) : GetAlloc(h, HeaderPtr(bp)) = 1}

Ready == heap.listp # NULL

\* checkblock and the walk of mm_checkheap: whatever was split, merged and
\* extended before, the blocks follow each other from the prologue to an
\* epilogue that is the last word of the heap; headers match footers; no two
\* neighbours are both free.
HeapTiled ==
    LET free == FreeBlocks(heap) IN
    Ready =>
        /\ heap.mem[HeaderPtr(heap.brk)] = Tag(0, 1)
        /\ heap.brk \in Blocks(heap)
        /\ \A bp \in RealBlocks(heap) :
               /\ bp % 2 = 0
               /\ heap.mem[HeaderPtr(bp)] = heap.mem[FooterPtr(heap, bp)]
               /\ BlkSize(heap, bp) >= MinBlkSize
               /\ bp \in free => NextBlk(heap, bp) \notin free

\* The heap as mm_checkheap wants it, in words of the right kinds.
HeapConsistent == TypeOK /\ HeapTiled

\* check_one_list and the count of mm_checkheap: every free block is on
\* exactly the list of its size, once, and nothing else is on a list; links
\* point both ways.
ListsAreFreeBlocks ==
    LET free == FreeBlocks(heap) IN
    Ready => \A i \in Lists :
        LET node  == Node(heap, i)
            nodes == {n \in 0 .. MaxNodes : node[n] # NULL}
        IN  /\ {node[n] : n \in nodes}
                   = {bp \in free : ListIndex(BlkSize(heap, bp)) = i}
            /\ \A m, n \in nodes : node[m] = node[n] => m = n
            /\ \A n \in nodes :
                   PredPtr(heap, node[n]) = IF n = 0 THEN NULL ELSE node[n - 1]

\* No block is lost or given twice: what is marked allocated is what the
\* program holds, and each block has room for what was asked for.
AllocatedIsLive ==
    Ready =>
        /\ AllocatedBlocks(heap) = DOMAIN live
        /\ \A p \in DOMAIN live : live[p] <= BlkSize(heap, p) - 2

\* malloc grows the heap only when no free block fits, and fails only when
\* moreover the heap cannot grow: first fit, which begins at the list of the
\* size asked for, passes over no list that has a fitting block.
ServesWhatFits ==
    LET free == FreeBlocks(heap) IN
    Ready => \A size \in Sizes \ {0} :
        LET got   == MallocOp(heap, size)
            asize == AdjustedSize(size)
        IN  got.heap.brk > heap.brk \/ got.bp = NULL =>
                /\ \A bp \in free : BlkSize(heap, bp) < asize
                /\ got.bp = NULL => ~CanGrow(heap, GrowBy(asize))

\* The words the program holds, block by block.
Contents == [p \in DOMAIN live |-> [i \in 1 .. live[p] |-> heap.mem[p + i - 1]]]

A == INSTANCE Allocator WITH
        Addrs <- Lo .. Hi, Align <- 2, Zero <- Datum(0), blocks <- Contents

\* mm.c is an allocator: blocks never overlap, tags and links never fall in
\* what the program wrote, calloc clears and realloc keeps what fits.
ImplementsAllocator == A!Spec
=============================================================================
