# Verification of the CMU 15-213 lab programs

The repository holds the programs of six labs. They share nothing at run time.
Two of them are concurrent (the proxy, with threads and semaphores; the shell,
with processes and signals), one is a long-lived sequential data structure (the
malloc package), and three are pure computations (cache simulator, matrix
transposes, bit puzzles). This directory models all six; only the bomb, which is a
binary, is left. File names below are relative to `src/`.

## Inventory

| Component | State | Operations | What makes it correct |
|---|---|---|---|
| Shared buffer, `proxy_lab/sbuf.c` | `buf`, `front`, `rear`; semaphores `mutex`, `slots`, `items` | `sbuf_insert` (the accept loop), `sbuf_remove` (each worker) | a bounded FIFO: nothing lost, duplicated, overwritten or reordered; neither side blocks for ever |
| Object cache, `proxy_lab/cache.c` | linked list, `total_size`, `cache_cnt`, an age per node; static `read_cnt`, `r_mutex`, `w_mutex` | `read_cache` (`find_hit`, `get_hit`), `write_cache` (`remove_oldest`, `add_to_cache_head`) | readers exclude writers; what a hit returns was stored under that tag; totals match the list; LRU; requests end |
| Proxy, `proxy_lab/proxy.c` | descriptors, the pool's queue, each worker's locals | accept, read the request, answer from the cache or relay, store, close | a descriptor is closed once and not leaked; an answer reaches the client that asked; only whole answers are cached; every client is let go of |
| csapp, `proxy_lab/csapp.c` | `rio_t` buffers | `rio_readlineb`, `rio_read`, `Rio_writen`, `Open_clientfd_r` | each byte once and in order however `read` cuts the stream; errors leave descriptors in one known state |
| Shell, `shell_lab/tsh.c` | `job_list`, `nextjid`, signal mask; the kernel's view of the children | `eval` (foreground, background), `fg`, `bg`, `quit`, the three signal handlers | list and children agree; at most one foreground job; the prompt returns when, and only when, the foreground job is over; zombies are reaped |
| Malloc, `malloc_lab/mm.c` | the heap's words, twelve free lists | `malloc`, `free`, `realloc`, `calloc`, `mm_init` | blocks tile the heap and never overlap; lists hold exactly the free blocks; no two free neighbours; contents kept; what fits is found |
| Cache simulator, `cache_lab/csim.c` | lines and an LRU array per set | one access per trace line | hits, misses and evictions are those of a true LRU cache |
| Transposes, `cache_lab/trans.c` | two matrices | `transpose_submit` and variants | the result is the transpose; blocks at the edge stay in bounds |
| Bit puzzles, `lab1/bits.c` | none | one function each | each computes its specification at 32 bits |
| Bomb, `lab2/` | – | – | only the driver is in the repository; the phases are a binary |

How they interact: `main` of the proxy passes connected descriptors to workers
through the shared buffer (`Sbuf`); a worker calls the cache twice (`read_cache`
and, after a miss, `write_cache`, with the whole relay in between) and csapp's
wrappers for every read, write, connect and close. In the shell, the main program
and the handlers share `job_list`; the only synchronisation is the signal mask.

What is hard to test: the order of semaphore operations of several threads; a
list head read before the lock; descriptors whose numbers are reused between two
closes; errors of a peer at each point of a relay; handlers running between any
two statements, merged signals, a child that ends before it is listed; and, in
malloc, tags that a call long ago left inconsistent. Each is listed under
`hazards` in `PROJECT.json` at its line with the properties that cover it.

## Modules

| Module | Models | Correspondence |
|---|---|---|
| `BoundedFifo` | what `sbuf.c` promises | calls that take effect at one point |
| `Sbuf` | `sbuf.c` | one action per semaphore operation; `++rear` and the access to `buf[]` it indexes are two steps |
| `ObjectCache`, `LruCache` | what `cache.c` promises several workers, and one | a hit returns something stored under the tag unless another worker evicted during the lookup; least recently used first out |
| `ProxyCache` | `cache.c` | one action per semaphore operation, per unlocked access to `read_cnt` or `cp->head` and per node walked; inside `w_mutex` of `write_cache`, one per eviction and one for the insertion. A walk that meets a freed node may read any tag and size and the old link or none, or end the process (`Ruin`). The histories `since` and `ruined` say what befell a walk |
| `Proxy` | `proxy.c` and the descriptor side of `csapp.c` | one action per call that can fail; the kernel hands out the lowest free number; the shared buffer is the FIFO of `BoundedFifo`, the cache a set. The history `answer` says what of the server's answer a worker has |
| `RioReader` | `rio_readlineb`, `rio_read`, the relay loop | one action per refill, failed read, byte and returned line |
| `TrueLru` | what `csim.c` claims to be | sets of tags in the order of their last use, with counters |
| `Csim`, `Powers` | `csim.c` | one action per instruction of the trace; lines and `arrLRU` as the code keeps them, zeroes included |
| `Trans` | `trans.c` | one action per access to A or B; the loops over blocks and rows are the state `at`, the body of a row or block the sequence of accesses in the order the code makes them; registers hold values |
| `CacheLab` | both together | the simulator replays any short trace, or the accesses of a transpose |
| `Bits` | `bits.c` | words are the sets of positions of their ones; one operator per puzzle, written with the operators of C; one step calls one puzzle |
| `Tsh` | `tsh.c` | one action per statement of the main program that reads or writes shared state, handlers as a stack, one action per access; children as the kernel sees them. The history `stray` says that `fg` has written to a slot cleared after it was looked up |
| `Allocator` | what `mm.c` promises its caller | blocks and the words in them |
| `Mm` | `mm.c` | one action per call; operators named after the functions; an array of 4-byte words in which headers, footers, links and payload all live |
| `MC*` | – | constants for TLC; `MCLabs` is a behaviour of `CacheLab` or one of `Bits`, each with its own specification |
| `SbufProofs`, `ProxyCacheProofs`, `ProxyProofs`, `RioReaderProofs`, `TshProofs`, `MmProofs` | – | the theorems about the module each is named after |
| `LabProofs` | – | those about `Csim`, `Trans`, `CacheLab` and `Bits` |
| `Foundations` | – | the lemmas they share: least and greatest elements, induction and recursion on naturals, powers of two, sums over finite sets |

Definitions whose comment begins with *Mutant:* are faulty variants of the
definition that follows them. They belong to no specification; each shows what
kind of mistake in the code one of the properties notices.

The components compose by refinement and abstraction rather than in one product:
`Sbuf` implements `BoundedFifo`, which is what `Proxy` uses as its queue;
`ProxyCache` implements `ObjectCache`, which says a lookup may always miss and may
hit only what was stored, and that is what `Proxy` uses as its cache. `RioReader`
justifies that a line, once returned, is the next part of the answer. `Csim`
implements `TrueLru`, and `Trans` makes its accesses through `Csim`: what a
transpose costs is counted by the simulator, whose counts are shown right in the
same run.

## Runs

| Run | Asks | Instance |
|---|---|---|
| `sbuf` | Do the semaphores keep the buffer a FIFO, and does everybody come back? | 2 inserters (the proxy has one; two show that the code does not depend on it), 2 removers, 2 slots, 4 inserts: the buffer fills, empties and wraps |
| `cache` | Do the locks and the list hold under interleaving? What can go wrong with a lookup, and only then? Does every request end? | 2 workers, 2 tags, room for 2 objects of size 2 in 5, 3 addresses, 4 requests: evictions happen, and addresses are used again, while the other worker is anywhere |
| `cache_lru` | Is the cache LRU when used by one worker? | 3 tags, sizes 1 to 3 (3 is refused), room for 3, 5 requests: hits, refusals, one store evicting two nodes |
| `proxy` | Who owns and closes each descriptor, whatever fails? Whom does an answer reach, and what is cached? Is each client let go of, does each worker come back? | 2 workers, 2 clients, 3 descriptors, a buffer of 1, every failure: descriptors run out and are reused; answers of 0 to 2 lines, of which 1 fits in the cache |
| `proxy_read_error` | (violated) Is nothing cached after an error on the connection to the server? | 1 client, servers that are unknown, refuse or reset |
| `rio` | Does the reader lose or repeat a byte at a refill? | lines of up to 3 bytes and a NUL, a buffer of 3, answers of up to 7 bytes, every cut, a read that fails anywhere |
| `malloc` | Do tags, lists and contents survive every order of calls? | 28 words of heap (24 after the prologue), 3 lists, growth by 8 words, requests of 0, 8, 20 and 40 bytes: minimum, unsplittable and large blocks, all four cases of coalescing, a full heap |
| `tsh` | Does the list agree with the children? Does the prompt return? Are zombies reaped? | 2 processes, 2 slots, `run`, `run &`, `bg`, both keys |
| `tsh_all` | Is each child listed exactly while it exists? Is one job at most in the foreground, and does the prompt wait for it? | every command, 3 processes for 2 slots, so `addjob` also fails, ctrl-c |
| `tsh_fg_two` | (violated) Is one job at most in the foreground? | 2 processes, 2 slots, `run`, `run &`, `fg` |
| `tsh_fg_lost` | (violated) Does the prompt return after `fg`? | 2 processes, 2 slots, `run &` and `fg` |
| `labs` | (Two programs, one at a time.) Is the simulator a true LRU cache? Do the transposes store every cell once and right, return, and miss as seldom as intended? Does every puzzle compute what its comment asks? | traces of up to 6 hits and misses over 7 addresses on two sets of two lines and on one set of three (three blocks for a set of two, and evictions in either); the real 32x32, 64x64, 61x67 and a 5x3 on the lab's cache of 32 lines of 32 bytes; 32-bit words: 0, 1, -1, both ends of the range, their neighbours, runs of ones that begin and end at either end of a half word, bytes, two irregular ones, in all pairs; floats of both signs at every exponent where a case of the code begins or ends, with fractions that decide the rounding |

In `labs` the whole transposes miss 284 times (32x32), 1376 times (64x64) and
1982 times (61x67), which is what the driver of the lab would count; `FewMisses`
says block by block where those come from.

Several properties are conjunctions of named parts, so that a run names one
property per question: `Ledgers` (types, `MutexLedger`, `TicketLedger`), `ListSound` (types,
`LedgerMatchesList`, `EvictionProgresses`), `OnlyRacesGoWrong` (`StraysOnlyIfOvertaken`,
`StoresTwiceOnlyInRace`), `DescriptorsAccounted` (types, `NoDescriptorLeak`),
`HeapConsistent` (types, `HeapTiled`), `JobsListed` (types, `ChildrenListed`),
`NumbersRight` (`ComparesRight`, `OverflowSeen`) and `FloatsRight` (`HalvesToEven`,
`TruncatesToZero`).

Bounds (`MaxRear`, `MaxRequests`, `MaxConns`, `MaxLines`, `MaxBytes`, `MaxHeap`,
`JidBound`, `MaxAccesses`) are constants that appear in guards. Each is chosen so that the
resource it meets fills up at least once and is then used again, which is when the
code's cases differ; states beyond repeat the same local situations. Symmetry is
used only where there are no temporal properties. `malloc` is checked without
deadlock detection because a failed `calloc` kills the process; in every other
module an explicit stuttering step (`Exhausted`, `Rest`, `Over`, ...) names the
states in which the system may stop, and a deadlock anywhere else is an error.

### Fairness

* `Sbuf`: weak fairness of each thread. Nobody is assumed to win a contended
  semaphore, nor that a client ever connects. It suffices for the stated
  properties because a bounded run has finitely many competitors.
* `ProxyCache`: weak fairness of each worker's steps. Requests are finitely many:
  with an endless stream of readers the readers-first lock of `cache.c:54-73`
  guarantees a writer nothing, and no property claims it does.
* `Proxy`: weak fairness of `main`'s insert and of each worker; peers answer or
  fail, they do not stall for ever. That is an assumption about peers: the code
  sets no timeout.
* `Tsh`: weak fairness of the main program, of the running handler and of signal
  delivery (the kernel's promise), and a user who does not press keys for ever.
  No job is assumed to end.
* `CacheLab`: weak fairness of the next access. A transpose is sequential code that
  waits for nothing.

## What is proved

All theorems hold for every value of the constants that meets the assumptions named
in the modules. Each rests on an invariant `IInv` that is shown to hold at first and
to be kept by every action.

**`SbufProofs`**: any number of inserters and removers (disjoint and finite sets), any
number of slots (positive).

* `TypeCorrect`: the semaphores stay within their ranges (`slots` and `items`
  between 0 and n), and every other variable within its type;
* `LedgersCorrect` (`Ledgers`): the types; at most one thread holds the mutex, and
  `rear - front = items + (stored, not announced) + (items claimed, not taken)`,
  `slots + (slots claimed) + (taken, not returned) + (rear - front) = n`;
* `SlotsSafe` (`SlotSafety`): no slot is overwritten before it has been read, none is
  read before it has been written.

`IInv` is the type invariant with the two ledgers. None of the three is inductive
alone: that `slots` stays at most n needs the slots ledger, that `mutex` stays at most 1
needs the mutex ledger, and the ledgers need the types for arithmetic. The argument is
one lemma (`MoveCount`): a thread that moves from one point to another changes the number
of threads at a set of points by the difference of two indicator values. With it each
action becomes arithmetic, and the steps that touch no counter share `BalancedStep`.

The fourth says what the buffer is:

* `SbufIsFifo` (`ImplementsFifo`): `Sbuf` implements `BoundedFifo`.

Init maps to the empty queue, a call and a return to the abstract ones, the store to the
insert and the load to the remove (`StoreAppends`, `LoadTakesHead`), and every other step
to a stutter. The advance of `rear` or `front` is invisible although it comes before the
store or load, because the mapping leaves out a slot somebody is about to store and counts
one somebody is about to load. That the store leaves the queued items alone needs that
two indices less than n apart differ modulo n (`ModDistinct`), and that they are needs the
ledgers. A call begins from rest only if an idle thread holds no item: that is the one
conjunct beside `IInv`.

**`ProxyCacheProofs`**: any finite set of workers, any tags, sizes, addresses, bounds.

* `LockExcludes` (`ReadersExcludeWriters`): no thread changes the list while another
  walks or changes it, `read_cnt` is the number of readers the lock counts, and the
  mutexes are held by one thread at most.
* `ListMatchesItsTotals` (`TypeOK`, `LedgerMatchesList`): `head` leads to exactly the live
  nodes, each once; `total_size` and `cache_cnt` are what is in them, at every moment.
* `ListIsSound` (`ListSound`): then also a writer that finds the cache full finds a node
  whose age is above 0, so its loop removes one. Hypothesis: `AgeMod > 2 * MaxRequests + 1`.
* `OnlyRacesHurt` (`OnlyRacesGoWrong`): a walk stands on a freed node only if another
  worker has evicted since it read `cp->head`, and a tag is stored beside itself only if
  another worker has stored it, or evicted, since the walk that missed began.
* `CacheStoresObjects` (`ImplementsObjectCache`): the cache implements `ObjectCache`, with
  everything a freed node may hold: what is wrong with a hit comes of an eviction during
  the lookup.
* `OneWorkerIsLru` (`ImplementsLru`): used by one worker, the cache implements `LruCache`.
  Hypotheses: there is one worker, and `AgeMod > 2 * MaxRequests + 1`.

Each rests on those before it. *Locks:* `ReadersExcludeWriters` is inductive once the
semaphores are known to be naturals. The step that needs it all is the last reader's:
that `read_cnt` is 1 before it leaves means that nobody else is reading, so `w_mutex` may
be given back. *List:* `Nodes` is defined by recursion along `next`; the invariant is
instead about a chain, a sequence in which each node's `next` is the node after it and no
node comes twice (`ListLike`), and three lemmas say what inserting at the head, unlinking
one node and changing only ages do to a chain. The totals are sums over a set that gains
or loses one node (`TotalIsSum`, `SumTakes`). *Ages:* a request ages a node at most twice, in the
walk of `get_hit` and when it stores, so `Budget`, the walks and stores the requests under
way may still begin, bounds what ages can still gain; a walk under way owes one to the nodes
ahead of it (`Due`).
The hypothesis is not idle: when ages reach the wrap-around the loop does spin, as the next section
says. `AgeMod` is 10 and `MaxRequests` 4 in the run, 12 and 5 in `cache_lru`, which meet it. *Races:* until
another worker evicts, a walk is in the list, wherever it began; until another stores its tag
or evicts, the nodes with its tag are ahead of it (`Seeks`), so that a worker that missed
and was left alone may store (`Misses`). It needs the locks: a walk that goes on is one
nobody can unlink from. *Refinement:* what is stored is the nodes reachable from `head`;
`get_hit` may copy at any moment of its walk because it holds `w_mutex`, and what it has
copied is in the list unless the walk strayed (`HInv`); a walk that meets a freed node
was overtaken by an eviction, and there the abstract cache promises nothing; every
step that does not change what is stored or copied maps to a stutter. *Order:* one
worker's `get_hit` ages the nodes one by one, so during its walk the ages in the list are in
no order at all. The ages that count are those once the walk is over (`LaterAge`), which
its start fixes at a stroke: they are all different, so that they put the nodes in one
order (`Ranks`), and it is enough to know what three changes do to it: one goes to the
front while the others age (`RanksFronted`), one is added there (`RanksBehind`), the last
leaves (`RanksShortened`). `remove_oldest` takes the node of the greatest age, which is the
last of the order (`LastIsGreatest`); that a hit is bound to be one needs that the node
found is still there when `get_hit` begins (`FInv`), and what it returns is that of the
front (`FrontRead`). The invariant (`LInv`) says that there is such an order, with an unbounded
quantifier, so TLC checks only what follows from it.

**`ProxyProofs`**: any workers, clients, descriptors, slots, any set of failures.

* `DescriptorsOwned` (`OwnDescriptors`): until an error at which a wrapper closes a
  descriptor, whoever holds a number holds the connection it was given it for;
* `AnswersNotCrossed` (`ResponsesAreNotCrossed`): until then an answer goes to the client
  that asked;
* `CutShortByItsServer` (`CachedWhole`), without excepting a failure: what is stored was
  read to its end, or an error on the connection to its own server cut it short, or somebody
  closed that connection in place of his own, after such an error.

None is inductive. Two holders of one number would close each other's connection, and
what keeps their numbers apart is that their clients are apart. `Numbered` says that a
client, from accept to Close, is in the hands of exactly one of main, a place in the
queue, or a worker; `InOrder` that a worker has a server's descriptor only between
`Socket` and `CloseHost`; `Sourced` that it read its request from the client it serves.
For what is cached, `Answered` says of each worker what it can know of its answer: one about
to store has met the end or an error, and no connection is taken from it before such an
error, which is `DescriptorsOwned`.

At the end of `ProxyProofs`, in the same generality but without excepting any failure:

* `NoneForgotten` (`DescriptorsAccounted`): every variable keeps its type, and an open
  descriptor is always in the hands of somebody who will close it, but for the socket of
  a name `getaddrinfo` does not know.

After a wrapper has closed a descriptor its number may be in two hands, so this
needs another invariant: what is behind an open number is held as what it is, a client's
connection by the queue or a `connfd`, a server's by a `hostfd` (`Held`), and a worker
forgets a number only when it has closed it or has none (`Placed`).

**`RioReaderProofs`**: answers and buffers of every size, every way `read` cuts or fails.

* `LinesFit` (`LineFits`): a line stays within the caller's buffer, and only its last byte
  is a newline;
* `NoByteLost` (`BytesOnce`): what was relayed but for the NULs, then the line, then the
  buffer, is what has been read so far: nothing lost, repeated or reordered.

The two are inductive with the types. The work is in `Kept`, the recursive function that
drops NULs: it is shown to be defined (`KeptRecursion`, from `RecursionExists`), to ignore
a NUL that is added and to keep a byte that is (`FromServerAppend`).

**`LabProofs`**, on the simulator: any number of sets, lines and bits in a block, any
trace.

* `LruArrayIsARanking` (`RecencyOrder`): `arrLRU` begins with the valid lines of its set,
  each once, and no two valid lines hold one tag;
* `SimulatesTrueLru` (`ImplementsTrueLru`): the simulator implements `TrueLru`;
* `LabKeepsRanking`, `LabSimulatesTrueLru`: the same two with the steps of `CacheLab`, whose
  traces may be the accesses of a transpose. They need that those are addresses, that is,
  that the rows and columns accessed are naturals, which is part of the next group.

The property is stated with the number of valid lines; the invariant has instead a
witness k such that the first k entries list the valid lines. A hit moves an entry among
those to the front (`FrontKeeps`), a miss into an empty line adds one (`FrontAdds`), and
an eviction is a hit on the last one because then k = E. For the refinement, the tags of
the first k lines are the abstract set; the three cases of an access are a promotion of the
tag (`HitPromotes`, `MissPromotes`, `EvictPromotes`), and the second access of a modify
promotes what is already first (`PromotedStays`). That two shifts cut the set index out of
an address (`AddressParts`) needs laws of powers the prover's backends lack: `Pow2` is a
recursive function, of which they are proved (`PowSum`).

**`LabProofs`**, on the transposes: matrices of every shape, with at least one row and
one column (`REQUIRES`, `trans.c:50-51`), placed anywhere.

* `EveryStoreIsRight` (`StoresOnceAndRight`): no access is outside its matrix, and each
  store is to a cell not yet written, of the element that belongs there;
* `ReturnsTranspose`: when no access is left, B is the transpose of A. It is what
  `TransposeSubmitEnsures` says of the end; that the end is reached is left to TLC.

`Moves(s, R)` says of a sequence of accesses that its stores are to the cells R, each
once, that it loads only elements that belong in R, and that each store has a load of its
element into its register with no other load into that register in between. A row is such
a sequence whether its diagonal element is held back or not (`CopiesMove`,
`CopiesButMove`, `MovesAround`); so are the 32 accesses of `TopCorner` with its eight
registers, which are looked at one by one (`TopCornerMoves`); and two such sequences with
disjoint cells make one (`MovesConcat`), so that the blocks follow (`ZBlockMoves`,
`DiagonalBlockMoves`). The loops are then geometry: the cells of the row or block at `at`
are disjoint from those before it, and with them are those before the next
(`NextRowFollows`), up to the edges of 61x67. The invariant (`TransInv`) says that B holds
the right element in the cells of the rows and blocks before `at` and of the stores made in
this one, and nothing elsewhere, and that a register holds what was last read into it.

**`LabProofs`**, on the bit puzzles: every word and every float of 32 bits, both kinds of
shifters. (`Bits` has a set of each for its inputs; the theorems hold for any.)

* `PuzzlesCompareAndAdd` (`NumbersRight`), `PuzzlesCountBits` (`FewestBits`),
  `PuzzlesMoveBits` (`BitsMoved`), `PuzzlesOnFloats` (`FloatsRight`): every puzzle gives
  what the comment over it asks for.

A call leaves nothing behind, so the invariant is the properties themselves (`BitsRight`)
and all the work is in the operators. Masks and shifts are followed one position at a time.
As a number a word is the sum of the powers of two at its ones. `Add` is a full adder, and
by induction over the positions what it gives below a position, with the carry into it, is
the sum of what the two words have below it; so its result is the sum modulo 2^32, and the
comparisons and overflow tests are arithmetic with signs. The digits to the base 2^16 of the
properties, there to keep TLC's integers small, are put together into one number first.
The five steps of the binary search of `howManyBits` each halve where the first one can be.
`float_half` and `float_f2i` are proved case by case on the exponent, with significands as
numbers below 2^24: halving carries from the exponent into the fraction, and a shift to the
right is a division.

**`TshProofs`**: any children, slots, keys, and any set of commands.

* `ChildrenAreListed` (`JobsListed`): a child is in exactly one slot from `addjob` until the
  handler that reaped it clears the slot;
* `OneForeground` (`OneForegroundJob`): at most one job is in the foreground, until `fg`
  writes to a slot that was cleared after it was looked up (`stray`);
* `PromptWaits` (`WaitsForForeground`): until then the shell is not at its prompt while one
  is;

and, if `fg` is not among the commands (`TshFgStopped.cfg` shows that it must not):

* `ListTellsStopped` (`StatesAgree`): once all signals are handled, the list calls a job
  stopped just when its process is, and lists none that has ended.

*Foreground:* the job is the one in the main program's local `job` and its slot is not free
(`OwnForeground`), and there is one only between `addjob`, or `fg`'s write, and the test that
ends the wait (`WaitsAtIt`). The test is right because `fgpid` finds the slot if there is one. Handlers
only clear slots or mark them stopped. *List:* `Exact` says of each child what
`ChildrenListed` says, by cases; it is kept because no two frames of the handler stack are
about to update the list for one child (`Apart`, `FramesSound`), and because no handler
runs between `block_sigs` and `addjob` (`Starting`): without that a child that ended at
once would be deleted before it is added. *Stopped jobs:* a child that is stopped
is marked, or a handler is about to mark it, or its stop is still to be reported and
SIGCHLD is pending or being handled (`HaltedMarked`, `WaitableSignalled`); while `bg`
works on a job nothing else happens to that job (`BgHolds`).

**`MmProofs`**: any heap size, chunk size, number of free lists and set of requests.

* `HeapStaysConsistent` (`HeapConsistent`): the blocks follow each other from the prologue
  to the epilogue, headers match footers, and no two free blocks are neighbours;
* `ListsStayFreeBlocks` (`ListsAreFreeBlocks`): each list holds the free blocks of its
  sizes, each once, linked both ways;
* `AllocatedStaysLive` (`AllocatedIsLive`): what is marked allocated is what the program
  holds, and it has room for what was asked;
* `WhatFitsIsServed` (`ServesWhatFits`): the heap grows only when no free block fits, and
  a request fails only when it cannot grow either;
* `IsAllocator` (`ImplementsAllocator`): `Mm` implements `Allocator`.

The hypotheses are those of `Mm`: heap and requests are less than 2^31 bytes, growth is by an even number of words and at least a
minimum block (32 words in the code), there is at least one list, and the heap has room for the four
words of `mm_init`. The properties speak of walks, along the blocks by their sizes and along the
lists by their links, and walks are recursive. The invariant speaks of none: it says that
some set of pointers tiles the heap (`Tiles`), that links and heads join the free ones of
them into lists along which a rank decreases (`Linked`), that no two neighbours are free
(`NoTwoFree`), and that the others are what the program holds (`Holding`). It has an
unbounded quantifier, so TLC checks only what follows from it. The work is in what writing a few words does to it: taking a block off its list
and putting it on one (`GoodRemove`, `GoodPush`), new tags for words that are on no list (`GoodSwap`),
writing between two tags (`GoodBody`). `coalesce`, `extend_heap` and `place` are sequences of these
(`CoalesceKeeps`, `ExtendOffers`, `PlaceKeeps`), and so are the calls. In between, one
block may be free and on no list, next to other free ones (`Nearly`). That the
walks find just this set and these lists is shown last (`BlocksAreTiles`,
`WalkListsOnce`): blocks have six words or more, so a walk of `MaxNodes` steps has come to the end. First fit
misses no block because sizes that belong to an earlier list are smaller (`IndexOfSize`). For the
refinement every step leaves the words of other blocks untouched, and `realloc` copies
before it frees (`BlockMoved`).

**Only model-checked**: liveness and fairness, which the prover does not handle; the
misses of a block (`FewMisses`), which are a matter of three
fixed shapes on one cache. The provers cannot take an induction over data whose property is an operator.
`Foundations` goes around this where it can, by stating induction for sets of naturals and
recursion for functions; that was enough for the list of `ProxyCache`, its sums,
the powers of two of `Csim`, the reader's `Kept`, the two walks of `Mm`, the rows
`Trans` flattens into a block, and the sums that are the numbers of `Bits`.

## Where code and its description part

Three runs are expected to fail, the `findings` of `PROJECT.json`. Each checks what a
comment in the code says:

* `proxy_read_error`: the test for a read error in the relay loop (`proxy.c:166`) can never
  be true, because the loop goes on only while more than 0 bytes are read. An answer cut
  short, or that of a server that could not be reached, is cached as if it were whole.
  `CachedWhole` says what can be had: nothing else cuts an answer short.
* `tsh_fg_lost`: `do_builtin_fg_cmd` tests and suspends with signals unblocked
  (`tsh.c:1021-1022`), so the wake-up can be lost.
* `tsh_fg_two`: `fg` writes the state of a slot it looked up before (`tsh.c:1017`). If the job
  ended in between, an empty slot is in state FG, `fgpid` finds its pid 0, and the next `fg`
  does not wait: then two jobs can be in the foreground, which `tsh.c:49` says cannot be.
  `OneForegroundJob` and `WaitsForForeground` end at such a write, which `stray` records.

Three more failures can be reproduced with the configurations kept here:

* `tlc -config ProxyCacheFreed.cfg MCProxyCache` (`WalksLiveNodes`): `find_hit` and `get_hit`
  read `cp->head` before they lock (`cache.c:47`, `:97`), so a walk can stand on a node that
  has been evicted and freed. `OnlyRacesGoWrong` says when, `ObjectCache` what is still
  promised.
* `tlc -config ProxyCrossed.cfg MCProxy` (`ResponsesReachTheirClient`): `Rio_writen` closes
  the descriptor on EPIPE (`csapp.c:722`), and `clienterror` goes on writing to the number and
  `thread` closes it (`proxy.c:202`), by then perhaps another client's. `OwnDescriptors` and
  `ResponsesAreNotCrossed` end at such an error.
* `tlc -config TshFgStopped.cfg MCTsh` (`StatesAgree`): a background job that stops between
  `fg`'s `state = FG` and its SIGCONT (`tsh.c:1018`) runs on, listed as stopped. The passing
  run checks `StatesAgree` without `fg`.

Others were met while modelling. The models contain them, and the properties are
qualified where they bite:

* The age counter wraps (`cache.h:11` says so). When every age is 0,
  `remove_oldest` evicts nothing and the loop at `cache.c:281-283` spins holding
  `w_mutex`. The cache runs use an `AgeMod` that the requests do not reach; with
  ages that wrap at 4, sizes 2 and 3 and a cache of 6, `EvictionProgresses` fails.
* Two workers that miss the same tag both store it: `ObjectCache` allows duplicates, and
  `StoresTwiceOnlyInRace` says when they come about.
* End of file inside a client's headers makes `read_and_refine_req_hdrs` (`proxy.c:250`) spin
  for ever or, if the last line read is one it passes on, append it to a buffer on the stack
  (`proxy.c:270`) until the process dies. `HeadersEnd` and `HeadersOverflow` are these; the two
  liveness properties of `Proxy` except them.
* When `getaddrinfo` fails the socket is not closed (`csapp.c:808`);
  `NoDescriptorLeak` excepts that one.
* `rio_readlineb` counts one byte more than it stored for a line that does not end
  in a newline (`csapp.c:695`): a NUL is relayed and cached after it. `BytesOnce`
  states what is relayed but for those NULs.
* `fg` and `bg` without an argument look at the first character of a NULL pointer
  (`tsh.c:941`, `:996`); `BadArgument` ends the shell, as an argument that is no number does.
* A key pressed before the child has called `setpgid`, or between `waitpid` and
  `deletejob`, makes the handler's `kill` fail, and `unix_error` ends the shell.
* With four slots, `nextjid` can give two jobs one id (`tsh.c:547`).
* `calloc` clears the result of `malloc` without looking at it (`mm.c:609`): when
  the heap is exhausted the process dies.
* `trans.c:120-122` says which of the two functions for 8x8 blocks is for the diagonal;
  the code calls them the other way round from that (`trans.c:137-141`), as their names
  say. The model follows the code.
* With `-s 0 -b 0`, or s and b that add up to 64, `csim.c` shifts an address by its own
  width (`csim.c:237`), and with `-s 32` or more a 1U by as much (`:159`), all undefined;
  `ArgsAssumption` excludes them. `rotateRight` by 0 shifts by 32 (`bits.c:212`):
  `Bits` takes both what shifters that reduce the count and what those that do not give.
* The first header that is not Host is appended to a buffer nothing has been stored in
  (`proxy.c:270`). Header text is not modelled.
* When the job list is full the shell has already started the process it cannot list, and
  exits (`app_error`, `tsh.c:822`); `tsh_all` has that case.
* In `mm.c` a request of more than SIZE_MAX - 15 bytes wraps in the rounding at line 484,
  `calloc`'s product (`mm.c:605`) wraps likewise, tags hold sizes in 32 bits (`mm.c:192`), and
  the list functions take them as int (`mm.c:979`, `:1005`). `MmAssumption` keeps heap and
  requests below 2^31 bytes.

## What is not modelled

* Text: request lines, URIs and headers (`parse_uri`, the rewriting in
  `read_and_refine_req_hdrs`), the shell's parser, redirection, everything printed.
* Where a link read from a freed cache node leads, if neither where it used to nor to the
  end: that, and what `memcpy` or `age++` do to memory that is another's by then, is `Ruin`,
  after which nothing is said.
* `front` and `rear` beyond `MaxRear`; the C integers overflow after 2^31 - 1
  connections.
* `csim.c`'s options, its trace file and what happens when they are wrong, the exit on an
  unknown instruction, and counters that pass the range of unsigned. `SetIndex` is an int
  in the code; sets are fewer than that.
* Where the driver puts A and B: at 0 and 2^18, two multiples of the size of the cache, as
  in the lab's driver, which is not in the repository (nor are its `registerFunctions`).
* Functions nothing calls while the system runs: `cache_deinit`, `sbuf_deinit`, most
  of csapp; the shell's SIGQUIT handler, which only exits; the output of `jobs`.
* `mm_checkheap` and its helpers change nothing. They are `Mm`'s invariants
  `HeapTiled` and `ListsAreFreeBlocks`. In `Mm` a freed block's payload becomes
  indeterminate, and the caller fills what it is given before its next call; illegal
  calls (freeing twice, freeing what was not allocated) are not made.
* `memlib` (`mem_sbrk`) and the kernel are modelled from how the code uses them.
* The bomb (a binary), build files.

## Plan

1. Done: `Sbuf`, `ProxyCache`, `Proxy`, `RioReader`, `Tsh`, `Mm`, `Csim`, `Trans`,
   `Bits`, and the proofs above.
2. Next: a request stream without a bound, to state what a reader is promised while
   writers wait.
