-------------------------------- MODULE Csim --------------------------------
(***************************************************************************)
(* cache_lab/csim.c: the cache simulator.  A set is an array of lines and  *)
(* an array arrLRU of line numbers, the most recently used first.  arrLRU  *)
(* is allocated full of zeroes, which name line 0 as many times as the set *)
(* has lines; only the part of it that has been written means anything.    *)
(*                                                                         *)
(* One step replays one instruction of the trace (an iteration of DoSim).  *)
(***************************************************************************)
EXTENDS Powers, Integers, FiniteSets, FiniteSetsExt

CONSTANTS AddrWidth,     \* ADDR_WIDTH
          Args           \* the arguments -s, -E and -b the program is run with

\* With s + b = 0 or ADDR_WIDTH the code shifts an address by its own width,
\* with s >= 32 an unsigned int by as much: both are undefined.
ASSUME AddrWidthAssumption == AddrWidth \in Nat
ASSUME ArgsAssumption == \A args \in Args : /\ args.s \in Nat /\ args.b \in Nat /\ args.E \in Nat \ {0}
                                            /\ args.s + args.b \in 1 .. AddrWidth - 1 /\ args.s < 32

VARIABLES args,          \* bitSet, noLine, bitBlock
          cache,         \* cSet and the three counters
          type, addr     \* DoSim's locals: the instruction read last

csimVars == <<args, cache, type, addr>>

Types == {"L", "S", "M", "I"}
SetIndexes == 0 .. Pow2[args.s] - 1
LineIndexes == 0 .. args.E - 1

\* calloc: every line invalid, every word zero.
EmptySet == [cLine |-> [i \in LineIndexes |-> [v |-> FALSE, tag |-> 0]],
             arrLRU |-> [i \in LineIndexes |-> 0]]

ConstructCacheIns == cache = [cSet |-> [i \in SetIndexes |-> EmptySet],
                              hitCount |-> 0, missCount |-> 0, eviCount |-> 0]

---------------------------------------------------------------------------
(* The LRU array *)

\* The entries before location `at' move down by one, over the one there.
MoveToFront(inLRU, at, inIndex) ==
    [i \in DOMAIN inLRU |-> IF i = 0 THEN inIndex ELSE IF i <= at THEN inLRU[i - 1] ELSE inLRU[i]]

LastOf(inLRU) == args.E - 1

\* Mutants: the entries before the target stay; a hit changes nothing (FIFO).
UpdateLRUInPlace(inLRU, inIndex) == [inLRU EXCEPT ![0] = inIndex]
UpdateLRUAsFifo(inLRU, inIndex) == inLRU

UpdateLRUWhenHit(inLRU, inIndex) ==
    MoveToFront(inLRU, Min({i \in DOMAIN inLRU : inLRU[i] = inIndex}), inIndex)

UpdateLRUWhenMiss(inLRU, inIndex) == MoveToFront(inLRU, LastOf(inLRU), inIndex)

Evicted(inLRU) == inLRU[LastOf(inLRU)]
UpdateLRUWhenEvic(inLRU) == MoveToFront(inLRU, LastOf(inLRU), Evicted(inLRU))

---------------------------------------------------------------------------
(* One access *)

Hits(inSet, inTag) == {i \in LineIndexes : inSet.cLine[i].v /\ inSet.cLine[i].tag = inTag}
Invalid(inSet) == {i \in LineIndexes : ~inSet.cLine[i].v}

PutLine(inSet, index, inTag, newLRU) ==
    [cLine |-> [inSet.cLine EXCEPT ![index] = [v |-> TRUE, tag |-> inTag]], arrLRU |-> newLRU]

\* The loop over the lines keeps the last one that fits.
SimOneLoadOrSave(c, setIndex, inTag) ==
    LET inSet == c.cSet[setIndex]
        hitIndex == Max(Hits(inSet, inTag))
        invalidIndex == Max(Invalid(inSet))
    IN IF Hits(inSet, inTag) # {}
       THEN [c EXCEPT !.hitCount = @ + 1,
                      !.cSet[setIndex].arrLRU = UpdateLRUWhenHit(@, hitIndex)]
       ELSE IF Invalid(inSet) = {}
       THEN [c EXCEPT !.missCount = @ + 1,
                      !.eviCount = @ + 1,
                      !.cSet[setIndex] = PutLine(inSet, Evicted(inSet.arrLRU), inTag,
                                                 UpdateLRUWhenEvic(inSet.arrLRU))]
       ELSE [c EXCEPT !.missCount = @ + 1,
                      !.cSet[setIndex] = PutLine(inSet, invalidIndex, inTag,
                                                 UpdateLRUWhenMiss(inSet.arrLRU, invalidIndex))]

---------------------------------------------------------------------------
(* One instruction *)

\* << on a word of AddrWidth bits.
ShiftLeft(a, k) == (a % Pow2[AddrWidth - k]) * Pow2[k]
ShiftRight(a, k) == a \div Pow2[k]

Tag(inAddr) == ShiftRight(inAddr, args.s + args.b)
SetIndex(inAddr) == LET bitTag == AddrWidth - args.s - args.b
                    IN ShiftRight(ShiftRight(ShiftLeft(inAddr, bitTag), bitTag), args.b)

SimOneInstruction(inType, inAddr) ==
    LET Access(c) == SimOneLoadOrSave(c, SetIndex(inAddr), Tag(inAddr))
    IN /\ type' = inType /\ addr' = inAddr
       /\ cache' = CASE inType \in {"L", "S"} -> Access(cache)
                     [] inType = "M" -> Access(Access(cache))
                     [] inType = "I" -> cache
       /\ UNCHANGED args

\* The simulator alone, on any trace.
CsimInit == args \in Args /\ ConstructCacheIns /\ type = "I" /\ addr = 0
Replay == \E inType \in Types, inAddr \in 0 .. Pow2[AddrWidth] - 1 : SimOneInstruction(inType, inAddr)
CsimSpec == CsimInit /\ [][Replay]_csimVars

---------------------------------------------------------------------------
(* Properties *)

ValidLines(inSet) == LineIndexes \ Invalid(inSet)

\* With k lines valid, the first k entries of arrLRU name just those lines,
\* each once, whatever the zeroes behind them say; and no two lines hold the
\* same tag ("arrLRU[0] is most recently used, arrLRU[noLine-1] is least
\* recently used", csim.c:37-38).
RecencyOrder ==
    \A n \in SetIndexes :
        LET inSet == cache.cSet[n]
            k == Cardinality(ValidLines(inSet))
        IN /\ {inSet.arrLRU[i] : i \in 0 .. k - 1} = ValidLines(inSet)
           /\ \A i, j \in ValidLines(inSet) : inSet.cLine[i].tag = inSet.cLine[j].tag => i = j

\* The tags arrLRU lists, as far as its entries mean anything.
Recent(inSet) == [n \in 1 .. Cardinality(ValidLines(inSet)) |-> inSet.cLine[inSet.arrLRU[n - 1]].tag]

Truth == INSTANCE TrueLru WITH geometry <- args,
                               recent <- [n \in SetIndexes |-> Recent(cache.cSet[n])],
                               hits <- cache.hitCount, misses <- cache.missCount,
                               evictions <- cache.eviCount

\* The arrays of line numbers are a true LRU cache, sets, counters and all.
ImplementsTrueLru == Truth!Spec

=============================================================================
