------------------------------ MODULE TrueLru ------------------------------
(***************************************************************************)
(* What cache_lab/csim.c simulates: a cache of 2^s sets of E lines of 2^b  *)
(* bytes with least-recently-used replacement.  A set here is nothing but  *)
(* the tags it holds, the most recently used first; an access to a tag     *)
(* that is not among them is a miss, and the tag that no longer fits is    *)
(* the one evicted.                                                        *)
(***************************************************************************)
EXTENDS Powers, Integers, SequencesExt

VARIABLES geometry,              \* the arguments -s, -E and -b
          recent,                \* for every set, its tags
          hits, misses, evictions,
          type, addr             \* the instruction replayed last

lruVars == <<geometry, recent, hits, misses, evictions, type, addr>>

Init == /\ recent = [i \in 0 .. Pow2[geometry.s] - 1 |-> <<>>]
        /\ hits = 0 /\ misses = 0 /\ evictions = 0

\* An address is a tag, a set index and an offset within the block.
Block(a) == a \div Pow2[geometry.b]
SetOf(a) == Block(a) % Pow2[geometry.s]
TagOf(a) == Block(a) \div Pow2[geometry.s]

\* The tag comes to the front; the last one goes if they are now too many.
Promote(tag, tags) == LET list == <<tag>> \o RemoveFirst(tags, tag)
                      IN IF Len(list) > geometry.E THEN Front(list) ELSE list

Access(a, times) ==
    LET tags == recent[SetOf(a)]
        hit == Contains(tags, TagOf(a))
    IN /\ recent' = [recent EXCEPT ![SetOf(a)] = Promote(TagOf(a), tags)]
       /\ hits' = hits + (IF hit THEN times ELSE times - 1)
       /\ misses' = misses + (IF hit THEN 0 ELSE 1)
       /\ evictions' = evictions + (IF ~hit /\ Len(tags) = geometry.E THEN 1 ELSE 0)

\* A load and a save are one access each, a modification is one of each; the
\* fetch of an instruction does not go through this cache.
Instruction(t, a) == /\ \/ t \in {"L", "S"} /\ Access(a, 1)
                        \/ t = "M" /\ Access(a, 2)
                        \/ t = "I" /\ UNCHANGED <<recent, hits, misses, evictions>>
                     /\ UNCHANGED geometry

\* The instruction is an input: whatever it is, the step follows from it.
Next == Instruction(type', addr')

Spec == Init /\ [][Next]_lruVars

=============================================================================
