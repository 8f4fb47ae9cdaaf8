----------------------------- MODULE Allocator -----------------------------
(***************************************************************************)
(* What malloc_lab/mm.c promises the program that calls it: blocks that    *)
(* never overlap, keep what the program wrote in them until they are       *)
(* freed, start as zeroes after calloc, and keep their common prefix       *)
(* through realloc.  Any call may also fail, which changes nothing.        *)
(***************************************************************************)
EXTENDS Naturals, Sequences

CONSTANTS Addrs,    \* the words of the address space
          Align,    \* what the address of a block is a multiple of
          Zero      \* what calloc leaves in a word

VARIABLE blocks     \* address of each live block -> the words it holds

Extent(p, words) == p .. p + Len(words) - 1

Disjoint(f) ==
    \A p, q \in DOMAIN f : p # q => Extent(p, f[p]) \cap Extent(q, f[q]) = {}

Init == blocks = << >>

\* p is a new block, all others are as they were, but for those in gone.
Appears(p, gone) ==
    /\ p \notin DOMAIN blocks \/ p \in gone
    /\ DOMAIN blocks' = (DOMAIN blocks \ gone) \cup {p}
    /\ \A q \in DOMAIN blocks \ (gone \cup {p}) : blocks'[q] = blocks[q]
    /\ p % Align = 0
    /\ Extent(p, blocks'[p]) \subseteq Addrs
    /\ Disjoint(blocks')

\* malloc, and what the program then writes in the block.
Malloc == \E p \in DOMAIN blocks' : Appears(p, {})

Calloc ==
    \E p \in DOMAIN blocks' :
        /\ Appears(p, {})
        /\ \A i \in DOMAIN blocks'[p] : blocks'[p][i] = Zero

Realloc ==
    \E old \in DOMAIN blocks, p \in DOMAIN blocks' :
        /\ Appears(p, {old})
        /\ \A i \in DOMAIN blocks[old] \cap DOMAIN blocks'[p] :
               blocks'[p][i] = blocks[old][i]

Free ==
    \E p \in DOMAIN blocks :
        /\ DOMAIN blocks' = DOMAIN blocks \ {p}
        /\ \A q \in DOMAIN blocks' : blocks'[q] = blocks[q]

Next == Malloc \/ Calloc \/ Realloc \/ Free

Spec == Init /\ [][Next]_blocks
=============================================================================
