-------------------------------- MODULE Trans --------------------------------
(***************************************************************************)
(* cache_lab/trans.c: the transposes B = A^T, one step per access to A or  *)
(* B, with the cache of Csim under them (the driver, which is not in the   *)
(* repository, records the accesses and replays them through a simulator). *)
(*                                                                         *)
(* The loops over blocks and rows are the state `at'; the body of a row,   *)
(* or the whole of a block that is not done row by row, is the sequence of *)
(* its loads and stores, of which `todo' is what is left.                  *)
(***************************************************************************)
EXTENDS Csim, Sequences, SequencesExt

CONSTANTS ABase, BBase      \* where the driver puts A and B

ASSUME BaseAssumption == ABase \in Nat /\ BBase \in Nat

VARIABLES M, N,       \* A has N rows of M columns, B has M rows of N
          B,
          reg,        \* the local ints
          at,         \* ib, jb and i
          todo,       \* accesses left in this row, or block
          before      \* (history) missCount when the block was begun

transVars == <<M, N, B, reg, at, todo, before>>

Junk == -1                    \* what B holds before
A(i, j) == i * M + j          \* distinct, so that no cell passes for another

STEP == 8
HALF_STEP == 4
TWO_STEP == 16

Is(m, n) == M = m /\ N = n

---------------------------------------------------------------------------
(* Sequences of accesses *)

Load(r, i, j) == [op |-> "L", reg |-> r, row |-> i, col |-> j]      \* r = A[i][j]
Store(j, i, r) == [op |-> "S", reg |-> r, row |-> j, col |-> i]     \* B[j][i] = r

\* B[j][i] = A[i][j] for j from lo up to hi
Copies(i, lo, hi) == [k \in 1 .. 2 * (hi - lo) |->
                         LET j == lo + (k - 1) \div 2
                         IN IF k % 2 = 1 THEN Load("tmp", i, j) ELSE Store(j, i, "tmp")]

\* The same with column d read in its turn and written last.
CopiesBut(d, i, lo, hi) ==
    IF d \in lo .. hi - 1
    THEN Copies(i, lo, d) \o <<Load("tmpVal", i, d)>> \o Copies(i, d + 1, hi) \o <<Store(d, i, "tmpVal")>>
    ELSE Copies(i, lo, hi)

\* Mutants: the last block runs over the edge; the diagonal in its turn.
RowUncut(i, jb, step) == CopiesBut(i, i, jb, jb + step)
RowInTurn(i, jb, step) == Copies(i, jb, Min({jb + step, M}))

\* One row of a block of transpose_32_32 and transpose_61_67.
BlockRow(i, jb, step) == CopiesBut(i, i, jb, Min({jb + step, M}))

Quarter(i, j) == FlattenSeq([r \in 1 .. HALF_STEP |-> Copies(i + r - 1, j, j + HALF_STEP)])

\* Z1, Z2, Z4, Z3
transpose_z_8_8(ib, jb) == Quarter(ib, jb) \o Quarter(ib, jb + HALF_STEP)
                           \o Quarter(ib + HALF_STEP, jb + HALF_STEP) \o Quarter(ib + HALF_STEP, jb)

\* Z1 and Z2: the corner of A at (ib, jb + c) and that of B at (ib + c, jb),
\* through eight registers.
TopCorner(ib, jb, c) ==
    LET Ld(r, i, j) == Load(r, ib + i, jb + c + j)
        St(i, j, r) == Store(ib + c + i, jb + j, r)
    IN << Ld("tmp1", 0, 0), Ld("tmp2", 0, 1), Ld("tmp3", 0, 2), Ld("tmp4", 0, 3),
          Ld("tmp5", 1, 0), Ld("tmp6", 2, 0), Ld("tmp7", 3, 0),
          St(0, 0, "tmp1"), St(0, 1, "tmp5"), St(0, 2, "tmp6"), St(0, 3, "tmp7"),
          Ld("tmp1", 1, 1), Ld("tmp5", 1, 2), Ld("tmp6", 1, 3),
          Ld("tmp7", 2, 1), Ld("tmp8", 3, 1),
          St(1, 0, "tmp2"), St(1, 1, "tmp1"), St(1, 2, "tmp7"), St(1, 3, "tmp8"),
          Ld("tmp1", 2, 2), Ld("tmp2", 2, 3), Ld("tmp7", 3, 2),
          St(2, 0, "tmp3"), St(2, 1, "tmp5"), St(2, 2, "tmp1"), St(2, 3, "tmp7"),
          Ld("tmp1", 3, 3),
          St(3, 0, "tmp4"), St(3, 1, "tmp6"), St(3, 2, "tmp2"), St(3, 3, "tmp1") >>

\* Z3 and Z4: four rows, each with its own element of the small diagonal last.
BottomCorner(ib, jb, c) ==
    FlattenSeq([r \in 1 .. HALF_STEP |->
                   CopiesBut(jb + c + r - 1, ib + HALF_STEP + r - 1, jb + c, jb + c + HALF_STEP)])

\* Z1, Z3, Z2, Z4
transpose_diago_8_8(ib, jb) == TopCorner(ib, jb, 0) \o BottomCorner(ib, jb, 0)
                               \o TopCorner(ib, jb, HALF_STEP) \o BottomCorner(ib, jb, HALF_STEP)

---------------------------------------------------------------------------
(* The loops *)

\* transpose_submit's choice: the step of the blocks, if there are any.
Blocked == Is(32, 32) \/ Is(64, 64) \/ Is(61, 67)
Step == IF Is(61, 67) THEN TWO_STEP ELSE STEP
ByBlock == Is(64, 64)

Accesses(p) == IF ~Blocked THEN Copies(p.i, 0, M)
               ELSE IF ~ByBlock THEN BlockRow(p.i, p.jb, Step)
               ELSE IF p.ib = p.jb THEN transpose_diago_8_8(p.ib, p.jb)
               ELSE transpose_z_8_8(p.ib, p.jb)

BlockAt(ib, jb) == [ib |-> ib, jb |-> jb, i |-> ib]

\* Mutant: only whole blocks (jb + Step <= M).
NextWholeBlock(p) == IF ~Blocked THEN [p EXCEPT !.i = @ + 1]
                     ELSE IF ~ByBlock /\ p.i + 1 < Min({p.ib + Step, N}) THEN [p EXCEPT !.i = @ + 1]
                     ELSE IF p.jb + 2 * Step <= M THEN BlockAt(p.ib, p.jb + Step)
                     ELSE BlockAt(p.ib + Step, 0)

\* for ib, for jb, for i: the innermost that is not at its end goes on.
NextRow(p) == IF ~Blocked THEN [p EXCEPT !.i = @ + 1]
              ELSE IF ~ByBlock /\ p.i + 1 < Min({p.ib + Step, N}) THEN [p EXCEPT !.i = @ + 1]
              ELSE IF p.jb + Step < M THEN BlockAt(p.ib, p.jb + Step)
              ELSE BlockAt(p.ib + Step, 0)

Left(p) == IF p.i < N THEN Accesses(p) ELSE <<>>

Begin == /\ B = [j \in 0 .. M - 1 |-> [i \in 0 .. N - 1 |-> Junk]]
         /\ reg = [r \in {"tmp", "tmpVal", "tmp1", "tmp2", "tmp3", "tmp4",
                          "tmp5", "tmp6", "tmp7", "tmp8"} |-> 0]
         /\ at = BlockAt(0, 0)
         /\ todo = Left(at)
         /\ before = 0

---------------------------------------------------------------------------
\* Where an element is: 4-byte ints, row by row.
AddressOf(a) == IF a.op = "L" THEN ABase + 4 * (a.row * M + a.col)
                              ELSE BBase + 4 * (a.row * N + a.col)

Proceed == LET next == NextRow(at)
               again == next.ib = at.ib /\ next.jb = at.jb
           IN IF Len(todo) > 1
              THEN todo' = Tail(todo) /\ UNCHANGED <<at, before>>
              ELSE /\ at' = next
                   /\ todo' = Left(next)
                   /\ before' = IF again THEN before ELSE cache'.missCount

AccessOne == /\ todo # <<>>
             /\ LET a == Head(todo) IN
                  /\ SimOneInstruction(a.op, AddressOf(a))
                  /\ IF a.op = "L"
                     THEN reg' = [reg EXCEPT ![a.reg] = A(a.row, a.col)] /\ UNCHANGED B
                     ELSE B' = [B EXCEPT ![a.row][a.col] = reg[a.reg]] /\ UNCHANGED reg
             /\ Proceed
             /\ UNCHANGED <<M, N>>

---------------------------------------------------------------------------
(* Properties *)

\* Whatever the order, a store is to a cell of B that has not been written,
\* and what is in the register by then is the element that belongs there:
\* no block at the edge of 61x67 runs over it, and none of the registers
\* transpose_diago_8_8 reuses is overwritten too soon.
StoresOnceAndRight ==
    todo # <<>> =>
        LET a == Head(todo) IN
            /\ a.op = "L" => a.row < N /\ a.col < M
            /\ a.op = "S" => /\ a.row < M /\ a.col < N
                             /\ B[a.row][a.col] = Junk
                             /\ reg[a.reg] = A(a.col, a.row)

is_transpose == \A i \in 0 .. N - 1, j \in 0 .. M - 1 : A(i, j) = B[j][i]

\* transpose_submit returns, with its postcondition
\* (ENSURES(is_transpose(M, N, A, B)), trans.c:65).
TransposeSubmitEnsures == <>[](todo = <<>> /\ is_transpose)

\* The misses of the block that ends with this step.
BlockEnds == <<at'.ib, at'.jb>> # <<at.ib, at.jb>>
BlockMisses == cache'.missCount - before

\* Off the diagonal a block of 32x32 fetches each of its eight lines of A and
\* eight of B once, and one of 64x64 only the first four of B twice, which is
\* what the order Z1, Z2, Z4, Z3 is for.  On the diagonal, where rows of A and
\* of B compete for the same sets, the element written last keeps "extra
\* conflict miss" (trans.c:97-98) to one line of B per row after the first,
\* and in 64x64 the registers keep it to two fetches of every line.
FewMisses ==
    [][BlockEnds =>
        /\ Is(32, 32) => BlockMisses <= 8 + 8 + (IF at.ib = at.jb THEN 7 ELSE 0)
        /\ Is(64, 64) => BlockMisses <= IF at.ib = at.jb THEN 2 * (8 + 8) ELSE 8 + 8 + 4
      ]_<<csimVars, transVars>>

=============================================================================
