----------------------------- MODULE LabProofs -----------------------------
(***************************************************************************)
(* cache_lab, its simulator and its transposes, and the puzzles of lab1.   *)
(*                                                                         *)
(* RecencyOrder, and that Csim implements TrueLru, for every trace, every  *)
(* number of sets, of lines and of bits in a block.  RecencyOrder is       *)
(* stated with the number of valid lines, which the proof replaces by a    *)
(* witness: some k such that the first k entries of arrLRU list the valid  *)
(* lines, each once.  The tags of a set are read off that list, and what   *)
(* each case of an access does to it is a promotion.                       *)
(*                                                                         *)
(* StoresOnceAndRight, and that what is left when a transpose returns is   *)
(* the transpose, for matrices of every shape.  The accesses of a row or   *)
(* of a block are shown to move the elements of their own cells of B,      *)
(* each once and through a register nothing else is read into meanwhile;   *)
(* the loops, to visit disjoint rows and blocks that cover B.              *)
(*                                                                         *)
(* NumbersRight, FewestBits, BitsMoved and FloatsRight, for every word and *)
(* every float of 32 bits.  What a word says as a number is the sum of the *)
(* powers of two at its ones; the adder is followed position by position,  *)
(* and what it gives is the sum modulo 2^32; the comparisons, the binary   *)
(* search for the first one and the rounding are then arithmetic.          *)
(***************************************************************************)
EXTENDS CacheLab, Bits, Foundations, FiniteSetTheorems, SequenceTheorems

TagValues == {0} \cup {Tag(a) : a \in Nat}
Lines == [LineIndexes -> [v : BOOLEAN, tag : TagValues]]
LruArrays == [LineIndexes -> LineIndexes]
SetRecords == [cLine : Lines, arrLRU : LruArrays]
CacheRecords == [cSet : [SetIndexes -> SetRecords],
                 hitCount : Nat, missCount : Nat, eviCount : Nat]

\* The first k entries of arr are the lines of V, each once.
Lists(arr, V, k) ==
    /\ \A i \in 0 .. k - 1 : arr[i] \in V
    /\ \A l \in V : \E i \in 0 .. k - 1 : arr[i] = l
    /\ \A i, j \in 0 .. k - 1 : arr[i] = arr[j] => i = j

TagsDiffer(inSet) ==
    \A i, j \in ValidLines(inSet) : inSet.cLine[i].tag = inSet.cLine[j].tag => i = j

Ordered(inSet) ==
    /\ TagsDiffer(inSet)
    /\ \E k \in 0 .. args.E : Lists(inSet.arrLRU, ValidLines(inSet), k)

Good(c) == c \in CacheRecords /\ \A n \in SetIndexes : Ordered(c.cSet[n])

IInv == args \in Args /\ Good(cache)

---------------------------------------------------------------------------
(* The greatest element of a set of lines *)

\* The greatest of some lines is one of them: what getEmptyLine returns.
LEMMA GreatestLine ==
    ASSUME args.E \in Nat, NEW S \in SUBSET LineIndexes, S # {}
    PROVE  Max(S) \in S
<1>1. LineIndexes \subseteq 0 .. args.E  BY DEF LineIndexes
<1>2. S \in SUBSET (0 .. args.E)  BY <1>1
<1> QED  BY <1>2, MaxIsMember

---------------------------------------------------------------------------
(* The LRU array *)

\* The entry of a listed line moves to the front (a hit, and an eviction).
LEMMA FrontKeeps ==
    ASSUME args.E \in Nat, NEW arr \in LruArrays, NEW V, NEW k \in 0 .. args.E,
           Lists(arr, V, k), NEW p \in 0 .. k - 1
    PROVE  Lists(MoveToFront(arr, p, arr[p]), V, k)
<1> DEFINE new == MoveToFront(arr, p, arr[p])
<1>1. DOMAIN arr = 0 .. args.E - 1  BY DEF LruArrays, LineIndexes
<1>2. \A i \in 0 .. k - 1 : new[i] = IF i = 0 THEN arr[p] ELSE IF i <= p THEN arr[i - 1] ELSE arr[i]
  BY <1>1 DEF MoveToFront
<1> HIDE DEF new
<1>3. \A i \in 0 .. k - 1 : new[i] \in V
  BY <1>2 DEF Lists
<1>4. ASSUME NEW l \in V PROVE \E i \in 0 .. k - 1 : new[i] = l
  <2>1. PICK j \in 0 .. k - 1 : arr[j] = l  BY DEF Lists
  <2>2. CASE j = p  BY <1>2, <2>1, <2>2
  <2>3. CASE j < p
    <3>1. j + 1 \in 0 .. k - 1 /\ j + 1 # 0 /\ j + 1 <= p /\ (j + 1) - 1 = j  BY <2>3
    <3> QED  BY <1>2, <2>1, <3>1
  <2>4. CASE j > p  BY <1>2, <2>1, <2>4
  <2> QED  BY <2>2, <2>3, <2>4
<1>5. ASSUME NEW i \in 0 .. k - 1, NEW j \in 0 .. k - 1, new[i] = new[j] PROVE i = j
  <2> DEFINE old(x) == IF x = 0 THEN p ELSE IF x <= p THEN x - 1 ELSE x
  <2>1. \A x \in 0 .. k - 1 : new[x] = arr[old(x)] /\ old(x) \in 0 .. k - 1  BY <1>2
  <2>2. old(i) = old(j)
    <3> HIDE DEF old
    <3> QED  BY <1>5, <2>1 DEF Lists
  <2> QED  BY <2>2
<1> QED  BY <1>3, <1>4, <1>5 DEF Lists, new

\* A line that was not listed comes to the front of all the entries.
LEMMA FrontAdds ==
    ASSUME args.E \in Nat, NEW arr \in LruArrays, NEW V, NEW k \in 0 .. args.E - 1,
           Lists(arr, V, k), NEW l, l \notin V
    PROVE  Lists(MoveToFront(arr, args.E - 1, l), V \cup {l}, k + 1)
<1> DEFINE new == MoveToFront(arr, args.E - 1, l)
<1>1. DOMAIN arr = 0 .. args.E - 1  BY DEF LruArrays, LineIndexes
<1>2. \A i \in 0 .. k : new[i] = IF i = 0 THEN l ELSE arr[i - 1]
  BY <1>1 DEF MoveToFront
<1> HIDE DEF new
<1>3. \A i \in 0 .. k : new[i] \in V \cup {l}
  BY <1>2 DEF Lists
<1>4. ASSUME NEW x \in V \cup {l} PROVE \E i \in 0 .. k : new[i] = x
  <2>1. CASE x = l
    <3>1. 0 \in 0 .. k /\ new[0] = x  BY <1>2, <2>1
    <3> QED  BY <3>1
  <2>2. CASE x \in V
    <3>1. PICK j \in 0 .. k - 1 : arr[j] = x  BY <2>2 DEF Lists
    <3>2. j + 1 \in 0 .. k /\ j + 1 # 0 /\ (j + 1) - 1 = j  OBVIOUS
    <3> QED  BY <1>2, <3>1, <3>2
  <2> QED  BY <2>1, <2>2
<1>5. ASSUME NEW i \in 0 .. k, NEW j \in 0 .. k, new[i] = new[j] PROVE i = j
  <2>1. \A x \in 0 .. k : x # 0 => x - 1 \in 0 .. k - 1 /\ arr[x - 1] # l  BY DEF Lists
  <2>2. CASE i = 0 \/ j = 0  BY <1>2, <1>5, <2>1, <2>2
  <2>3. CASE i # 0 /\ j # 0
    <3>1. arr[i - 1] = arr[j - 1]  BY <1>2, <1>5, <2>3
    <3>2. i - 1 = j - 1  BY <2>1, <2>3, <3>1 DEF Lists
    <3> QED  BY <3>2
  <2> QED  BY <2>2, <2>3
<1>6. (k + 1) - 1 = k  OBVIOUS
<1> QED  BY <1>3, <1>4, <1>5, <1>6 DEF Lists, new

\* The witness is the number of valid lines.
LEMMA ListsCount ==
    ASSUME NEW arr, NEW V, NEW k \in Nat, Lists(arr, V, k)
    PROVE  Cardinality(V) = k
<1> DEFINE f == [i \in 1 .. k |-> arr[i - 1]]
<1>1. f \in [1 .. k -> V]  BY DEF Lists
<1>2. \A l \in V : \E i \in 1 .. k : f[i] = l
  <2>1. SUFFICES ASSUME NEW l \in V PROVE \E i \in 1 .. k : f[i] = l
    OBVIOUS
  <2>2. PICK j \in 0 .. k - 1 : arr[j] = l  BY DEF Lists
  <2>3. j + 1 \in 1 .. k /\ f[j + 1] = l  BY <2>2
  <2> QED  BY <2>3
<1>3. \A i, j \in 1 .. k : f[i] = f[j] => i = j
  <2>1. SUFFICES ASSUME NEW i \in 1 .. k, NEW j \in 1 .. k, f[i] = f[j] PROVE i = j
    OBVIOUS
  <2>2. i - 1 \in 0 .. k - 1 /\ j - 1 \in 0 .. k - 1  OBVIOUS
  <2>3. i - 1 = j - 1  BY <2>1, <2>2 DEF Lists
  <2> QED  BY <2>3
<1> HIDE DEF f
<1>4. f \in Bijection(1 .. k, V)
  BY <1>1, <1>2, <1>3 DEF Bijection, Injection, Surjection, IsInjective
<1>5. IsFiniteSet(1 .. k) /\ Cardinality(1 .. k) = k  BY FS_Interval
<1>6. ExistsBijection(1 .. k, V)  BY <1>4 DEF ExistsBijection
<1> QED  BY <1>5, <1>6, FS_Bijection

---------------------------------------------------------------------------
(* One set *)

\* There are E lines.
LEMMA LineCount ==
    ASSUME args.E \in Nat \ {0}
    PROVE  IsFiniteSet(LineIndexes) /\ Cardinality(LineIndexes) = args.E
<1> DEFINE last == args.E - 1
<1>1. 0 \in Int /\ last \in Int /\ ~ (0 > last) /\ last - 0 + 1 = args.E  OBVIOUS
<1> HIDE DEF last
<1>2. IsFiniteSet(0 .. last) /\ Cardinality(0 .. last) = last - 0 + 1  BY <1>1, FS_Interval
<1> QED  BY <1>1, <1>2 DEF LineIndexes, last

\* Putting a line in front of some entries gives an array of lines.
LEMMA NewArray ==
    ASSUME args.E \in Nat \ {0}, NEW arr \in LruArrays, NEW spot, NEW l \in LineIndexes
    PROVE  MoveToFront(arr, spot, l) \in LruArrays
<1>1. DOMAIN arr = LineIndexes /\ \A i \in LineIndexes : arr[i] \in LineIndexes  BY DEF LruArrays
<1>2. \A i \in LineIndexes : i # 0 => i - 1 \in LineIndexes  BY DEF LineIndexes
<1>3. MoveToFront(arr, spot, l) = [i \in LineIndexes |-> IF i = 0 THEN l ELSE IF i <= spot THEN arr[i - 1] ELSE arr[i]]
  BY <1>1 DEF MoveToFront
<1>4. \A i \in LineIndexes :
        (IF i = 0 THEN l ELSE IF i <= spot THEN arr[i - 1] ELSE arr[i]) \in LineIndexes
  BY <1>1, <1>2
<1> QED  BY <1>3, <1>4 DEF LruArrays

\* A hit moves the line it hits to the front of the list.
LEMMA HitKeeps ==
    ASSUME args.E \in Nat \ {0}, NEW inSet \in SetRecords, Ordered(inSet),
           NEW l \in ValidLines(inSet)
    PROVE  LET new == [inSet EXCEPT !.arrLRU = UpdateLRUWhenHit(@, l)]
           IN  new \in SetRecords /\ Ordered(new)
<1> DEFINE arr == inSet.arrLRU
           spot == Min({i \in DOMAIN arr : arr[i] = l})
           new == [inSet EXCEPT !.arrLRU = UpdateLRUWhenHit(@, l)]
<1>1. arr \in LruArrays /\ inSet.cLine \in Lines  BY DEF SetRecords
<1>2. DOMAIN arr = LineIndexes  BY <1>1 DEF LruArrays
<1>3. PICK k \in 0 .. args.E : Lists(arr, ValidLines(inSet), k)  BY DEF Ordered
<1>4. PICK j \in 0 .. k - 1 : arr[j] = l  BY <1>3 DEF Lists
<1>5. spot \in 0 .. k - 1 /\ arr[spot] = l
  <2> DEFINE S == {i \in DOMAIN arr : arr[i] = l}
  <2>1. S \in SUBSET Nat  BY <1>2 DEF LineIndexes
  <2>2. j \in S  BY <1>2, <1>4 DEF LineIndexes
  <2>3. spot \in S /\ spot <= j  BY <2>1, <2>2, MinIsMember
  <2> QED  BY <2>1, <2>3
<1>6. l \in LineIndexes  BY DEF ValidLines
<1>7. UpdateLRUWhenHit(arr, l) = MoveToFront(arr, spot, arr[spot])
  BY <1>5 DEF UpdateLRUWhenHit
<1> HIDE DEF spot
<1>8. MoveToFront(arr, spot, arr[spot]) \in LruArrays  BY <1>1, <1>5, <1>6, NewArray
<1>9. Lists(MoveToFront(arr, spot, arr[spot]), ValidLines(inSet), k)  BY <1>1, <1>3, <1>5, FrontKeeps
<1>10. new.cLine = inSet.cLine /\ new.arrLRU = MoveToFront(arr, spot, arr[spot]) /\ new \in SetRecords
  BY <1>1, <1>7, <1>8 DEF SetRecords
<1>11. ValidLines(new) = ValidLines(inSet)  BY <1>10 DEF ValidLines, Invalid
<1>12. Ordered(new)  BY <1>9, <1>10, <1>11 DEF Ordered, TagsDiffer
<1> QED  BY <1>10, <1>12

\* What a miss does to the lines, wherever the new one is put.
LEMMA PutLineEffect ==
    ASSUME NEW inSet \in SetRecords, TagsDiffer(inSet), NEW l \in LineIndexes,
           NEW t \in TagValues, Hits(inSet, t) = {}, NEW newLRU \in LruArrays
    PROVE  LET new == PutLine(inSet, l, t, newLRU)
           IN  /\ new \in SetRecords /\ new.arrLRU = newLRU
               /\ ValidLines(new) = ValidLines(inSet) \cup {l}
               /\ TagsDiffer(new)
<1> DEFINE new == PutLine(inSet, l, t, newLRU)
           lines == [inSet.cLine EXCEPT ![l] = [v |-> TRUE, tag |-> t]]
<1>1. inSet.cLine \in Lines  BY DEF SetRecords
<1>2. new = [cLine |-> lines, arrLRU |-> newLRU]  BY DEF PutLine
<1>3. lines \in Lines  BY <1>1 DEF Lines
<1>4. new \in SetRecords /\ new.arrLRU = newLRU /\ new.cLine = lines  BY <1>2, <1>3 DEF SetRecords
<1>5. \A i \in LineIndexes : lines[i] = IF i = l THEN [v |-> TRUE, tag |-> t] ELSE inSet.cLine[i]
  BY <1>1 DEF Lines
<1> HIDE DEF lines, new
<1>6. \A i \in LineIndexes : new.cLine[i].v <=> (i = l \/ inSet.cLine[i].v)  BY <1>4, <1>5
<1>7. ValidLines(new) = ValidLines(inSet) \cup {l}  BY <1>6 DEF ValidLines, Invalid
<1>8. \A i \in ValidLines(inSet) : inSet.cLine[i].tag # t  BY DEF Hits, ValidLines, Invalid
<1>9. \A i \in ValidLines(new) : i \in LineIndexes /\ (i # l => i \in ValidLines(inSet))
  BY <1>7 DEF ValidLines
<1>10. TagsDiffer(new)  BY <1>4, <1>5, <1>8, <1>9 DEF TagsDiffer
<1> QED  BY <1>4, <1>7, <1>10 DEF new

\* A miss with an empty line puts that line in front of the list.
LEMMA MissKeeps ==
    ASSUME args.E \in Nat \ {0}, NEW inSet \in SetRecords, Ordered(inSet),
           NEW l \in Invalid(inSet), NEW t \in TagValues, Hits(inSet, t) = {}
    PROVE  LET new == PutLine(inSet, l, t, UpdateLRUWhenMiss(inSet.arrLRU, l))
           IN  new \in SetRecords /\ Ordered(new)
<1> DEFINE arr == inSet.arrLRU
           V == ValidLines(inSet)
           newLRU == UpdateLRUWhenMiss(arr, l)
           new == PutLine(inSet, l, t, newLRU)
<1>1. arr \in LruArrays  BY DEF SetRecords
<1>2. l \in LineIndexes /\ l \notin V  BY DEF Invalid, ValidLines
<1>3. PICK k \in 0 .. args.E : Lists(arr, V, k)  BY DEF Ordered
<1>4. k \in 0 .. args.E - 1
  <2>1. Cardinality(V) = k  BY <1>3, ListsCount
  <2>2. IsFiniteSet(LineIndexes) /\ Cardinality(LineIndexes) = args.E  BY LineCount
  <2>3. V \subseteq LineIndexes  BY DEF ValidLines
  <2>4. V # LineIndexes  BY <1>2
  <2>5. Cardinality(V) # args.E  BY <2>2, <2>3, <2>4, FS_Subset
  <2> QED  BY <2>1, <2>5
<1>5. newLRU = MoveToFront(arr, args.E - 1, l)  BY DEF UpdateLRUWhenMiss, LastOf
<1>6. newLRU \in LruArrays  BY <1>1, <1>2, <1>5, NewArray
<1>7. Lists(newLRU, V \cup {l}, k + 1)  BY <1>1, <1>2, <1>3, <1>4, <1>5, FrontAdds
<1>8. TagsDiffer(inSet)  BY DEF Ordered
<1> HIDE DEF newLRU
<1>9. new \in SetRecords /\ new.arrLRU = newLRU /\ ValidLines(new) = V \cup {l} /\ TagsDiffer(new)
  BY <1>2, <1>6, <1>8, PutLineEffect
<1>10. k + 1 \in 0 .. args.E  BY <1>4
<1>11. Ordered(new)  BY <1>7, <1>9, <1>10 DEF Ordered
<1> QED  BY <1>9, <1>11 DEF newLRU

\* A miss in a full set reuses the last line of the list and moves it to the
\* front.
LEMMA EvictKeeps ==
    ASSUME args.E \in Nat \ {0}, NEW inSet \in SetRecords, Ordered(inSet),
           Invalid(inSet) = {}, NEW t \in TagValues, Hits(inSet, t) = {}
    PROVE  LET new == PutLine(inSet, Evicted(inSet.arrLRU), t, UpdateLRUWhenEvic(inSet.arrLRU))
           IN  new \in SetRecords /\ Ordered(new)
<1> DEFINE arr == inSet.arrLRU
           l == Evicted(arr)
           newLRU == UpdateLRUWhenEvic(arr)
           new == PutLine(inSet, l, t, newLRU)
<1>1. arr \in LruArrays  BY DEF SetRecords
<1>2. ValidLines(inSet) = LineIndexes  BY DEF ValidLines
<1>3. PICK k \in 0 .. args.E : Lists(arr, LineIndexes, k)  BY <1>2 DEF Ordered
<1>4. k = args.E
  <2>1. Cardinality(LineIndexes) = k  BY <1>3, ListsCount
  <2>2. Cardinality(LineIndexes) = args.E  BY LineCount
  <2> QED  BY <2>1, <2>2
<1>5. args.E - 1 \in 0 .. k - 1 /\ args.E - 1 \in LineIndexes  BY <1>4 DEF LineIndexes
<1>6. l = arr[args.E - 1] /\ newLRU = MoveToFront(arr, args.E - 1, arr[args.E - 1])
  BY DEF Evicted, UpdateLRUWhenEvic, LastOf
<1>7. l \in LineIndexes  BY <1>1, <1>5, <1>6 DEF LruArrays
<1>8. newLRU \in LruArrays  BY <1>1, <1>6, <1>7, NewArray
<1>9. Lists(newLRU, LineIndexes, k)  BY <1>1, <1>3, <1>5, <1>6, FrontKeeps
<1>10. TagsDiffer(inSet)  BY DEF Ordered
<1> HIDE DEF newLRU, l
<1>11. /\ new \in SetRecords /\ new.arrLRU = newLRU /\ TagsDiffer(new)
       /\ ValidLines(new) = ValidLines(inSet) \cup {l}
  BY <1>7, <1>8, <1>10, PutLineEffect
<1>12. ValidLines(new) = LineIndexes  BY <1>2, <1>7, <1>11
<1>13. Ordered(new)  BY <1>3, <1>9, <1>11, <1>12 DEF Ordered
<1> QED  BY <1>11, <1>13 DEF newLRU, l

---------------------------------------------------------------------------
(* The cache *)

\* It is enough that the set written to is in order; a set index the cache
\* does not have would change no set.
LEMMA OneSetWritten ==
    ASSUME NEW c, Good(c), NEW n, NEW new, NEW h \in Nat, NEW m \in Nat, NEW e \in Nat,
           n \in SetIndexes => new \in SetRecords /\ Ordered(new)
    PROVE  Good([cSet |-> [c.cSet EXCEPT ![n] = new], hitCount |-> h, missCount |-> m, eviCount |-> e])
<1> DEFINE sets == [c.cSet EXCEPT ![n] = new]
           c2 == [cSet |-> sets, hitCount |-> h, missCount |-> m, eviCount |-> e]
<1>1. c.cSet \in [SetIndexes -> SetRecords]  BY DEF Good, CacheRecords
<1>2. \A i \in SetIndexes : sets[i] = IF i = n THEN new ELSE c.cSet[i]  BY <1>1
<1>3. sets \in [SetIndexes -> SetRecords]  BY <1>1
<1> HIDE DEF sets
<1>4. \A i \in SetIndexes : Ordered(sets[i])  BY <1>2 DEF Good
<1>5. c2 \in CacheRecords /\ c2.cSet = sets  BY <1>3 DEF CacheRecords
<1>6. Good(c2)  BY <1>4, <1>5 DEF Good
<1> QED  BY <1>6 DEF sets

\* The cache with one set and the counters replaced.
Written(c, n, new, h, m, e) ==
    [cSet |-> [c.cSet EXCEPT ![n] = new], hitCount |-> h, missCount |-> m, eviCount |-> e]

\* What a set becomes: on a hit, in a full set, and where a line is empty.
Hit(inSet, t) == [inSet EXCEPT !.arrLRU = UpdateLRUWhenHit(@, Max(Hits(inSet, t)))]
Replaced(inSet, t) == PutLine(inSet, Evicted(inSet.arrLRU), t, UpdateLRUWhenEvic(inSet.arrLRU))
LineFilled(inSet, t) == PutLine(inSet, Max(Invalid(inSet)), t, UpdateLRUWhenMiss(inSet.arrLRU, Max(Invalid(inSet))))

\* The three cases of an access.
LEMMA AccessCases ==
    ASSUME NEW c \in CacheRecords, NEW n, NEW t
    PROVE  LET inSet == c.cSet[n]
               d == SimOneLoadOrSave(c, n, t)
           IN  /\ Hits(inSet, t) # {} => d = Written(c, n, Hit(inSet, t), c.hitCount + 1, c.missCount, c.eviCount)
               /\ Hits(inSet, t) = {} /\ Invalid(inSet) = {} =>
                    d = Written(c, n, Replaced(inSet, t), c.hitCount, c.missCount + 1, c.eviCount + 1)
               /\ Hits(inSet, t) = {} /\ Invalid(inSet) # {} =>
                    d = Written(c, n, LineFilled(inSet, t), c.hitCount, c.missCount + 1, c.eviCount)
<1> DEFINE inSet == c.cSet[n]
           d == SimOneLoadOrSave(c, n, t)
<1>1. ASSUME Hits(inSet, t) # {}
      PROVE  d = Written(c, n, Hit(inSet, t), c.hitCount + 1, c.missCount, c.eviCount)
  <2>1. d = [c EXCEPT !.hitCount = @ + 1, !.cSet[n].arrLRU = UpdateLRUWhenHit(@, Max(Hits(inSet, t)))]
    BY <1>1, Zenon DEF SimOneLoadOrSave
  <2> HIDE DEF d
  <2> QED  BY <2>1 DEF CacheRecords, Written, Hit
<1>2. ASSUME Hits(inSet, t) = {}, Invalid(inSet) = {}
      PROVE  d = Written(c, n, Replaced(inSet, t), c.hitCount, c.missCount + 1, c.eviCount + 1)
  <2>1. d = [c EXCEPT !.missCount = @ + 1, !.eviCount = @ + 1, !.cSet[n] = Replaced(inSet, t)]
    BY <1>2, Zenon DEF SimOneLoadOrSave, Replaced
  <2> HIDE DEF d
  <2> QED  BY <2>1 DEF CacheRecords, Written
<1>3. ASSUME Hits(inSet, t) = {}, Invalid(inSet) # {}
      PROVE  d = Written(c, n, LineFilled(inSet, t), c.hitCount, c.missCount + 1, c.eviCount)
  <2>1. d = [c EXCEPT !.missCount = @ + 1, !.cSet[n] = LineFilled(inSet, t)]
    BY <1>3, Zenon DEF SimOneLoadOrSave, LineFilled
  <2> HIDE DEF d
  <2> QED  BY <2>1 DEF CacheRecords, Written
<1> HIDE DEF d
<1> QED  BY <1>1, <1>2, <1>3 DEF d

\* One access leaves every set ordered.
LEMMA AccessKeeps ==
    ASSUME args.E \in Nat \ {0}, NEW c, Good(c), NEW n, NEW t \in TagValues
    PROVE  Good(SimOneLoadOrSave(c, n, t))
<1> DEFINE inSet == c.cSet[n]
           d == SimOneLoadOrSave(c, n, t)
<1>1. c \in CacheRecords /\ c.hitCount \in Nat /\ c.missCount \in Nat /\ c.eviCount \in Nat
  BY DEF Good, CacheRecords
<1>2. n \in SetIndexes => inSet \in SetRecords /\ Ordered(inSet)  BY DEF Good, CacheRecords
<1>3. c.hitCount + 1 \in Nat /\ c.missCount + 1 \in Nat /\ c.eviCount + 1 \in Nat  BY <1>1
<1>4. ASSUME NEW new, NEW h \in Nat, NEW m \in Nat, NEW e \in Nat, d = Written(c, n, new, h, m, e),
             n \in SetIndexes => new \in SetRecords /\ Ordered(new)
      PROVE  Good(d)
  <2> HIDE DEF d
  <2>1. Good(Written(c, n, new, h, m, e))  BY <1>4, OneSetWritten DEF Written
  <2> QED  BY <1>4, <2>1
<1>5. CASE Hits(inSet, t) # {}
  <2>1. d = Written(c, n, Hit(inSet, t), c.hitCount + 1, c.missCount, c.eviCount)
    BY <1>1, <1>5, AccessCases
  <2>2. ASSUME n \in SetIndexes PROVE Hit(inSet, t) \in SetRecords /\ Ordered(Hit(inSet, t))
    <3>1. Max(Hits(inSet, t)) \in Hits(inSet, t)  BY <1>5, GreatestLine DEF Hits
    <3>2. Max(Hits(inSet, t)) \in ValidLines(inSet)  BY <3>1 DEF Hits, ValidLines, Invalid
    <3> QED  BY <1>2, <2>2, <3>2, HitKeeps DEF Hit
  <2> HIDE DEF d, inSet
  <2>3. Good(d)  BY <1>1, <1>3, <1>4, <2>1, <2>2
  <2> QED  BY <2>3 DEF d
<1>6. CASE Hits(inSet, t) = {} /\ Invalid(inSet) = {}
  <2>1. d = Written(c, n, Replaced(inSet, t), c.hitCount, c.missCount + 1, c.eviCount + 1)
    BY <1>1, <1>6, AccessCases
  <2>2. n \in SetIndexes => Replaced(inSet, t) \in SetRecords /\ Ordered(Replaced(inSet, t))
    BY <1>2, <1>6, EvictKeeps DEF Replaced
  <2> HIDE DEF d, inSet
  <2>3. Good(d)  BY <1>1, <1>3, <1>4, <2>1, <2>2
  <2> QED  BY <2>3 DEF d
<1>7. CASE Hits(inSet, t) = {} /\ Invalid(inSet) # {}
  <2>1. d = Written(c, n, LineFilled(inSet, t), c.hitCount, c.missCount + 1, c.eviCount)
    BY <1>1, <1>7, AccessCases
  <2>2. Max(Invalid(inSet)) \in Invalid(inSet)  BY <1>7, GreatestLine DEF Invalid
  <2>3. n \in SetIndexes => LineFilled(inSet, t) \in SetRecords /\ Ordered(LineFilled(inSet, t))
    BY <1>2, <1>7, <2>2, MissKeeps DEF LineFilled
  <2> HIDE DEF d, inSet
  <2>4. Good(d)  BY <1>1, <1>3, <1>4, <2>1, <2>3
  <2> QED  BY <2>4 DEF d
<1> QED  BY <1>5, <1>6, <1>7

---------------------------------------------------------------------------
(* The invariant *)

\* With no line valid the empty list will do.
LEMMA InitHolds == CsimInit => IInv
<1>1. SUFFICES ASSUME CsimInit PROVE IInv
  OBVIOUS
<1>2. args \in Args /\ args.E \in Nat \ {0}  BY <1>1, ArgsAssumption DEF CsimInit
<1>3. 0 \in LineIndexes /\ 0 \in TagValues  BY <1>2 DEF LineIndexes, TagValues
<1>4. EmptySet \in SetRecords  BY <1>3 DEF EmptySet, SetRecords, Lines, LruArrays
<1>5. ValidLines(EmptySet) = {}  BY DEF ValidLines, Invalid, EmptySet
<1>6. Lists(EmptySet.arrLRU, {}, 0)  BY DEF Lists
<1>7. 0 \in 0 .. args.E  BY <1>2
<1>8. Ordered(EmptySet)  BY <1>5, <1>6, <1>7 DEF Ordered, TagsDiffer
<1>9. cache = [cSet |-> [i \in SetIndexes |-> EmptySet], hitCount |-> 0, missCount |-> 0, eviCount |-> 0]
  BY <1>1 DEF CsimInit, ConstructCacheIns
<1> QED  BY <1>2, <1>4, <1>8, <1>9 DEF IInv, Good, CacheRecords

\* A set that is in order is so whatever its cache is called.
LEMMA GoodNext ==
    ASSUME IInv, args' = args, Good(cache')
    PROVE  IInv'
<1>1. IInv' <=> args' \in Args /\ Good(cache)'  BY DEF IInv
<1>2. Good(cache)' <=> Good(cache')
  BY DEF Good, CacheRecords, SetRecords, Lines, LruArrays, TagValues, Tag, SetIndexes,
         LineIndexes, Ordered, TagsDiffer, Lists, ValidLines, Invalid
<1> QED  BY <1>1, <1>2 DEF IInv

\* A modify is two accesses, an instruction fetch none.
LEMMA InstructionKeeps ==
    ASSUME IInv, NEW inType \in Types, NEW inAddr \in Nat, SimOneInstruction(inType, inAddr)
    PROVE  IInv'
<1> DEFINE Access(c) == SimOneLoadOrSave(c, SetIndex(inAddr), Tag(inAddr))
<1>1. args.E \in Nat \ {0}  BY ArgsAssumption DEF IInv
<1>2. Tag(inAddr) \in TagValues  BY DEF TagValues
<1>3. \A c : Good(c) => Good(Access(c))  BY <1>1, <1>2, AccessKeeps
<1>4. args' = args  BY DEF SimOneInstruction
<1>5. cache' = CASE inType \in {"L", "S"} -> Access(cache)
                 [] inType = "M" -> Access(Access(cache))
                 [] inType = "I" -> cache
  BY DEF SimOneInstruction
<1> HIDE DEF Access
<1>6. cache' = Access(cache) \/ cache' = Access(Access(cache)) \/ cache' = cache
  BY <1>5 DEF Types
<1>7. Good(cache')  BY <1>3, <1>6 DEF IInv
<1> QED  BY <1>4, <1>7, GoodNext

\* An address of the trace is a number.
LEMMA TraceAddress == \A a \in 0 .. Pow2[AddrWidth] - 1 : a \in Nat
OBVIOUS

\* An instruction of the trace keeps the invariant.
LEMMA StepKeeps == IInv /\ [Replay]_csimVars => IInv'
<1>1. SUFFICES ASSUME IInv, [Replay]_csimVars PROVE IInv'
  OBVIOUS
<1>2. CASE UNCHANGED csimVars  BY <1>1, <1>2, GoodNext DEF csimVars, IInv
<1>3. CASE Replay  BY <1>1, <1>3, TraceAddress, InstructionKeeps DEF Replay
<1> QED  BY <1>1, <1>2, <1>3

\* The witness is the number of valid lines, so the list is all of them.
LEMMA IInvImpliesRecencyOrder == IInv => RecencyOrder
<1>1. SUFFICES ASSUME IInv, NEW n \in SetIndexes
               PROVE  LET inSet == cache.cSet[n]
                          k == Cardinality(ValidLines(inSet))
                      IN /\ {inSet.arrLRU[i] : i \in 0 .. k - 1} = ValidLines(inSet)
                         /\ \A i, j \in ValidLines(inSet) :
                              inSet.cLine[i].tag = inSet.cLine[j].tag => i = j
  BY DEF RecencyOrder
<1> DEFINE inSet == cache.cSet[n]
<1>2. args.E \in Nat \ {0} /\ Ordered(inSet)  BY <1>1, ArgsAssumption DEF IInv, Good
<1> HIDE DEF inSet
<1>3. PICK k \in 0 .. args.E : Lists(inSet.arrLRU, ValidLines(inSet), k)  BY <1>2 DEF Ordered
<1>4. Cardinality(ValidLines(inSet)) = k  BY <1>2, <1>3, ListsCount
<1>5. {inSet.arrLRU[i] : i \in 0 .. k - 1} = ValidLines(inSet)  BY <1>3 DEF Lists
<1> QED  BY <1>2, <1>4, <1>5 DEF Ordered, TagsDiffer, inSet

\* For every trace and every geometry, the front of arrLRU ranks the valid
\* lines of its set, each once, and no two of them hold the same tag.
THEOREM LruArrayIsARanking == CsimSpec => []RecencyOrder
<1>1. CsimSpec => []IInv  BY InitHolds, StepKeeps, PTL DEF CsimSpec
<1> QED  BY <1>1, IInvImpliesRecencyOrder, PTL

---------------------------------------------------------------------------
(* Parts of an address *)

\* The bits above the lowest, cut off above: what two shifts leave.
LEMMA ModDiv ==
    ASSUME NEW x \in Nat, NEW b \in Nat \ {0}, NEW s \in Nat \ {0}
    PROVE  (x % (s * b)) \div b = (x \div b) % s /\ x \div (s * b) = (x \div b) \div s
<1> DEFINE q == x \div b
           r == x % b
           u == q \div s
           v == q % s
<1>1. x = b * q + r /\ r \in 0 .. b - 1 /\ q \in Nat  OBVIOUS
<1>2. q = s * u + v /\ v \in 0 .. s - 1 /\ u \in Nat  BY <1>1
<1>3. x \div (s * b) = (x \div b) \div s  OBVIOUS
<1> HIDE DEF q, r, u, v
<1>4. x = (s * b) * u + (b * v + r)  BY <1>1, <1>2
<1>5. b * v + r \in Nat /\ b * v + r < s * b
  <2>1. b * v <= b * (s - 1)  BY <1>2
  <2>2. b * v \in Nat  BY <1>2
  <2>3. b * (s - 1) = s * b - b  OBVIOUS
  <2>4. s * b \in Nat  OBVIOUS
  <2> QED  BY <1>1, <2>1, <2>2, <2>3, <2>4
<1>6. s * b \in Nat \ {0}  OBVIOUS
<1>7. x % (s * b) = b * v + r
  <2> DEFINE m == s * b
             w == b * v + r
  <2>1. m \in Nat \ {0} /\ w \in Nat /\ w < m /\ x = m * u + w  BY <1>4, <1>5, <1>6
  <2> HIDE DEF m, w
  <2>2. x % m = w  BY <1>2, <2>1
  <2> QED  BY <2>2 DEF m, w
<1>8. (b * v + r) \div b = v  BY <1>1, <1>2
<1> QED  BY <1>3, <1>7, <1>8 DEF q, v

\* The shifts of SimOneInstruction give the block's set and its tag.
LEMMA AddressParts ==
    ASSUME args \in Args, NEW a \in Nat
    PROVE  /\ Tag(a) = Truth!TagOf(a) /\ SetIndex(a) = Truth!SetOf(a)
           /\ SetIndex(a) \in SetIndexes
<1> DEFINE w == AddrWidth - args.s - args.b
           b == Pow2[args.b]
           s == Pow2[args.s]
           x == Pow2[w]
<1>1. /\ args.s \in Nat /\ args.b \in Nat /\ w \in Nat /\ args.s + args.b \in Nat
      /\ AddrWidth - w = args.s + args.b
  BY ArgsAssumption, AddrWidthAssumption
<1>2. b \in Nat \ {0} /\ s \in Nat \ {0} /\ x \in Nat \ {0} /\ Pow2[args.s + args.b] = s * b
  BY <1>1, PowSum
<1>4. a \in Nat  OBVIOUS
<1>5. SetIndex(a) = ((((a % Pow2[AddrWidth - w]) * x) \div x) \div b)
  BY DEF SetIndex, ShiftRight, ShiftLeft
<1>6. Tag(a) = a \div Pow2[args.s + args.b]  BY DEF Tag, ShiftRight
<1>7. Truth!TagOf(a) = (a \div b) \div s /\ Truth!SetOf(a) = (a \div b) % s
  BY DEF Truth!TagOf, Truth!SetOf, Truth!Block, Truth!Pow2, Pow2
<1>8. SetIndexes = 0 .. s - 1  BY DEF SetIndexes
<1> HIDE DEF w, b, s, x
<1>9. a % (s * b) \in Nat
  <2>1. s * b \in Nat \ {0}  BY <1>2
  <2> QED  BY <1>4, <2>1
<1>10. SetIndex(a) = (a % (s * b)) \div b
  <2>1. \A y \in Nat : (y * x) \div x = y  BY <1>2
  <2> QED  BY <1>1, <1>2, <1>5, <1>9, <2>1
<1>11. SetIndex(a) = (a \div b) % s /\ Tag(a) = (a \div b) \div s
  <2>1. (a % (s * b)) \div b = (a \div b) % s /\ a \div (s * b) = (a \div b) \div s
    BY <1>2, <1>4, ModDiv
  <2> QED  BY <1>2, <1>6, <1>10, <2>1
<1>12. (a \div b) % s \in 0 .. s - 1
  <2>1. a \div b \in Nat  BY <1>2, <1>4
  <2> QED  BY <1>2, <2>1
<1> QED  BY <1>7, <1>8, <1>11, <1>12

---------------------------------------------------------------------------
(* A set of the cache as a sequence of tags *)

\* The tag at p is nowhere else.
AloneAt(tags, p) == \A i \in 1 .. Len(tags) : tags[i] = tags[p] => i = p

\* tags with the one at p moved to the front.
Fronted(tags, p) == [n \in 1 .. Len(tags) |-> IF n = 1 THEN tags[p] ELSE IF n <= p THEN tags[n - 1] ELSE tags[n]]

\* Promoting the tag at p moves those before it down by one.
LEMMA PromoteHit ==
    ASSUME args.E \in Nat, NEW S, NEW tags \in Seq(S), Len(tags) <= args.E,
           NEW p \in 1 .. Len(tags), AloneAt(tags, p)
    PROVE  Truth!Promote(tags[p], tags) = Fronted(tags, p)
<1> DEFINE k == Len(tags)
           t == tags[p]
           rest == SubSeq(tags, 1, p - 1) \o SubSeq(tags, p + 1, k)
           new == [n \in 1 .. k |-> IF n = 1 THEN t ELSE IF n <= p THEN tags[n - 1] ELSE tags[n]]
<1>1. k \in Nat /\ p \in 1 .. k /\ t \in S /\ \A i \in 1 .. k : tags[i] \in S
  BY LenProperties, ElementOfSeq
<1>2. Truth!RemoveFirst(tags, t) = rest
  <2> DEFINE I == {i \in 1 .. k : tags[i] = t}
  <2>1. I = {p}  BY <1>1 DEF AloneAt
  <2>2. Min({p}) = p
    <3>1. {p} \in SUBSET Nat /\ {p} # {}  OBVIOUS
    <3>2. Min({p}) \in {p}  BY <3>1, MinIsMember
    <3> QED  BY <3>2
  <2>3. Truth!Min({p}) = Min({p})  BY Zenon DEF Truth!Min, Min
  <2>4. Truth!SelectInSeq(tags, LAMBDA v : v = t) = IF I # {} THEN Truth!Min(I) ELSE 0
    BY Zenon DEF Truth!SelectInSeq
  <2>5. Truth!SelectInSeq(tags, LAMBDA v : v = t) = p
    <3> HIDE DEF I, t
    <3> QED  BY <2>1, <2>2, <2>3, <2>4
  <2>6. Truth!RemoveFirst(tags, t) = Truth!RemoveAt(tags, Truth!SelectInSeq(tags, LAMBDA v : v = t))
    <3>1. \E i \in 1 .. Len(tags) : tags[i] = t  OBVIOUS
    <3> HIDE DEF t
    <3> QED  BY <3>1, Zenon DEF Truth!RemoveFirst
  <2>7. Truth!RemoveAt(tags, p) = rest  BY Zenon DEF Truth!RemoveAt
  <2> HIDE DEF t, rest
  <2> QED  BY <2>5, <2>6, <2>7
<1>3. /\ rest \in Seq(S) /\ Len(rest) = k - 1
      /\ \A i \in 1 .. k - 1 : rest[i] = IF i < p THEN tags[i] ELSE tags[i + 1]
  <2> DEFINE a == SubSeq(tags, 1, p - 1)
             b == SubSeq(tags, p + 1, k)
  <2>1. /\ a \in Seq(S) /\ Len(a) = p - 1 /\ \A i \in 1 .. p - 1 : a[i] = tags[i]
    <3>1. p - 1 \in Int /\ 1 \in Int /\ \A i \in 1 .. p - 1 : tags[i] \in S  BY <1>1
    <3>2. /\ a \in Seq(S) /\ Len(a) = IF 1 <= p - 1 THEN (p - 1) - 1 + 1 ELSE 0
          /\ \A i \in 1 .. (p - 1) - 1 + 1 : a[i] = tags[1 + i - 1]
      BY <3>1, SubSeqProperties
    <3> HIDE DEF a
    <3> QED  BY <3>2
  <2>2. /\ b \in Seq(S) /\ Len(b) = k - p /\ \A i \in 1 .. k - p : b[i] = tags[p + i]
    <3>1. p + 1 \in Int /\ k \in Int /\ \A i \in p + 1 .. k : tags[i] \in S  BY <1>1
    <3>2. /\ b \in Seq(S) /\ Len(b) = IF p + 1 <= k THEN k - (p + 1) + 1 ELSE 0
          /\ \A i \in 1 .. k - (p + 1) + 1 : b[i] = tags[(p + 1) + i - 1]
      BY <3>1, SubSeqProperties
    <3> HIDE DEF b, k
    <3> QED  BY <1>1, <3>2
  <2>3. rest = a \o b  OBVIOUS
  <2> HIDE DEF a, b, rest, k
  <2>4. /\ a \o b \in Seq(S) /\ Len(a \o b) = Len(a) + Len(b)
        /\ \A i \in 1 .. Len(a) + Len(b) : (a \o b)[i] = IF i <= Len(a) THEN a[i] ELSE b[i - Len(a)]
    BY <2>1, <2>2, ConcatProperties
  <2>5. Len(a) + Len(b) = k - 1  BY <1>1, <2>1, <2>2
  <2>6. ASSUME NEW i \in 1 .. k - 1 PROVE rest[i] = IF i < p THEN tags[i] ELSE tags[i + 1]
    <3>1. rest[i] = IF i <= p - 1 THEN a[i] ELSE b[i - (p - 1)]  BY <2>1, <2>3, <2>4, <2>5
    <3>2. CASE i < p  BY <1>1, <2>1, <3>1, <3>2
    <3>3. CASE i >= p
      <4>1. i - (p - 1) \in 1 .. k - p /\ p + (i - (p - 1)) = i + 1 /\ ~ (i <= p - 1) /\ ~ (i < p)
        BY <1>1, <3>3
      <4>2. b[i - (p - 1)] = tags[i + 1]  BY <2>2, <4>1
      <4> QED  BY <3>1, <4>1, <4>2
    <3> QED  BY <1>1, <3>2, <3>3
  <2> QED  BY <2>3, <2>4, <2>5, <2>6
<1>4. /\ <<t>> \o rest \in Seq(S) /\ Len(<<t>> \o rest) = k
      /\ \A i \in 1 .. k : (<<t>> \o rest)[i] = IF i = 1 THEN t ELSE rest[i - 1]
  <2>1. <<t>> \in Seq(S) /\ Len(<<t>>) = 1 /\ <<t>>[1] = t  BY <1>1
  <2> HIDE DEF t, rest, k
  <2>2. /\ <<t>> \o rest \in Seq(S) /\ Len(<<t>> \o rest) = Len(<<t>>) + Len(rest)
        /\ \A i \in 1 .. Len(<<t>>) + Len(rest) :
             (<<t>> \o rest)[i] = IF i <= Len(<<t>>) THEN <<t>>[i] ELSE rest[i - Len(<<t>>)]
    BY <1>3, <2>1, ConcatProperties
  <2>3. Len(<<t>>) + Len(rest) = k  BY <1>1, <1>3, <2>1
  <2>4. \A i \in 1 .. k : (i <= 1 <=> i = 1)  BY <1>1
  <2> QED  BY <2>1, <2>2, <2>3, <2>4
<1>5. Truth!Promote(t, tags) = <<t>> \o rest
  <2>1. Truth!Promote(t, tags) = IF Len(<<t>> \o rest) > args.E THEN Truth!Front(<<t>> \o rest) ELSE <<t>> \o rest
    <3> HIDE DEF t, rest
    <3> QED  BY <1>2, Zenon DEF Truth!Promote
  <2> HIDE DEF t, rest
  <2> QED  BY <1>1, <1>4, <2>1
<1>6. <<t>> \o rest = new
  <2>1. <<t>> \o rest = [i \in 1 .. k |-> (<<t>> \o rest)[i]]
    <3> DEFINE list == <<t>> \o rest
    <3>1. list \in Seq(S) /\ Len(list) = k  BY <1>4
    <3> HIDE DEF list, k
    <3>2. list = [i \in 1 .. k |-> list[i]]  BY <3>1, LenProperties
    <3> QED  BY <3>2 DEF list
  <2>2. ASSUME NEW i \in 1 .. k PROVE (<<t>> \o rest)[i] = new[i]
    <3>1. CASE i = 1  BY <1>4, <3>1
    <3>2. CASE i # 1
      <4>1. i - 1 \in 1 .. k - 1 /\ (i - 1) + 1 = i /\ (i - 1 < p <=> i <= p)  BY <1>1, <3>2
      <4> HIDE DEF k, rest, t
      <4>2. rest[i - 1] = IF i <= p THEN tags[i - 1] ELSE tags[i]  BY <1>3, <4>1
      <4> QED  BY <1>4, <3>2, <4>2
    <3> QED  BY <3>1, <3>2
  <2>3. new = [i \in 1 .. k |-> new[i]]  OBVIOUS
  <2> HIDE DEF k, rest, t, new
  <2> QED  BY <2>1, <2>2, <2>3
<1> QED  BY <1>5, <1>6 DEF Fronted

\* t is not in tags.
Lacks(tags, t) == \A i \in 1 .. Len(tags) : tags[i] # t

\* t and then tags, k in all.
Behind(t, tags, k) == [n \in 1 .. k |-> IF n = 1 THEN t ELSE tags[n - 1]]

\* A tag that is not there comes before all the others; the last may go.
LEMMA PromoteMiss ==
    ASSUME args.E \in Nat \ {0}, NEW S, NEW tags \in Seq(S), Len(tags) <= args.E, NEW t \in S,
           Lacks(tags, t), NEW k \in Nat,
           k = IF Len(tags) = args.E THEN Len(tags) ELSE Len(tags) + 1
    PROVE  Truth!Promote(t, tags) = Behind(t, tags, k)
<1> DEFINE list == <<t>> \o tags
           new == Behind(t, tags, k)
           len == Len(tags)
<1>1. len \in Nat  BY LenProperties
<1>2. Truth!RemoveFirst(tags, t) = tags
  <2>1. ~ \E i \in 1 .. Len(tags) : tags[i] = t  BY DEF Lacks
  <2> QED  BY <2>1, Zenon DEF Truth!RemoveFirst
<1>3. Truth!Promote(t, tags) = IF Len(list) > args.E THEN Truth!Front(list) ELSE list
  BY <1>2, Zenon DEF Truth!Promote
<1>4. list \in Seq(S) /\ Len(list) = len + 1 /\ \A i \in 1 .. len + 1 : list[i] = IF i = 1 THEN t ELSE tags[i - 1]
  <2>1. <<t>> \in Seq(S) /\ Len(<<t>>) = 1 /\ <<t>>[1] = t  OBVIOUS
  <2>2. /\ list \in Seq(S) /\ Len(list) = Len(<<t>>) + Len(tags)
        /\ \A i \in 1 .. Len(<<t>>) + Len(tags) :
             list[i] = IF i <= Len(<<t>>) THEN <<t>>[i] ELSE tags[i - Len(<<t>>)]
    BY <2>1, ConcatProperties
  <2>3. Len(<<t>>) + Len(tags) = len + 1  BY <1>1, <2>1
  <2>4. \A i \in 1 .. len + 1 : (i <= 1 <=> i = 1)  BY <1>1
  <2> HIDE DEF list, len
  <2> QED  BY <2>1, <2>2, <2>3, <2>4
<1>5. CASE len < args.E
  <2>1. k = len + 1 /\ ~ (len + 1 > args.E)  BY <1>1, <1>5
  <2>2. list = [i \in 1 .. k |-> list[i]]  BY <1>4, <2>1, LenProperties
  <2> HIDE DEF list, len
  <2>3. list = new  BY <1>4, <2>1, <2>2 DEF Behind
  <2> QED  BY <1>3, <1>4, <2>1, <2>3
<1>6. CASE len = args.E
  <2>1. k = len /\ len + 1 > args.E  BY <1>1, <1>6
  <2>2. Truth!Front(list) = SubSeq(list, 1, Len(list) - 1)  BY Zenon DEF Truth!Front
  <2>3. \A i \in 1 .. len + 1 : list[i] \in S  BY <1>4, ElementOfSeq
  <2> HIDE DEF list, len
  <2>4. Len(list) - 1 = k  BY <1>1, <1>4, <2>1
  <2>5. /\ SubSeq(list, 1, k) \in Seq(S) /\ Len(SubSeq(list, 1, k)) = IF 1 <= k THEN k - 1 + 1 ELSE 0
        /\ \A i \in 1 .. k - 1 + 1 : SubSeq(list, 1, k)[i] = list[1 + i - 1]
    <3>1. 1 \in Int /\ k \in Int /\ \A i \in 1 .. k : list[i] \in S  BY <1>1, <2>1, <2>3
    <3> QED  BY <3>1, SubSeqProperties
  <2> DEFINE front == SubSeq(list, 1, k)
  <2>6. front \in Seq(S) /\ Len(front) = k /\ \A i \in 1 .. k : front[i] = list[i]
    <3> HIDE DEF front
    <3> QED  BY <2>5 DEF front
  <2>7. front = [i \in 1 .. k |-> front[i]]  BY <2>6, LenProperties
  <2>8. \A i \in 1 .. k : front[i] = IF i = 1 THEN t ELSE tags[i - 1]  BY <1>1, <1>4, <2>1, <2>6
  <2>9. Truth!Promote(t, tags) = front  BY <1>3, <1>4, <2>1, <2>2, <2>4
  <2> HIDE DEF front
  <2>10. front = new  BY <2>7, <2>8 DEF Behind
  <2> QED  BY <2>9, <2>10
<1>7. len < args.E \/ len = args.E  BY <1>1
<1> QED  BY <1>5, <1>6, <1>7

\* The tags of a set that is in order, with k for the number of its lines.
LEMMA RecentTags ==
    ASSUME args.E \in Nat, NEW inSet \in SetRecords, TagsDiffer(inSet), NEW k \in 0 .. args.E,
           Lists(inSet.arrLRU, ValidLines(inSet), k)
    PROVE  /\ Recent(inSet) = [n \in 1 .. k |-> inSet.cLine[inSet.arrLRU[n - 1]].tag]
           /\ Recent(inSet) \in Seq(TagValues) /\ Len(Recent(inSet)) = k
           /\ \A i, j \in 1 .. k : Recent(inSet)[i] = Recent(inSet)[j] => i = j
<1> DEFINE arr == inSet.arrLRU
           tags == [n \in 1 .. k |-> inSet.cLine[arr[n - 1]].tag]
<1>1. Cardinality(ValidLines(inSet)) = k  BY ListsCount
<1>2. Recent(inSet) = tags  BY <1>1 DEF Recent
<1>3. \A i \in 1 .. k : i - 1 \in 0 .. k - 1 /\ arr[i - 1] \in ValidLines(inSet)  BY DEF Lists
<1>4. \A l \in ValidLines(inSet) : l \in LineIndexes /\ inSet.cLine[l].tag \in TagValues
  BY DEF ValidLines, SetRecords, Lines
<1>5. \A i \in 1 .. k : tags[i] \in TagValues  BY <1>3, <1>4
<1>6. tags \in Seq(TagValues) /\ Len(tags) = k
  <2>1. tags \in [1 .. k -> TagValues]  BY <1>5
  <2> HIDE DEF tags
  <2>2. tags \in Seq(TagValues)  BY <2>1, SeqDef
  <2> QED  BY <2>1, <2>2, LenProperties
<1>7. ASSUME NEW i \in 1 .. k, NEW j \in 1 .. k, tags[i] = tags[j] PROVE i = j
  <2>1. inSet.cLine[arr[i - 1]].tag = inSet.cLine[arr[j - 1]].tag  BY <1>7
  <2> HIDE DEF tags
  <2>2. arr[i - 1] = arr[j - 1]  BY <1>3, <2>1 DEF TagsDiffer
  <2>3. i - 1 = j - 1  BY <1>3, <2>2 DEF Lists
  <2> QED  BY <2>3
<1> HIDE DEF tags
<1> QED  BY <1>2, <1>6, <1>7 DEF tags

\* The same with the k of Ordered.
LEMMA OrderedTags ==
    ASSUME args.E \in Nat, NEW inSet \in SetRecords, Ordered(inSet)
    PROVE  \E k \in 0 .. args.E :
             /\ Lists(inSet.arrLRU, ValidLines(inSet), k)
             /\ Recent(inSet) = [n \in 1 .. k |-> inSet.cLine[inSet.arrLRU[n - 1]].tag]
             /\ Recent(inSet) \in Seq(TagValues) /\ Len(Recent(inSet)) = k
             /\ \A i, j \in 1 .. k : Recent(inSet)[i] = Recent(inSet)[j] => i = j
<1>1. TagsDiffer(inSet)  BY DEF Ordered
<1>2. PICK k \in 0 .. args.E : Lists(inSet.arrLRU, ValidLines(inSet), k)  BY DEF Ordered
<1> QED  BY <1>1, <1>2, RecentTags

\* A tag is listed just when some line hits.
LEMMA HitsAreListed ==
    ASSUME args.E \in Nat, NEW inSet \in SetRecords, Ordered(inSet), NEW t
    PROVE  Truth!Contains(Recent(inSet), t) <=> Hits(inSet, t) # {}
<1>1. PICK k \in 0 .. args.E :
             /\ Lists(inSet.arrLRU, ValidLines(inSet), k)
             /\ Recent(inSet) = [n \in 1 .. k |-> inSet.cLine[inSet.arrLRU[n - 1]].tag]
             /\ Len(Recent(inSet)) = k
  BY OrderedTags
<1>2. Truth!Contains(Recent(inSet), t) <=> \E i \in 1 .. k : Recent(inSet)[i] = t
  BY <1>1 DEF Truth!Contains
<1>3. \A l : l \in Hits(inSet, t) <=> l \in ValidLines(inSet) /\ inSet.cLine[l].tag = t
  BY DEF Hits, ValidLines, Invalid
<1>4. ASSUME NEW i \in 1 .. k, Recent(inSet)[i] = t PROVE Hits(inSet, t) # {}
  <2>1. i - 1 \in 0 .. k - 1 /\ inSet.cLine[inSet.arrLRU[i - 1]].tag = t  BY <1>1, <1>4
  <2>2. inSet.arrLRU[i - 1] \in Hits(inSet, t)  BY <1>1, <1>3, <2>1 DEF Lists
  <2> QED  BY <2>2
<1>5. ASSUME NEW l \in Hits(inSet, t) PROVE \E i \in 1 .. k : Recent(inSet)[i] = t
  <2>1. PICK j \in 0 .. k - 1 : inSet.arrLRU[j] = l  BY <1>1, <1>3 DEF Lists
  <2>2. j + 1 \in 1 .. k /\ (j + 1) - 1 = j  OBVIOUS
  <2>3. Recent(inSet)[j + 1] = t  BY <1>1, <1>3, <2>1, <2>2
  <2> QED  BY <2>2, <2>3
<1> QED  BY <1>2, <1>4, <1>5

\* A hit promotes the tag.
LEMMA HitPromotes ==
    ASSUME args.E \in Nat \ {0}, NEW inSet \in SetRecords, Ordered(inSet), NEW t, NEW l \in Hits(inSet, t)
    PROVE  Recent([inSet EXCEPT !.arrLRU = UpdateLRUWhenHit(@, l)]) = Truth!Promote(t, Recent(inSet))
<1> DEFINE arr == inSet.arrLRU
           spot == Min({i \in DOMAIN arr : arr[i] = l})
           new == [inSet EXCEPT !.arrLRU = UpdateLRUWhenHit(@, l)]
           tags == Recent(inSet)
<1>1. arr \in LruArrays /\ inSet.cLine \in Lines  BY DEF SetRecords
<1>2. DOMAIN arr = LineIndexes  BY <1>1 DEF LruArrays
<1>3. l \in ValidLines(inSet) /\ inSet.cLine[l].tag = t  BY DEF Hits, ValidLines, Invalid
<1>4. PICK k \in 0 .. args.E :
             /\ Lists(arr, ValidLines(inSet), k)
             /\ tags = [n \in 1 .. k |-> inSet.cLine[arr[n - 1]].tag]
             /\ tags \in Seq(TagValues) /\ Len(tags) = k
             /\ \A i, j \in 1 .. k : tags[i] = tags[j] => i = j
  BY OrderedTags
<1>5. spot \in 0 .. k - 1 /\ arr[spot] = l
  <2> DEFINE S == {i \in DOMAIN arr : arr[i] = l}
  <2>1. PICK j \in 0 .. k - 1 : arr[j] = l  BY <1>3, <1>4 DEF Lists
  <2>2. S \in SUBSET Nat  BY <1>2 DEF LineIndexes
  <2>3. j \in S  BY <1>2, <2>1 DEF LineIndexes
  <2>4. spot \in S /\ spot <= j  BY <2>2, <2>3, MinIsMember
  <2>5. spot \in Nat /\ arr[spot] = l  BY <2>2, <2>4
  <2> HIDE DEF spot, S
  <2> QED  BY <2>4, <2>5
<1>6. UpdateLRUWhenHit(arr, l) = MoveToFront(arr, spot, l)  BY <1>5 DEF UpdateLRUWhenHit
<1>7. new.cLine = inSet.cLine /\ new.arrLRU = MoveToFront(arr, spot, l)  BY <1>6 DEF SetRecords
<1>8. Cardinality(ValidLines(new)) = k
  <2>1. ValidLines(new) = ValidLines(inSet)  BY <1>7 DEF ValidLines, Invalid
  <2> QED  BY <1>4, <2>1, ListsCount
<1> HIDE DEF spot, new, tags, arr
<1>9. Recent(new) = [n \in 1 .. k |-> inSet.cLine[MoveToFront(arr, spot, l)[n - 1]].tag]
  BY <1>7, <1>8 DEF Recent
<1> DEFINE p == spot + 1
<1>10. p \in 1 .. k /\ tags[p] = t  BY <1>3, <1>4, <1>5
<1>11. Truth!Promote(t, tags)
         = [n \in 1 .. k |-> IF n = 1 THEN t ELSE IF n <= p THEN tags[n - 1] ELSE tags[n]]
  <2>1. AloneAt(tags, p)  BY <1>4, <1>10 DEF AloneAt
  <2>2. p \in 1 .. Len(tags) /\ Len(tags) <= args.E  BY <1>4, <1>10
  <2> HIDE DEF p
  <2>3. Truth!Promote(tags[p], tags) = Fronted(tags, p)  BY <1>4, <2>1, <2>2, PromoteHit
  <2> QED  BY <1>4, <1>10, <2>3 DEF Fronted
<1>12. \A n \in 1 .. k : MoveToFront(arr, spot, l)[n - 1] = IF n = 1 THEN l ELSE IF n <= p THEN arr[n - 2] ELSE arr[n - 1]
  <2>1. \A n \in 1 .. k : n - 1 \in LineIndexes /\ (n - 1 = 0 <=> n = 1) /\ (n - 1 <= spot <=> n <= p) /\ (n - 1) - 1 = n - 2
    BY <1>5 DEF LineIndexes
  <2> HIDE DEF p
  <2> QED  BY <1>2, <2>1 DEF MoveToFront
<1>13. ASSUME NEW n \in 1 .. k
       PROVE  inSet.cLine[MoveToFront(arr, spot, l)[n - 1]].tag
                = IF n = 1 THEN t ELSE IF n <= p THEN tags[n - 1] ELSE tags[n]
  <2>1. CASE n = 1  BY <1>3, <1>12, <2>1
  <2>2. CASE n # 1 /\ n <= p
    <3>1. n - 1 \in 1 .. k /\ (n - 1) - 1 = n - 2  BY <2>2
    <3> HIDE DEF p
    <3> QED  BY <1>4, <1>12, <2>2, <3>1
  <2>3. CASE n # 1 /\ ~ (n <= p)
    <3> HIDE DEF p
    <3> QED  BY <1>4, <1>12, <2>3
  <2> QED  BY <2>1, <2>2, <2>3
<1> HIDE DEF p
<1>14. Recent(new) = Truth!Promote(t, tags)  BY <1>9, <1>11, <1>13
<1> QED  BY <1>14 DEF new, tags, arr

\* The first k - 1 entries of arr are lines other than l.
Elsewhere(arr, l, k) == \A i \in 0 .. k - 2 : arr[i] # l /\ arr[i] \in LineIndexes

\* t and then the tags of the set, k in all.
Preceded(inSet, t, k) == [n \in 1 .. k |-> IF n = 1 THEN t ELSE inSet.cLine[inSet.arrLRU[n - 2]].tag]

\* What a miss makes of a set: the line it is given holds the tag and is the
\* first of arrLRU, all other entries move down by one.
LEMMA MissTags ==
    ASSUME args.E \in Nat \ {0}, NEW inSet \in SetRecords, NEW l \in LineIndexes, NEW t,
           NEW k \in 0 .. args.E, Elsewhere(inSet.arrLRU, l, k),
           NEW new, new = PutLine(inSet, l, t, MoveToFront(inSet.arrLRU, args.E - 1, l)),
           Cardinality(ValidLines(new)) = k
    PROVE  Recent(new) = Preceded(inSet, t, k)
<1> DEFINE arr == inSet.arrLRU
           lines == [inSet.cLine EXCEPT ![l] = [v |-> TRUE, tag |-> t]]
<1>1. arr \in LruArrays /\ inSet.cLine \in Lines  BY DEF SetRecords
<1>2. DOMAIN arr = LineIndexes /\ DOMAIN inSet.cLine = LineIndexes  BY <1>1 DEF LruArrays, Lines
<1>3. new.cLine = lines /\ new.arrLRU = MoveToFront(arr, args.E - 1, l)  BY DEF PutLine
<1>4. \A i \in LineIndexes : lines[i] = IF i = l THEN [v |-> TRUE, tag |-> t] ELSE inSet.cLine[i]
  BY <1>2
<1>5. Recent(new) = [n \in 1 .. k |-> new.cLine[new.arrLRU[n - 1]].tag]  BY DEF Recent
<1> HIDE DEF arr, lines
<1>6. \A n \in 1 .. k : new.arrLRU[n - 1] = IF n = 1 THEN l ELSE arr[n - 2]
  <2>1. \A n \in 1 .. k : n - 1 \in LineIndexes /\ (n - 1 = 0 <=> n = 1) /\ n - 1 <= args.E - 1 /\ (n - 1) - 1 = n - 2
    BY DEF LineIndexes
  <2> QED  BY <1>2, <1>3, <2>1 DEF MoveToFront
<1>7. ASSUME NEW n \in 1 .. k
      PROVE  new.cLine[new.arrLRU[n - 1]].tag = IF n = 1 THEN t ELSE inSet.cLine[inSet.arrLRU[n - 2]].tag
  <2>1. CASE n = 1
    <3>1. lines[l] = [v |-> TRUE, tag |-> t]  BY <1>4
    <3> QED  BY <1>3, <1>6, <2>1, <3>1
  <2>2. CASE n # 1
    <3>1. n - 2 \in 0 .. k - 2  BY <2>2
    <3>2. arr[n - 2] # l /\ arr[n - 2] \in LineIndexes  BY <3>1 DEF arr, Elsewhere
    <3> QED  BY <1>3, <1>4, <1>6, <2>2, <3>2 DEF arr
  <2> QED  BY <2>1, <2>2
<1> QED  BY <1>5, <1>7 DEF Preceded

\* The k that the tags of a miss have, and what promoting makes of them.
LEMMA MissedTags ==
    ASSUME args.E \in Nat \ {0}, NEW inSet \in SetRecords, Ordered(inSet), NEW t \in TagValues,
           Hits(inSet, t) = {}, NEW j, NEW k \in Nat, Lists(inSet.arrLRU, ValidLines(inSet), j), j \in 0 .. args.E,
           k = IF j = args.E THEN j ELSE j + 1
    PROVE  /\ Len(Recent(inSet)) = j
           /\ Truth!Promote(t, Recent(inSet)) = Preceded(inSet, t, k)
<1> DEFINE tags == Recent(inSet)
<1>1. /\ tags = [n \in 1 .. j |-> inSet.cLine[inSet.arrLRU[n - 1]].tag]
      /\ tags \in Seq(TagValues) /\ Len(tags) = j
  BY RecentTags DEF Ordered
<1>2. \A i \in 1 .. Len(tags) : tags[i] # t
  <2>1. ~ Truth!Contains(tags, t)  BY HitsAreListed
  <2> QED  BY <2>1 DEF Truth!Contains
<1> HIDE DEF tags
<1>3. Truth!Promote(t, tags) = Behind(t, tags, k)
  <2>1. Lacks(tags, t)  BY <1>2 DEF Lacks
  <2>2. Len(tags) <= args.E /\ k = IF Len(tags) = args.E THEN Len(tags) ELSE Len(tags) + 1  BY <1>1
  <2> QED  BY <1>1, <2>1, <2>2, PromoteMiss
<1>4. ASSUME NEW n \in 1 .. k, n # 1 PROVE tags[n - 1] = inSet.cLine[inSet.arrLRU[n - 2]].tag
  <2>1. n - 1 \in 1 .. j /\ (n - 1) - 1 = n - 2  BY <1>4
  <2> QED  BY <1>1, <2>1
<1>5. Truth!Promote(t, tags) = Preceded(inSet, t, k)  BY <1>3, <1>4 DEF Preceded, Behind
<1> QED  BY <1>1, <1>5 DEF tags

\* A miss with an empty line adds the tag.
LEMMA MissPromotes ==
    ASSUME args.E \in Nat \ {0}, NEW inSet \in SetRecords, Ordered(inSet),
           NEW l \in Invalid(inSet), NEW t \in TagValues, Hits(inSet, t) = {}
    PROVE  /\ Recent(PutLine(inSet, l, t, UpdateLRUWhenMiss(inSet.arrLRU, l))) = Truth!Promote(t, Recent(inSet))
           /\ Len(Recent(inSet)) # args.E
<1> DEFINE arr == inSet.arrLRU
           V == ValidLines(inSet)
           new == PutLine(inSet, l, t, UpdateLRUWhenMiss(arr, l))
<1>1. l \in LineIndexes /\ l \notin V  BY DEF Invalid, ValidLines
<1>2. PICK j \in 0 .. args.E : Lists(arr, V, j)  BY DEF Ordered
<1>3. j \in 0 .. args.E - 1
  <2>1. Cardinality(V) = j  BY <1>2, ListsCount
  <2>2. IsFiniteSet(LineIndexes) /\ Cardinality(LineIndexes) = args.E  BY LineCount
  <2>3. V \subseteq LineIndexes  BY DEF ValidLines
  <2>4. V # LineIndexes  BY <1>1
  <2>5. Cardinality(V) # args.E  BY <2>2, <2>3, <2>4, FS_Subset
  <2> QED  BY <2>1, <2>5
<1>4. new = PutLine(inSet, l, t, MoveToFront(arr, args.E - 1, l))  BY DEF UpdateLRUWhenMiss, LastOf
<1>5. Cardinality(ValidLines(new)) = j + 1
  <2>1. arr \in LruArrays  BY DEF SetRecords
  <2>2. MoveToFront(arr, args.E - 1, l) \in LruArrays  BY <1>1, <2>1, NewArray
  <2>3. ValidLines(new) = V \cup {l} /\ new.arrLRU = MoveToFront(arr, args.E - 1, l)
    <3> DEFINE newLRU == MoveToFront(arr, args.E - 1, l)
    <3>1. TagsDiffer(inSet)  BY DEF Ordered
    <3> HIDE DEF newLRU
    <3>2. ValidLines(PutLine(inSet, l, t, newLRU)) = ValidLines(inSet) \cup {l}
      BY <1>1, <2>2, <3>1, PutLineEffect DEF newLRU
    <3> QED  BY <1>4, <3>2 DEF newLRU, PutLine
  <2>4. Lists(MoveToFront(arr, args.E - 1, l), V \cup {l}, j + 1)  BY <1>1, <1>2, <1>3, <2>1, FrontAdds
  <2>5. j + 1 \in Nat  BY <1>3
  <2> HIDE DEF new, arr, V
  <2> QED  BY <2>3, <2>4, <2>5, ListsCount
<1>6. Elsewhere(arr, l, j + 1)
  <2>1. \A i \in 0 .. (j + 1) - 2 : i \in 0 .. j - 1  BY <1>3
  <2>2. V \subseteq LineIndexes  BY DEF ValidLines
  <2> HIDE DEF arr, V
  <2> QED  BY <1>1, <1>2, <2>1, <2>2 DEF Lists, Elsewhere
<1> DEFINE k == j + 1
<1>7. k \in 0 .. args.E /\ k \in Nat /\ k = IF j = args.E THEN j ELSE j + 1  BY <1>3
<1>8. Recent(new) = Preceded(inSet, t, k)
  <2> HIDE DEF new, k
  <2> QED  BY <1>1, <1>4, <1>5, <1>6, <1>7, MissTags DEF k
<1>9. /\ Len(Recent(inSet)) = j
      /\ Truth!Promote(t, Recent(inSet)) = Preceded(inSet, t, k)
  <2> HIDE DEF new, k
  <2> QED  BY <1>2, <1>7, MissedTags
<1> QED  BY <1>3, <1>8, <1>9

\* A miss in a full set drops the last tag.
LEMMA EvictPromotes ==
    ASSUME args.E \in Nat \ {0}, NEW inSet \in SetRecords, Ordered(inSet),
           Invalid(inSet) = {}, NEW t \in TagValues, Hits(inSet, t) = {}
    PROVE  /\ Recent(PutLine(inSet, Evicted(inSet.arrLRU), t, UpdateLRUWhenEvic(inSet.arrLRU)))
                = Truth!Promote(t, Recent(inSet))
           /\ Len(Recent(inSet)) = args.E
<1> DEFINE arr == inSet.arrLRU
           k == args.E
           l == arr[k - 1]
           new == PutLine(inSet, Evicted(arr), t, UpdateLRUWhenEvic(arr))
<1>1. arr \in LruArrays  BY DEF SetRecords
<1>2. ValidLines(inSet) = LineIndexes  BY DEF ValidLines
<1>3. Lists(arr, LineIndexes, k)
  <2>1. PICK j \in 0 .. args.E : Lists(arr, LineIndexes, j)  BY <1>2 DEF Ordered
  <2>2. Cardinality(LineIndexes) = j  BY <2>1, ListsCount
  <2>3. Cardinality(LineIndexes) = args.E  BY LineCount
  <2> QED  BY <2>1, <2>2, <2>3
<1>4. k - 1 \in 0 .. k - 1 /\ k - 1 \in LineIndexes  BY DEF LineIndexes
<1>5. l \in LineIndexes  BY <1>1, <1>4 DEF LruArrays
<1>6. new = PutLine(inSet, l, t, MoveToFront(arr, k - 1, l))  BY DEF Evicted, UpdateLRUWhenEvic, LastOf
<1>7. Cardinality(ValidLines(new)) = k
  <2>1. MoveToFront(arr, k - 1, l) \in LruArrays  BY <1>1, <1>5, NewArray
  <2> DEFINE newLRU == MoveToFront(arr, k - 1, l)
  <2>2. TagsDiffer(inSet)  BY DEF Ordered
  <2> HIDE DEF newLRU, l
  <2>3. ValidLines(PutLine(inSet, l, t, newLRU)) = ValidLines(inSet) \cup {l}
    BY <1>5, <2>1, <2>2, PutLineEffect DEF newLRU
  <2>4. ValidLines(new) = LineIndexes  BY <1>2, <1>5, <1>6, <2>3 DEF newLRU
  <2> QED  BY <2>4, LineCount
<1>8. Elsewhere(arr, l, k)
  <2>1. SUFFICES ASSUME NEW i \in 0 .. k - 2 PROVE arr[i] # l /\ arr[i] \in LineIndexes
    BY DEF Elsewhere
  <2>2. i \in 0 .. k - 1 /\ i # k - 1  OBVIOUS
  <2> QED  BY <1>3, <1>4, <2>2 DEF Lists
<1>9. Recent(new) = Preceded(inSet, t, k)
  <2>1. k \in 0 .. args.E  OBVIOUS
  <2> HIDE DEF new, l
  <2> QED  BY <1>5, <1>6, <1>7, <1>8, <2>1, MissTags
<1>10. /\ Len(Recent(inSet)) = k
       /\ Truth!Promote(t, Recent(inSet)) = Preceded(inSet, t, k)
  <2>1. k \in 0 .. args.E /\ k \in Nat /\ k = IF k = args.E THEN k ELSE k + 1  OBVIOUS
  <2> QED  BY <1>2, <1>3, <2>1, MissedTags
<1> QED  BY <1>9, <1>10

---------------------------------------------------------------------------
(* The refinement *)

\* What an access does to the tags of every set and to the counters.
AccessIs(c, d, n, t) ==
    LET tags == Recent(c.cSet[n])
        hit == Truth!Contains(tags, t)
    IN  /\ \A i \in SetIndexes : Recent(d.cSet[i]) = IF i = n THEN Truth!Promote(t, tags) ELSE Recent(c.cSet[i])
        /\ d.hitCount = c.hitCount + (IF hit THEN 1 ELSE 0)
        /\ d.missCount = c.missCount + (IF hit THEN 0 ELSE 1)
        /\ d.eviCount = c.eviCount + (IF ~hit /\ Len(tags) = args.E THEN 1 ELSE 0)

\* One access is one of a true LRU cache.
LEMMA AccessIsLru ==
    ASSUME args.E \in Nat \ {0}, NEW c, Good(c), NEW n \in SetIndexes, NEW t \in TagValues
    PROVE  AccessIs(c, SimOneLoadOrSave(c, n, t), n, t)
<1> DEFINE inSet == c.cSet[n]
           tags == Recent(inSet)
           hit == Truth!Contains(tags, t)
           d == SimOneLoadOrSave(c, n, t)
<1>1. c \in CacheRecords /\ c.hitCount \in Nat /\ c.missCount \in Nat /\ c.eviCount \in Nat
  BY DEF Good, CacheRecords
<1>2. inSet \in SetRecords /\ Ordered(inSet)  BY DEF Good, CacheRecords
<1>3. hit <=> Hits(inSet, t) # {}  BY <1>2, HitsAreListed
<1>4. ASSUME NEW new, NEW h, NEW m, NEW e, d = Written(c, n, new, h, m, e), Recent(new) = Truth!Promote(t, tags),
             h = c.hitCount + (IF hit THEN 1 ELSE 0), m = c.missCount + (IF hit THEN 0 ELSE 1),
             e = c.eviCount + (IF ~hit /\ Len(tags) = args.E THEN 1 ELSE 0)
      PROVE  AccessIs(c, d, n, t)
  <2>1. d.cSet = [c.cSet EXCEPT ![n] = new] /\ d.hitCount = h /\ d.missCount = m /\ d.eviCount = e
    <3> HIDE DEF d
    <3> QED  BY <1>4 DEF Written
  <2>2. \A i \in SetIndexes : d.cSet[i] = IF i = n THEN new ELSE c.cSet[i]
    <3>1. DOMAIN c.cSet = SetIndexes  BY <1>1 DEF CacheRecords
    <3> HIDE DEF d
    <3> QED  BY <2>1, <3>1
  <2>3. \A i \in SetIndexes : Recent(d.cSet[i]) = IF i = n THEN Truth!Promote(t, tags) ELSE Recent(c.cSet[i])
    <3> HIDE DEF d, tags
    <3> QED  BY <1>4, <2>2
  <2> HIDE DEF d
  <2> QED  BY <1>4, <2>1, <2>3, Zenon DEF AccessIs
<1>5. CASE Hits(inSet, t) # {}
  <2>1. d = Written(c, n, Hit(inSet, t), c.hitCount + 1, c.missCount, c.eviCount)
    BY <1>1, <1>5, AccessCases
  <2>2. Max(Hits(inSet, t)) \in Hits(inSet, t)  BY <1>5, GreatestLine DEF Hits
  <2>3. Recent(Hit(inSet, t)) = Truth!Promote(t, tags)  BY <1>2, <2>2, HitPromotes DEF Hit
  <2> HIDE DEF d, inSet, tags
  <2>4. hit  BY <1>3, <1>5
  <2>5. c.hitCount + 1 = c.hitCount + (IF hit THEN 1 ELSE 0) /\ c.missCount = c.missCount + (IF hit THEN 0 ELSE 1)
        /\ c.eviCount = c.eviCount + (IF ~hit /\ Len(tags) = args.E THEN 1 ELSE 0)
    <3> HIDE DEF hit
    <3> QED  BY <1>1, <2>4
  <2> HIDE DEF hit
  <2>6. AccessIs(c, d, n, t)  BY <1>4, <2>1, <2>3, <2>5
  <2> QED  BY <2>6 DEF d
<1>6. CASE Hits(inSet, t) = {} /\ Invalid(inSet) = {}
  <2>1. d = Written(c, n, Replaced(inSet, t), c.hitCount, c.missCount + 1, c.eviCount + 1)
    BY <1>1, <1>6, AccessCases
  <2>2. Recent(Replaced(inSet, t)) = Truth!Promote(t, tags) /\ Len(tags) = args.E
    BY <1>2, <1>6, EvictPromotes DEF Replaced
  <2> HIDE DEF d, inSet, tags
  <2>3. ~hit  BY <1>3, <1>6
  <2>4. c.hitCount = c.hitCount + (IF hit THEN 1 ELSE 0) /\ c.missCount + 1 = c.missCount + (IF hit THEN 0 ELSE 1)
        /\ c.eviCount + 1 = c.eviCount + (IF ~hit /\ Len(tags) = args.E THEN 1 ELSE 0)
    <3> HIDE DEF hit
    <3> QED  BY <1>1, <2>2, <2>3
  <2> HIDE DEF hit
  <2>5. AccessIs(c, d, n, t)  BY <1>4, <2>1, <2>2, <2>4
  <2> QED  BY <2>5 DEF d
<1>7. CASE Hits(inSet, t) = {} /\ Invalid(inSet) # {}
  <2>1. d = Written(c, n, LineFilled(inSet, t), c.hitCount, c.missCount + 1, c.eviCount)
    BY <1>1, <1>7, AccessCases
  <2>2. Max(Invalid(inSet)) \in Invalid(inSet)  BY <1>7, GreatestLine DEF Invalid
  <2>3. Recent(LineFilled(inSet, t)) = Truth!Promote(t, tags) /\ Len(tags) # args.E
    BY <1>2, <1>7, <2>2, MissPromotes DEF LineFilled
  <2> HIDE DEF d, inSet, tags
  <2>4. ~hit  BY <1>3, <1>7
  <2>5. c.hitCount = c.hitCount + (IF hit THEN 1 ELSE 0) /\ c.missCount + 1 = c.missCount + (IF hit THEN 0 ELSE 1)
        /\ c.eviCount = c.eviCount + (IF ~hit /\ Len(tags) = args.E THEN 1 ELSE 0)
    <3> HIDE DEF hit
    <3> QED  BY <1>1, <2>3, <2>4
  <2> HIDE DEF hit
  <2>6. AccessIs(c, d, n, t)  BY <1>4, <2>1, <2>3, <2>5
  <2> QED  BY <2>6 DEF d
<1> QED  BY <1>5, <1>6, <1>7

\* A tag that has just been promoted is listed first; promoting it again
\* changes nothing.
LEMMA PromotedStays ==
    ASSUME args.E \in Nat \ {0}, NEW inSet \in SetRecords, Ordered(inSet), NEW t, NEW k \in Nat \ {0},
           NEW rest, Recent(inSet) = [n \in 1 .. k |-> IF n = 1 THEN t ELSE rest[n]]
    PROVE  Truth!Contains(Recent(inSet), t) /\ Truth!Promote(t, Recent(inSet)) = Recent(inSet)
<1> DEFINE tags == Recent(inSet)
<1>1. PICK j \in 0 .. args.E :
             /\ tags \in Seq(TagValues) /\ Len(tags) = j
             /\ \A a, b \in 1 .. j : tags[a] = tags[b] => a = b
  BY OrderedTags
<1>2. tags = [n \in 1 .. k |-> IF n = 1 THEN t ELSE rest[n]]  OBVIOUS
<1> HIDE DEF tags
<1>3. DOMAIN tags = 1 .. j /\ DOMAIN tags = 1 .. k  BY <1>1, <1>2, LenProperties
<1>4. 1 \in 1 .. k /\ tags[1] = t  BY <1>2
<1>5. 1 \in 1 .. j  BY <1>3, <1>4
<1>6. Truth!Contains(tags, t)  BY <1>1, <1>4, <1>5 DEF Truth!Contains
<1>7. Truth!Promote(tags[1], tags) = Fronted(tags, 1)
  <2>1. Len(tags) <= args.E /\ 1 \in 1 .. Len(tags) /\ AloneAt(tags, 1)  BY <1>1, <1>5 DEF AloneAt
  <2> QED  BY <1>1, <2>1, PromoteHit
<1>8. tags = [n \in 1 .. Len(tags) |-> tags[n]]  BY <1>1, LenProperties
<1>9. \A n \in 1 .. Len(tags) : (IF n = 1 THEN tags[1] ELSE IF n <= 1 THEN tags[n - 1] ELSE tags[n]) = tags[n]
  BY <1>1
<1>10. Fronted(tags, 1) = tags  BY <1>8, <1>9 DEF Fronted
<1> QED  BY <1>4, <1>6, <1>7, <1>10 DEF tags

\* A promoted tag is the first.
LEMMA PromotedIsFirst ==
    ASSUME args.E \in Nat \ {0}, NEW inSet \in SetRecords, Ordered(inSet), NEW t \in TagValues
    PROVE  \E k \in Nat \ {0} : \E rest :
             Truth!Promote(t, Recent(inSet)) = [n \in 1 .. k |-> IF n = 1 THEN t ELSE rest[n]]
<1> DEFINE tags == Recent(inSet)
<1>1. PICK j \in 0 .. args.E :
             /\ tags \in Seq(TagValues) /\ Len(tags) = j
             /\ \A a, b \in 1 .. j : tags[a] = tags[b] => a = b
  BY OrderedTags
<1> HIDE DEF tags
<1>2. CASE \E i \in 1 .. j : tags[i] = t
  <2>1. PICK p \in 1 .. j : tags[p] = t  BY <1>2
  <2> DEFINE rest == [n \in 1 .. j |-> IF n <= p THEN tags[n - 1] ELSE tags[n]]
  <2>2. p \in 1 .. Len(tags) /\ Len(tags) <= args.E /\ AloneAt(tags, p)
    BY <1>1 DEF AloneAt
  <2>3. Truth!Promote(tags[p], tags) = Fronted(tags, p)  BY <1>1, <2>2, PromoteHit
  <2>4. Truth!Promote(t, tags) = [n \in 1 .. j |-> IF n = 1 THEN t ELSE rest[n]]
    BY <1>1, <2>1, <2>3 DEF Fronted
  <2>5. j \in Nat \ {0}  OBVIOUS
  <2> HIDE DEF rest
  <2> QED  BY <2>4, <2>5 DEF tags
<1>3. CASE ~ \E i \in 1 .. j : tags[i] = t
  <2> DEFINE k == IF j = args.E THEN j ELSE j + 1
             rest == [n \in 1 .. k |-> tags[n - 1]]
  <2>1. k \in Nat \ {0}  OBVIOUS
  <2>2. Len(tags) <= args.E /\ Lacks(tags, t) /\ k = IF Len(tags) = args.E THEN Len(tags) ELSE Len(tags) + 1
    BY <1>1, <1>3 DEF Lacks
  <2> HIDE DEF k
  <2>3. Truth!Promote(t, tags) = Behind(t, tags, k)  BY <1>1, <2>1, <2>2, PromoteMiss
  <2>4. Truth!Promote(t, tags) = [n \in 1 .. k |-> IF n = 1 THEN t ELSE rest[n]]  BY <2>3 DEF Behind
  <2> HIDE DEF rest
  <2> QED  BY <2>1, <2>4 DEF tags
<1> QED  BY <1>2, <1>3

\* A modify: the second access hits and changes nothing but the count.
LEMMA TwoAccesses ==
    ASSUME args.E \in Nat \ {0}, NEW c, Good(c), NEW d, Good(d), NEW e, NEW n \in SetIndexes, NEW t \in TagValues,
           AccessIs(c, d, n, t), AccessIs(d, e, n, t)
    PROVE  LET tags == Recent(c.cSet[n])
               hit == Truth!Contains(tags, t)
           IN  /\ \A i \in SetIndexes :
                    Recent(e.cSet[i]) = IF i = n THEN Truth!Promote(t, tags) ELSE Recent(c.cSet[i])
               /\ e.hitCount = c.hitCount + (IF hit THEN 2 ELSE 2 - 1)
               /\ e.missCount = c.missCount + (IF hit THEN 0 ELSE 1)
               /\ e.eviCount = c.eviCount + (IF ~hit /\ Len(tags) = args.E THEN 1 ELSE 0)
<1> DEFINE tags == Recent(c.cSet[n])
           hit == Truth!Contains(tags, t)
<1>1. /\ \A i \in SetIndexes : Recent(d.cSet[i]) = IF i = n THEN Truth!Promote(t, tags) ELSE Recent(c.cSet[i])
      /\ d.hitCount = c.hitCount + (IF hit THEN 1 ELSE 0)
      /\ d.missCount = c.missCount + (IF hit THEN 0 ELSE 1)
      /\ d.eviCount = c.eviCount + (IF ~hit /\ Len(tags) = args.E THEN 1 ELSE 0)
  BY Zenon DEF AccessIs
<1>2. c.cSet[n] \in SetRecords /\ Ordered(c.cSet[n]) /\ d.cSet[n] \in SetRecords /\ Ordered(d.cSet[n])
  BY DEF Good, CacheRecords
<1>3. c.hitCount \in Nat /\ c.missCount \in Nat /\ c.eviCount \in Nat  BY DEF Good, CacheRecords
<1>4. PICK k \in Nat \ {0} : \E rest : Truth!Promote(t, tags) = [i \in 1 .. k |-> IF i = 1 THEN t ELSE rest[i]]
  BY <1>2, PromotedIsFirst
<1>5. PICK rest : Truth!Promote(t, tags) = [i \in 1 .. k |-> IF i = 1 THEN t ELSE rest[i]]
  BY <1>4
<1> HIDE DEF tags, hit
<1>6. Recent(d.cSet[n]) = Truth!Promote(t, tags)  BY <1>1
<1>7. Truth!Contains(Recent(d.cSet[n]), t) /\ Truth!Promote(t, Recent(d.cSet[n])) = Recent(d.cSet[n])
  BY <1>2, <1>5, <1>6, PromotedStays
<1>8. /\ \A i \in SetIndexes :
           Recent(e.cSet[i]) = IF i = n THEN Truth!Promote(t, Recent(d.cSet[n])) ELSE Recent(d.cSet[i])
      /\ e.hitCount = d.hitCount + (IF Truth!Contains(Recent(d.cSet[n]), t) THEN 1 ELSE 0)
      /\ e.missCount = d.missCount + (IF Truth!Contains(Recent(d.cSet[n]), t) THEN 0 ELSE 1)
      /\ e.eviCount = d.eviCount + (IF ~ Truth!Contains(Recent(d.cSet[n]), t) /\ Len(Recent(d.cSet[n])) = args.E THEN 1 ELSE 0)
  BY Zenon DEF AccessIs
<1>9. \A i \in SetIndexes : Recent(e.cSet[i]) = IF i = n THEN Truth!Promote(t, tags) ELSE Recent(c.cSet[i])
  BY <1>1, <1>6, <1>7, <1>8
<1>10. e.hitCount = d.hitCount + 1 /\ e.missCount = d.missCount + 0 /\ e.eviCount = d.eviCount + 0
  BY <1>7, <1>8
<1>11. /\ e.hitCount = c.hitCount + (IF hit THEN 2 ELSE 2 - 1)
       /\ e.missCount = c.missCount + (IF hit THEN 0 ELSE 1)
       /\ e.eviCount = c.eviCount + (IF ~hit /\ Len(tags) = args.E THEN 1 ELSE 0)
  BY <1>1, <1>3, <1>10
<1> QED  BY <1>9, <1>11 DEF tags, hit

\* The tags and counters of one access, or two of one block, are what TrueLru
\* computes for it.
LEMMA AccessRefines ==
    ASSUME args \in Args, args' = args, NEW a \in Nat, NEW times,
           LET n == SetIndex(a)
               t == Tag(a)
               tags == Recent(cache.cSet[n])
               hit == Truth!Contains(tags, t)
           IN  /\ \A i \in SetIndexes :
                    Recent(cache'.cSet[i]) = IF i = n THEN Truth!Promote(t, tags) ELSE Recent(cache.cSet[i])
               /\ cache'.hitCount = cache.hitCount + (IF hit THEN times ELSE times - 1)
               /\ cache'.missCount = cache.missCount + (IF hit THEN 0 ELSE 1)
               /\ cache'.eviCount = cache.eviCount + (IF ~hit /\ Len(tags) = args.E THEN 1 ELSE 0)
    PROVE  Truth!Access(a, times)
<1> DEFINE n == SetIndex(a)
           t == Tag(a)
           tags == Recent(cache.cSet[n])
           hit == Truth!Contains(tags, t)
           recent == [i \in SetIndexes |-> Recent(cache.cSet[i])]
           later == [i \in SetIndexes |-> Recent(cache'.cSet[i])]
<1>1. t = Truth!TagOf(a) /\ n = Truth!SetOf(a) /\ n \in SetIndexes  BY AddressParts
<1>2. [i \in SetIndexes |-> Recent(cache.cSet[i])]' = later
  <2>1. SetIndexes' = SetIndexes  BY DEF SetIndexes
  <2>2. \A i : Recent(cache.cSet[i])' = Recent(cache'.cSet[i])
    BY DEF Recent, ValidLines, Invalid, LineIndexes
  <2> QED  BY <2>1, <2>2
<1>3. recent[n] = tags  BY <1>1
<1>4. later = [recent EXCEPT ![n] = Truth!Promote(t, tags)]
  <2>1. \A i \in SetIndexes : later[i] = IF i = n THEN Truth!Promote(t, tags) ELSE recent[i]  OBVIOUS
  <2>2. DOMAIN recent = SetIndexes /\ later = [i \in SetIndexes |-> later[i]]  OBVIOUS
  <2> HIDE DEF later, recent, tags, t, n
  <2> QED  BY <2>1, <2>2
<1>5. /\ cache'.hitCount = cache.hitCount + (IF hit THEN times ELSE times - 1)
      /\ cache'.missCount = cache.missCount + (IF hit THEN 0 ELSE 1)
      /\ cache'.eviCount = cache.eviCount + (IF ~hit /\ Len(tags) = args.E THEN 1 ELSE 0)
  OBVIOUS
<1>6. Truth!Access(a, times) <=>
        /\ [i \in SetIndexes |-> Recent(cache.cSet[i])]'
             = [recent EXCEPT ![Truth!SetOf(a)] = Truth!Promote(Truth!TagOf(a), recent[Truth!SetOf(a)])]
        /\ cache'.hitCount = cache.hitCount
             + (IF Truth!Contains(recent[Truth!SetOf(a)], Truth!TagOf(a)) THEN times ELSE times - 1)
        /\ cache'.missCount = cache.missCount
             + (IF Truth!Contains(recent[Truth!SetOf(a)], Truth!TagOf(a)) THEN 0 ELSE 1)
        /\ cache'.eviCount = cache.eviCount
             + (IF ~ Truth!Contains(recent[Truth!SetOf(a)], Truth!TagOf(a)) /\ Len(recent[Truth!SetOf(a)]) = args.E
                THEN 1 ELSE 0)
  BY Zenon DEF Truth!Access
<1> HIDE DEF n, t, tags, recent, later
<1> QED  BY <1>1, <1>2, <1>3, <1>4, <1>5, <1>6

\* A cache that does not change is the same tags and counters.
SameTags == /\ [i \in SetIndexes |-> Recent(cache.cSet[i])]' = [i \in SetIndexes |-> Recent(cache.cSet[i])]
            /\ cache.hitCount' = cache.hitCount /\ cache.missCount' = cache.missCount
            /\ cache.eviCount' = cache.eviCount

\* A step that leaves the cache leaves the tags of every set.
LEMMA SameCache ==
    ASSUME args' = args, cache' = cache
    PROVE  SameTags
<1>1. SetIndexes' = SetIndexes  BY DEF SetIndexes
<1>2. \A i : Recent(cache.cSet[i])' = Recent(cache.cSet[i])
  BY DEF Recent, ValidLines, Invalid, LineIndexes
<1> QED  BY <1>1, <1>2 DEF SameTags

\* Every instruction of the trace is the same one of TrueLru.
LEMMA InstructionRefines ==
    ASSUME IInv, NEW inType \in Types, NEW a \in Nat, SimOneInstruction(inType, a)
    PROVE  Truth!Next
<1>0. args \in Args /\ args.E \in Nat \ {0} /\ Good(cache)  BY ArgsAssumption DEF IInv
<1> DEFINE n == SetIndex(a)
           t == Tag(a)
           Access(c) == SimOneLoadOrSave(c, n, t)
<1>1. t \in TagValues  BY DEF TagValues
<1>2. n \in SetIndexes  BY <1>0, AddressParts
<1>3. args' = args /\ type' = inType /\ addr' = a  BY DEF SimOneInstruction
<1>4. cache' = CASE inType \in {"L", "S"} -> Access(cache)
                 [] inType = "M" -> Access(Access(cache))
                 [] inType = "I" -> cache
  BY Zenon DEF SimOneInstruction
<1>5. Truth!Next <=> Truth!Instruction(inType, a)  BY <1>3 DEF Truth!Next
<1>6. Truth!Instruction(inType, a) <=>
        /\ \/ inType \in {"L", "S"} /\ Truth!Access(a, 1)
           \/ inType = "M" /\ Truth!Access(a, 2)
           \/ /\ inType = "I"
              /\ [i \in SetIndexes |-> Recent(cache.cSet[i])]' = [i \in SetIndexes |-> Recent(cache.cSet[i])]
              /\ cache.hitCount' = cache.hitCount /\ cache.missCount' = cache.missCount
              /\ cache.eviCount' = cache.eviCount
        /\ args' = args
  BY DEF Truth!Instruction
<1>7. Good(Access(cache)) /\ AccessIs(cache, Access(cache), n, t)
  BY <1>0, <1>1, <1>2, AccessKeeps, AccessIsLru
<1>8. CASE inType \in {"L", "S"}
  <2>1. cache' = Access(cache)
    <3> HIDE DEF Access
    <3> QED  BY <1>4, <1>8
  <2> HIDE DEF Access
  <2>2. AccessIs(cache, cache', n, t)  BY <1>7, <2>1
  <2>3. Good(cache)  BY <1>0
  <2>4. LET tags == Recent(cache.cSet[n])
            hit == Truth!Contains(tags, t)
        IN  /\ \A i \in SetIndexes :
                 Recent(cache'.cSet[i]) = IF i = n THEN Truth!Promote(t, tags) ELSE Recent(cache.cSet[i])
            /\ cache'.hitCount = cache.hitCount + (IF hit THEN 1 ELSE 1 - 1)
            /\ cache'.missCount = cache.missCount + (IF hit THEN 0 ELSE 1)
            /\ cache'.eviCount = cache.eviCount + (IF ~hit /\ Len(tags) = args.E THEN 1 ELSE 0)
    <3>1. 1 - 1 = 0  OBVIOUS
    <3> QED  BY <2>2, <3>1, Zenon DEF AccessIs
  <2>5. Truth!Access(a, 1)  BY <1>0, <1>3, <2>4, AccessRefines
  <2> QED  BY <1>3, <1>5, <1>6, <1>8, <2>5
<1>9. CASE inType = "M"
  <2> DEFINE d == Access(cache)
  <2>1. cache' = Access(d)
    <3> HIDE DEF Access
    <3> QED  BY <1>4, <1>9
  <2>2. AccessIs(d, Access(d), n, t)  BY <1>0, <1>1, <1>2, <1>7, AccessIsLru
  <2> HIDE DEF Access, d, n, t
  <2>3. LET tags == Recent(cache.cSet[n])
            hit == Truth!Contains(tags, t)
        IN  /\ \A i \in SetIndexes :
                 Recent(cache'.cSet[i]) = IF i = n THEN Truth!Promote(t, tags) ELSE Recent(cache.cSet[i])
            /\ cache'.hitCount = cache.hitCount + (IF hit THEN 2 ELSE 2 - 1)
            /\ cache'.missCount = cache.missCount + (IF hit THEN 0 ELSE 1)
            /\ cache'.eviCount = cache.eviCount + (IF ~hit /\ Len(tags) = args.E THEN 1 ELSE 0)
    BY <1>0, <1>1, <1>2, <1>7, <2>1, <2>2, TwoAccesses DEF d
  <2>4. Truth!Access(a, 2)  BY <1>0, <1>3, <2>3, AccessRefines DEF n, t
  <2> QED  BY <1>3, <1>5, <1>6, <1>9, <2>4
<1>10. CASE inType = "I"
  <2>1. cache' = cache
    <3> HIDE DEF Access
    <3> QED  BY <1>4, <1>10
  <2>2. SameTags  BY <1>3, <2>1, SameCache
  <2> QED  BY <1>3, <1>5, <1>6, <1>10, <2>2 DEF SameTags
<1> QED  BY <1>8, <1>9, <1>10 DEF Types

\* Nothing happens in either.
LEMMA StutterRefines == UNCHANGED csimVars => UNCHANGED Truth!lruVars
<1>1. SUFFICES ASSUME UNCHANGED csimVars PROVE UNCHANGED Truth!lruVars
  OBVIOUS
<1>2. args' = args /\ cache' = cache /\ type' = type /\ addr' = addr  BY <1>1 DEF csimVars
<1>3. SameTags  BY <1>2, SameCache
<1> QED  BY <1>2, <1>3 DEF Truth!lruVars, SameTags

\* An instruction of the trace is a step of TrueLru.
LEMMA StepRefines == IInv /\ [Replay]_csimVars => [Truth!Next]_(Truth!lruVars)
<1>1. SUFFICES ASSUME IInv, [Replay]_csimVars PROVE Truth!Next \/ UNCHANGED Truth!lruVars
  OBVIOUS
<1>2. CASE UNCHANGED csimVars  BY <1>2, StutterRefines
<1>3. CASE Replay  BY <1>1, <1>3, TraceAddress, InstructionRefines DEF Replay
<1> QED  BY <1>1, <1>2, <1>3

\* At first no line is valid and nothing has been counted.
LEMMA InitRefines == CsimInit => Truth!Init
<1>1. SUFFICES ASSUME CsimInit PROVE Truth!Init
  OBVIOUS
<1>2. cache = [cSet |-> [i \in SetIndexes |-> EmptySet], hitCount |-> 0, missCount |-> 0, eviCount |-> 0]
  BY <1>1 DEF CsimInit, ConstructCacheIns
<1>3. Recent(EmptySet) = <<>>
  <2>1. ValidLines(EmptySet) = {}  BY DEF ValidLines, Invalid, EmptySet
  <2>2. Cardinality(ValidLines(EmptySet)) = 0  BY <2>1, FS_EmptySet
  <2>3. Recent(EmptySet) = [i \in 1 .. 0 |-> EmptySet.cLine[EmptySet.arrLRU[i - 1]].tag]  BY <2>2 DEF Recent
  <2> QED  BY <2>3
<1>4. [i \in SetIndexes |-> Recent(cache.cSet[i])] = [i \in SetIndexes |-> <<>>]  BY <1>2, <1>3
<1>5. SetIndexes = 0 .. Pow2[args.s] - 1 /\ Truth!Pow2 = Pow2
  BY DEF SetIndexes, Truth!Pow2, Pow2
<1> QED  BY <1>2, <1>4, <1>5 DEF Truth!Init

\* For every trace and every geometry the simulator is a cache with least-
\* recently-used replacement: the same tags in the same order in every set,
\* the same hits, misses and evictions.
THEOREM SimulatesTrueLru == CsimSpec => ImplementsTrueLru
<1>1. CsimSpec => []IInv  BY InitHolds, StepKeeps, PTL DEF CsimSpec
<1>2. Truth!Spec <=> (Truth!Init /\ [][Truth!Next]_(Truth!lruVars))  BY DEF Truth!Spec
<1>3. CsimSpec => Truth!Init /\ [][Truth!Next]_(Truth!lruVars)
  BY <1>1, InitRefines, StepRefines, PTL DEF CsimSpec
<1> QED  BY <1>2, <1>3 DEF ImplementsTrueLru

---------------------------------------------------------------------------
(* The accesses of a transpose *)

Registers == {"tmp", "tmpVal", "tmp1", "tmp2", "tmp3", "tmp4",
              "tmp5", "tmp6", "tmp7", "tmp8"}
AccessRecords == [op : {"L", "S"}, reg : Registers, row : Nat, col : Nat]

\* The cell of B an access is about: the one it writes, or the one the
\* element it reads belongs in.
Cell(a) == IF a.op = "L" THEN <<a.col, a.row>> ELSE <<a.row, a.col>>

\* The store at n writes what the load at m has read.
LoadedAt(s, m, n) ==
    /\ s[m].op = "L" /\ s[m].reg = s[n].reg /\ Cell(s[m]) = Cell(s[n])
    /\ \A q \in m + 1 .. n - 1 : s[q].op = "L" => s[q].reg # s[n].reg

\* The accesses of s move the elements that belong in the cells R, and no
\* others, each once.
Moves(s, R) ==
    /\ s \in Seq(AccessRecords)
    /\ \A n \in 1 .. Len(s) : Cell(s[n]) \in R
    /\ \A c \in R : \E n \in 1 .. Len(s) : s[n].op = "S" /\ Cell(s[n]) = c
    /\ \A n, m \in 1 .. Len(s) : s[n].op = "S" /\ s[m].op = "S" /\ Cell(s[n]) = Cell(s[m]) => n = m
    /\ \A n \in 1 .. Len(s) : s[n].op = "S" => \E m \in 1 .. n - 1 : LoadedAt(s, m, n)

\* Two sequences of accesses that move disjoint cells, one after the other.
LEMMA MovesConcat ==
    ASSUME NEW s, NEW t, NEW R, NEW Q, Moves(s, R), Moves(t, Q), R \cap Q = {}
    PROVE  Moves(s \o t, R \cup Q)
<1> DEFINE u == s \o t
           k == Len(s)
           l == Len(t)
<1>1. s \in Seq(AccessRecords) /\ t \in Seq(AccessRecords) /\ k \in Nat /\ l \in Nat  BY DEF Moves
<1>2. /\ u \in Seq(AccessRecords) /\ Len(u) = k + l
      /\ \A n \in 1 .. k : u[n] = s[n]
      /\ \A n \in 1 .. l : u[k + n] = t[n]
  BY <1>1
<1> HIDE DEF u
<1>3. \A n \in 1 .. k + l : \/ n \in 1 .. k /\ u[n] = s[n]
                            \/ n - k \in 1 .. l /\ u[n] = t[n - k]
  <2>1. SUFFICES ASSUME NEW n \in 1 .. k + l, n \notin 1 .. k PROVE n - k \in 1 .. l /\ u[n] = t[n - k]
    BY <1>2
  <2>2. n - k \in 1 .. l /\ k + (n - k) = n  BY <1>1, <2>1
  <2> QED  BY <1>2, <2>2
<1> HIDE DEF k, l
<1>4. \A n \in 1 .. k + l : Cell(u[n]) \in R \cup Q  BY <1>3 DEF Moves, k, l
<1>5. ASSUME NEW c \in R \cup Q PROVE \E n \in 1 .. k + l : u[n].op = "S" /\ Cell(u[n]) = c
  <2>1. CASE c \in R
    <3>1. PICK n \in 1 .. k : s[n].op = "S" /\ Cell(s[n]) = c  BY <2>1 DEF Moves, k
    <3>2. n \in 1 .. k + l  BY <1>1 DEF k, l
    <3> QED  BY <1>2, <3>1, <3>2
  <2>2. CASE c \in Q
    <3>1. PICK n \in 1 .. l : t[n].op = "S" /\ Cell(t[n]) = c  BY <2>2 DEF Moves, l
    <3>2. k + n \in 1 .. k + l  BY <1>1 DEF k, l
    <3> QED  BY <1>2, <3>1, <3>2
  <2> QED  BY <2>1, <2>2
<1>6. ASSUME NEW n \in 1 .. k + l, NEW m \in 1 .. k + l,
             u[n].op = "S" /\ u[m].op = "S" /\ Cell(u[n]) = Cell(u[m])
      PROVE  n = m
  <2>1. CASE n \in 1 .. k /\ m \in 1 .. k  BY <1>2, <1>6, <2>1 DEF Moves, k
  <2>2. CASE n - k \in 1 .. l /\ m - k \in 1 .. l /\ u[n] = t[n - k] /\ u[m] = t[m - k]
    <3>1. n - k = m - k  BY <1>6, <2>2 DEF Moves, l
    <3> QED  BY <1>1, <3>1 DEF k, l
  <2>3. CASE n \in 1 .. k /\ m - k \in 1 .. l /\ u[n] = s[n] /\ u[m] = t[m - k]
    <3>1. Cell(s[n]) \in R /\ Cell(t[m - k]) \in Q  BY <2>3 DEF Moves, k, l
    <3> QED  BY <1>6, <2>3, <3>1
  <2>4. CASE m \in 1 .. k /\ n - k \in 1 .. l /\ u[m] = s[m] /\ u[n] = t[n - k]
    <3>1. Cell(s[m]) \in R /\ Cell(t[n - k]) \in Q  BY <2>4 DEF Moves, k, l
    <3> QED  BY <1>6, <2>4, <3>1
  <2> QED  BY <1>3, <2>1, <2>2, <2>3, <2>4
<1>7. ASSUME NEW n \in 1 .. k + l, u[n].op = "S"
      PROVE  \E m \in 1 .. n - 1 : LoadedAt(u, m, n)
  <2>1. CASE n \in 1 .. k /\ u[n] = s[n]
    <3>1. PICK m \in 1 .. n - 1 : LoadedAt(s, m, n)  BY <1>7, <2>1 DEF Moves, k
    <3>2. \A q \in 1 .. n - 1 : q \in 1 .. k  BY <1>1, <2>1 DEF k
    <3>3. \A q \in m + 1 .. n - 1 : q \in 1 .. n - 1  OBVIOUS
    <3>4. LoadedAt(u, m, n)  BY <1>2, <2>1, <3>1, <3>2, <3>3 DEF LoadedAt
    <3> QED  BY <3>4
  <2>2. CASE n - k \in 1 .. l /\ u[n] = t[n - k]
    <3>1. PICK m \in 1 .. (n - k) - 1 : LoadedAt(t, m, n - k)  BY <1>7, <2>2 DEF Moves, l
    <3>2. k + m \in 1 .. n - 1 /\ m \in 1 .. l  BY <1>1, <2>2 DEF k, l
    <3>3. \A q \in (k + m) + 1 .. n - 1 : q - k \in m + 1 .. (n - k) - 1 /\ q - k \in 1 .. l /\ k + (q - k) = q
      BY <1>1, <2>2 DEF k, l
    <3>4. \A q \in (k + m) + 1 .. n - 1 : u[q] = t[q - k]  BY <1>2, <3>3
    <3>5. u[k + m] = t[m]  BY <1>2, <3>2
    <3>6. \A q \in (k + m) + 1 .. n - 1 : t[q - k].op = "L" => t[q - k].reg # t[n - k].reg
      BY <3>1, <3>3 DEF LoadedAt
    <3>7. LoadedAt(u, k + m, n)  BY <2>2, <3>1, <3>4, <3>5, <3>6 DEF LoadedAt
    <3> QED  BY <3>2, <3>7
  <2> QED  BY <1>3, <2>1, <2>2
<1> QED  BY <1>2, <1>4, <1>5, <1>6, <1>7 DEF Moves, u

\* B[j][i] = A[i][j] for j from lo up to hi moves those elements.
LEMMA CopiesMove ==
    ASSUME NEW i \in Nat, NEW lo \in Nat, NEW hi \in Nat, lo <= hi
    PROVE  Moves(Copies(i, lo, hi), (lo .. hi - 1) \X {i})
<1> DEFINE s == Copies(i, lo, hi)
           k == 2 * (hi - lo)
           j(n) == lo + (n - 1) \div 2
<1>1. k \in Nat  OBVIOUS
<1>2. \A n \in 1 .. k : j(n) \in lo .. hi - 1 /\ n = 2 * (j(n) - lo) + (IF n % 2 = 1 THEN 1 ELSE 2)
  OBVIOUS
<1>3. s = [n \in 1 .. k |-> IF n % 2 = 1 THEN Load("tmp", i, j(n)) ELSE Store(j(n), i, "tmp")]
  BY DEF Copies
<1>4. \A n \in 1 .. k : s[n] = IF n % 2 = 1 THEN Load("tmp", i, j(n)) ELSE Store(j(n), i, "tmp")
  BY <1>3
<1>5. \A n \in 1 .. k : s[n] \in AccessRecords
  <2>1. \A n \in 1 .. k : j(n) \in Nat  BY <1>2
  <2>2. \A x \in Nat : Load("tmp", i, x) \in AccessRecords /\ Store(x, i, "tmp") \in AccessRecords
    BY DEF Load, Store, AccessRecords, Registers
  <2> HIDE DEF j, s, k
  <2> QED  BY <1>4, <2>1, <2>2
<1>6. s \in Seq(AccessRecords) /\ Len(s) = k
  <2> HIDE DEF j, k
  <2> QED  BY <1>1, <1>3, <1>5
<1>7. \A n \in 1 .. k : /\ Cell(s[n]) = <<j(n), i>> /\ s[n].reg = "tmp"
                        /\ s[n].op = "S" <=> n % 2 # 1
                        /\ s[n].op = "L" <=> n % 2 = 1
  <2>1. SUFFICES ASSUME NEW n \in 1 .. k
                 PROVE  /\ Cell(s[n]) = <<j(n), i>> /\ s[n].reg = "tmp"
                        /\ s[n].op = "S" <=> n % 2 # 1
                        /\ s[n].op = "L" <=> n % 2 = 1
    OBVIOUS
  <2> HIDE DEF j, s, k
  <2>2. CASE n % 2 = 1
    <3>1. s[n] = Load("tmp", i, j(n))  BY <1>4, <2>2
    <3> QED  BY <2>2, <3>1 DEF Load, Cell
  <2>3. CASE n % 2 # 1
    <3>1. s[n] = Store(j(n), i, "tmp")  BY <1>4, <2>3
    <3> QED  BY <2>3, <3>1 DEF Store, Cell
  <2> QED  BY <2>2, <2>3
<1> HIDE DEF s
<1>8. \A n \in 1 .. k : Cell(s[n]) \in (lo .. hi - 1) \X {i}
  <2> HIDE DEF j, k
  <2> QED  BY <1>2, <1>7
<1>9. ASSUME NEW c \in (lo .. hi - 1) \X {i} PROVE \E n \in 1 .. k : s[n].op = "S" /\ Cell(s[n]) = c
  <2>1. PICK r \in lo .. hi - 1 : c = <<r, i>>  OBVIOUS
  <2> DEFINE n == 2 * (r - lo) + 2
  <2>2. n \in 1 .. k /\ n % 2 # 1 /\ j(n) = r  OBVIOUS
  <2> HIDE DEF n, j, k
  <2> QED  BY <1>7, <2>1, <2>2
<1>10. \A n, m \in 1 .. k : s[n].op = "S" /\ s[m].op = "S" /\ Cell(s[n]) = Cell(s[m]) => n = m
  <2> SUFFICES ASSUME NEW n \in 1 .. k, NEW m \in 1 .. k,
                      s[n].op = "S", s[m].op = "S", Cell(s[n]) = Cell(s[m])
               PROVE  n = m
    OBVIOUS
  <2>1. n % 2 # 1 /\ m % 2 # 1 /\ j(n) = j(m)
    <3> HIDE DEF j, k
    <3> QED  BY <1>7
  <2>2. n = 2 * (j(n) - lo) + 2 /\ m = 2 * (j(m) - lo) + 2
    <3> HIDE DEF j, k
    <3> QED  BY <1>2, <2>1
  <2> HIDE DEF j, k
  <2> QED  BY <2>1, <2>2
<1>11. ASSUME NEW n \in 1 .. k, s[n].op = "S" PROVE \E m \in 1 .. n - 1 : LoadedAt(s, m, n)
  <2>1. n % 2 # 1
    <3> HIDE DEF j, k
    <3> QED  BY <1>7, <1>11
  <2>2. n - 1 \in 1 .. n - 1 /\ n - 1 \in 1 .. k /\ (n - 1) % 2 = 1 /\ j(n - 1) = j(n)
    BY <2>1
  <2>3. s[n - 1].op = "L" /\ s[n - 1].reg = s[n].reg /\ Cell(s[n - 1]) = Cell(s[n])
    <3> HIDE DEF j, k
    <3> QED  BY <1>7, <2>2
  <2>4. LoadedAt(s, n - 1, n)  BY <2>3 DEF LoadedAt
  <2> QED  BY <2>2, <2>4
<1> HIDE DEF k
<1> QED  BY <1>6, <1>8, <1>9, <1>10, <1>11 DEF Moves, s

\* An element read before the accesses of s and written after them, through a
\* register that s does not use.
LEMMA MovesAround ==
    ASSUME NEW s, NEW R, Moves(s, R), NEW r \in Registers, NEW i \in Nat, NEW j \in Nat,
           <<j, i>> \notin R, \A n \in 1 .. Len(s) : s[n].reg # r
    PROVE  Moves(<<Load(r, i, j)>> \o s \o <<Store(j, i, r)>>, R \cup {<<j, i>>})
<1> DEFINE k == Len(s)
           l == Load(r, i, j)
           w == Store(j, i, r)
           u == <<l>> \o s \o <<w>>
<1>1. s \in Seq(AccessRecords) /\ k \in Nat  BY DEF Moves
<1>2. l \in AccessRecords /\ w \in AccessRecords  BY DEF Load, Store, AccessRecords
<1>3. l.op = "L" /\ l.reg = r /\ w.op = "S" /\ w.reg = r /\ Cell(l) = <<j, i>> /\ Cell(w) = <<j, i>>
  BY DEF Load, Store, Cell
<1> HIDE DEF l, w
<1>4. /\ u \in Seq(AccessRecords) /\ Len(u) = k + 2
      /\ u[1] = l /\ u[k + 2] = w
      /\ \A n \in 1 .. k : u[n + 1] = s[n]
  BY <1>1, <1>2
<1> HIDE DEF u, k
<1>5. \A n \in 1 .. k + 2 : \/ n = 1 /\ u[n] = l
                            \/ n = k + 2 /\ u[n] = w
                            \/ n - 1 \in 1 .. k /\ u[n] = s[n - 1]
  <2>1. SUFFICES ASSUME NEW n \in 1 .. k + 2, n # 1, n # k + 2 PROVE n - 1 \in 1 .. k /\ u[n] = s[n - 1]
    BY <1>4
  <2>2. n - 1 \in 1 .. k /\ (n - 1) + 1 = n  BY <1>1, <2>1
  <2> QED  BY <1>4, <2>2
<1>6. \A n \in 1 .. k : Cell(s[n]) \in R /\ s[n].reg # r  BY DEF Moves, k
<1>7. \A n \in 1 .. k + 2 : Cell(u[n]) \in R \cup {<<j, i>>}  BY <1>3, <1>5, <1>6
<1>8. ASSUME NEW c \in R \cup {<<j, i>>} PROVE \E n \in 1 .. k + 2 : u[n].op = "S" /\ Cell(u[n]) = c
  <2>1. CASE c \in R
    <3>1. PICK n \in 1 .. k : s[n].op = "S" /\ Cell(s[n]) = c  BY <2>1 DEF Moves, k
    <3>2. n + 1 \in 1 .. k + 2  BY <1>1
    <3> QED  BY <1>4, <3>1, <3>2
  <2>2. CASE c = <<j, i>>
    <3>1. k + 2 \in 1 .. k + 2  BY <1>1
    <3> QED  BY <1>3, <1>4, <2>2, <3>1
  <2> QED  BY <2>1, <2>2
<1>9. ASSUME NEW n \in 1 .. k + 2, NEW m \in 1 .. k + 2,
             u[n].op = "S" /\ u[m].op = "S" /\ Cell(u[n]) = Cell(u[m])
      PROVE  n = m
  <2>1. CASE n = 1 \/ m = 1  BY <1>3, <1>4, <1>9, <2>1
  <2>2. CASE n = k + 2 /\ m = k + 2  BY <2>2
  <2>3. CASE n = k + 2 /\ m - 1 \in 1 .. k /\ u[m] = s[m - 1]  BY <1>3, <1>4, <1>6, <1>9, <2>3
  <2>4. CASE m = k + 2 /\ n - 1 \in 1 .. k /\ u[n] = s[n - 1]  BY <1>3, <1>4, <1>6, <1>9, <2>4
  <2>5. CASE n - 1 \in 1 .. k /\ m - 1 \in 1 .. k /\ u[n] = s[n - 1] /\ u[m] = s[m - 1]
    <3>1. n - 1 = m - 1  BY <1>9, <2>5 DEF Moves, k
    <3> QED  BY <3>1
  <2> QED  BY <1>5, <2>1, <2>2, <2>3, <2>4, <2>5
<1>10. ASSUME NEW n \in 1 .. k + 2, u[n].op = "S"
       PROVE  \E m \in 1 .. n - 1 : LoadedAt(u, m, n)
  <2>1. n # 1  BY <1>3, <1>4, <1>10
  <2>2. CASE n = k + 2
    <3>1. 1 \in 1 .. n - 1  BY <1>1, <2>2
    <3>2. \A q \in 1 + 1 .. n - 1 : q - 1 \in 1 .. k /\ (q - 1) + 1 = q  BY <1>1, <2>2
    <3>3. \A q \in 1 + 1 .. n - 1 : u[q].reg # r  BY <1>4, <1>6, <3>2
    <3>4. LoadedAt(u, 1, n)  BY <1>3, <1>4, <2>2, <3>3 DEF LoadedAt
    <3> QED  BY <3>1, <3>4
  <2>3. CASE n - 1 \in 1 .. k /\ u[n] = s[n - 1]
    <3>1. PICK m \in 1 .. (n - 1) - 1 : LoadedAt(s, m, n - 1)  BY <1>10, <2>3 DEF Moves, k
    <3>2. m + 1 \in 1 .. n - 1 /\ m \in 1 .. k  BY <1>1, <2>3
    <3>3. \A q \in (m + 1) + 1 .. n - 1 : q - 1 \in m + 1 .. (n - 1) - 1 /\ q - 1 \in 1 .. k /\ (q - 1) + 1 = q
      BY <1>1, <2>3
    <3>4. \A q \in (m + 1) + 1 .. n - 1 : u[q] = s[q - 1]  BY <1>4, <3>3
    <3>5. u[m + 1] = s[m]  BY <1>4, <3>2
    <3>6. \A q \in (m + 1) + 1 .. n - 1 : s[q - 1].op = "L" => s[q - 1].reg # s[n - 1].reg
      BY <3>1, <3>3 DEF LoadedAt
    <3>7. LoadedAt(u, m + 1, n)  BY <2>3, <3>1, <3>4, <3>5, <3>6 DEF LoadedAt
    <3> QED  BY <3>2, <3>7
  <2> QED  BY <1>5, <2>1, <2>2, <2>3
<1> QED  BY <1>4, <1>7, <1>8, <1>9, <1>10 DEF Moves, u, l, w

\* The same with column d in its turn and last, whether it is among them or not.
LEMMA CopiesButMove ==
    ASSUME NEW d \in Nat, NEW i \in Nat, NEW lo \in Nat, NEW hi \in Nat, lo <= hi
    PROVE  Moves(CopiesBut(d, i, lo, hi), (lo .. hi - 1) \X {i})
<1>1. CASE d \in lo .. hi - 1
  <2> DEFINE s == Copies(i, lo, d)
             t == Copies(i, d + 1, hi)
             l == Load("tmpVal", i, d)
             w == Store(d, i, "tmpVal")
  <2>1. Moves(s, (lo .. d - 1) \X {i}) /\ Moves(t, (d + 1 .. hi - 1) \X {i})
    <3>1. lo <= d /\ d + 1 <= hi /\ d + 1 \in Nat  BY <1>1
    <3> QED  BY <3>1, CopiesMove
  <2>2. \A n \in 1 .. Len(t) : t[n].reg # "tmpVal"
    <3>1. t = [n \in 1 .. 2 * (hi - (d + 1)) |->
                 IF n % 2 = 1 THEN Load("tmp", i, (d + 1) + (n - 1) \div 2)
                              ELSE Store((d + 1) + (n - 1) \div 2, i, "tmp")]
      BY DEF Copies
    <3>2. Len(t) = 2 * (hi - (d + 1))
      <4>1. 2 * (hi - (d + 1)) \in Nat  BY <1>1
      <4> HIDE DEF t
      <4> QED  BY <3>1, <4>1
    <3>3. \A x : Load("tmp", i, x).reg = "tmp" /\ Store(x, i, "tmp").reg = "tmp"  BY DEF Load, Store
    <3> HIDE DEF t
    <3>4. SUFFICES ASSUME NEW n \in 1 .. Len(t) PROVE t[n].reg = "tmp"
      OBVIOUS
    <3>5. t[n] = IF n % 2 = 1 THEN Load("tmp", i, (d + 1) + (n - 1) \div 2)
                              ELSE Store((d + 1) + (n - 1) \div 2, i, "tmp")
      BY <3>1, <3>2
    <3> QED  BY <3>3, <3>5
  <2>3. Moves(<<l>> \o t \o <<w>>, ((d + 1 .. hi - 1) \X {i}) \cup {<<d, i>>})
    <3>1. <<d, i>> \notin (d + 1 .. hi - 1) \X {i}  OBVIOUS
    <3>2. "tmpVal" \in Registers  BY DEF Registers
    <3> HIDE DEF t
    <3> QED  BY <2>1, <2>2, <3>1, <3>2, MovesAround
  <2>4. CopiesBut(d, i, lo, hi) = s \o (<<l>> \o t \o <<w>>)
    <3>1. CopiesBut(d, i, lo, hi) = s \o <<l>> \o t \o <<w>>  BY <1>1 DEF CopiesBut
    <3>2. s \in Seq(AccessRecords) /\ t \in Seq(AccessRecords)  BY <2>1 DEF Moves
    <3>3. <<l>> \in Seq(AccessRecords) /\ <<w>> \in Seq(AccessRecords)
      BY DEF Load, Store, AccessRecords, Registers
    <3> HIDE DEF s, t, l, w
    <3>4. s \o <<l>> \o t = s \o (<<l>> \o t)  BY <3>2, <3>3, ConcatAssociative
    <3>5. <<l>> \o t \in Seq(AccessRecords)  BY <3>2, <3>3
    <3>6. (s \o (<<l>> \o t)) \o <<w>> = s \o ((<<l>> \o t) \o <<w>>)  BY <3>2, <3>3, <3>5, ConcatAssociative
    <3> QED  BY <3>1, <3>4, <3>6
  <2>5. (lo .. hi - 1) \X {i} = ((lo .. d - 1) \X {i}) \cup (((d + 1 .. hi - 1) \X {i}) \cup {<<d, i>>})
    <3>1. lo .. hi - 1 = (lo .. d - 1) \cup ((d + 1 .. hi - 1) \cup {d})  BY <1>1
    <3> QED  BY <3>1
  <2>6. ((lo .. d - 1) \X {i}) \cap (((d + 1 .. hi - 1) \X {i}) \cup {<<d, i>>}) = {}  OBVIOUS
  <2> DEFINE P == (lo .. d - 1) \X {i}
             Q == ((d + 1 .. hi - 1) \X {i}) \cup {<<d, i>>}
             v == <<l>> \o t \o <<w>>
  <2> HIDE DEF s, t, l, w
  <2>7. Moves(s, P) /\ Moves(v, Q) /\ P \cap Q = {}  BY <2>1, <2>3, <2>6
  <2>8. CopiesBut(d, i, lo, hi) = s \o v /\ (lo .. hi - 1) \X {i} = P \cup Q  BY <2>4, <2>5
  <2> HIDE DEF P, Q, v
  <2>9. Moves(s \o v, P \cup Q)  BY <2>7, MovesConcat
  <2> QED  BY <2>8, <2>9
<1>2. CASE d \notin lo .. hi - 1  BY <1>2, CopiesMove DEF CopiesBut
<1> QED  BY <1>1, <1>2

\* FlattenSeq of the four rows of a quarter.
LEMMA FlattenFour ==
    ASSUME NEW f, Len(f) = 4
    PROVE  FlattenSeq(f) = f[1] \o f[2] \o f[3] \o f[4]
<1> DEFINE Body(g) == [i \in 1 .. Len(f) |-> IF i = 1 THEN f[i] ELSE g[i - 1] \o f[i]]
           flatten == CHOOSE g : g = Body(g)
           h == [i \in 1 .. 4 |-> IF i = 1 THEN f[1] ELSE IF i = 2 THEN f[1] \o f[2]
                                   ELSE IF i = 3 THEN f[1] \o f[2] \o f[3]
                                   ELSE f[1] \o f[2] \o f[3] \o f[4]]
<1>1. h = Body(h)
  <2>1. ASSUME NEW i \in 1 .. 4 PROVE h[i] = Body(h)[i]
    <3>1. i = 1 \/ i = 2 \/ i = 3 \/ i = 4  OBVIOUS
    <3> QED  BY <3>1
  <2>2. Body(h) = [i \in 1 .. 4 |-> Body(h)[i]]  OBVIOUS
  <2>3. h = [i \in 1 .. 4 |-> h[i]]  OBVIOUS
  <2> HIDE DEF Body, h
  <2> QED  BY <2>1, <2>2, <2>3
<1>2. flatten = Body(flatten)
  <2> HIDE DEF h, Body
  <2> QED  BY <1>1
<1>3. FlattenSeq(f) = flatten[4]
  <2>1. FlattenSeq(f) = IF Len(f) = 0 THEN f ELSE flatten[Len(f)]  BY Zenon DEF FlattenSeq
  <2>2. Len(f) # 0  OBVIOUS
  <2> HIDE DEF flatten
  <2> QED  BY <2>1, <2>2
<1> HIDE DEF flatten
<1>4. \A i \in 1 .. 4 : flatten[i] = IF i = 1 THEN f[i] ELSE flatten[i - 1] \o f[i]
  <2>1. flatten = [i \in 1 .. Len(f) |-> IF i = 1 THEN f[i] ELSE flatten[i - 1] \o f[i]]  BY <1>2
  <2> QED  BY <2>1
<1>5. flatten[1] = f[1]  BY <1>4
<1>6. flatten[2] = flatten[1] \o f[2]  BY <1>4
<1>7. flatten[3] = flatten[2] \o f[3]  BY <1>4
<1>8. flatten[4] = flatten[3] \o f[4]  BY <1>4
<1> QED  BY <1>3, <1>5, <1>6, <1>7, <1>8

\* Rows of the same columns, one after the other.
LEMMA FourRowsMove ==
    ASSUME NEW f, Len(f) = 4, NEW lo \in Nat, NEW hi \in Nat, NEW i \in Nat,
           \A r \in 1 .. 4 : Moves(f[r], (lo .. hi - 1) \X {i + r - 1})
    PROVE  Moves(FlattenSeq(f), (lo .. hi - 1) \X (i .. i + 3))
<1> DEFINE Row(r) == (lo .. hi - 1) \X {i + r - 1}
<1>1. Moves(f[1], Row(1)) /\ Moves(f[2], Row(2)) /\ Moves(f[3], Row(3)) /\ Moves(f[4], Row(4))
  OBVIOUS
<1>2. /\ Row(1) \cap Row(2) = {} /\ (Row(1) \cup Row(2)) \cap Row(3) = {}
      /\ (Row(1) \cup Row(2) \cup Row(3)) \cap Row(4) = {}
  OBVIOUS
<1>3. Row(1) \cup Row(2) \cup Row(3) \cup Row(4) = (lo .. hi - 1) \X (i .. i + 3)
  <2>1. {i + 1 - 1} \cup {i + 2 - 1} \cup {i + 3 - 1} \cup {i + 4 - 1} = i .. i + 3  OBVIOUS
  <2> QED  BY <2>1
<1> HIDE DEF Row
<1>4. Moves(f[1] \o f[2], Row(1) \cup Row(2))  BY <1>1, <1>2, MovesConcat
<1>5. Moves(f[1] \o f[2] \o f[3], Row(1) \cup Row(2) \cup Row(3))  BY <1>1, <1>2, <1>4, MovesConcat
<1>6. Moves(f[1] \o f[2] \o f[3] \o f[4], Row(1) \cup Row(2) \cup Row(3) \cup Row(4))
  BY <1>1, <1>2, <1>5, MovesConcat
<1> QED  BY <1>3, <1>6, FlattenFour

\* A quarter of a block of 64x64 off the diagonal.
LEMMA QuarterMoves ==
    ASSUME NEW i \in Nat, NEW j \in Nat
    PROVE  Moves(Quarter(i, j), (j .. j + 3) \X (i .. i + 3))
<1> DEFINE f == [r \in 1 .. HALF_STEP |-> Copies(i + r - 1, j, j + HALF_STEP)]
<1>1. HALF_STEP = 4  BY DEF HALF_STEP
<1>2. Len(f) = 4  BY <1>1
<1>3. ASSUME NEW r \in 1 .. 4 PROVE Moves(f[r], (j .. (j + 4) - 1) \X {i + r - 1})
  <2>1. f[r] = Copies(i + r - 1, j, j + 4)  BY <1>1
  <2>2. i + r - 1 \in Nat /\ j + 4 \in Nat /\ j <= j + 4  OBVIOUS
  <2> HIDE DEF f
  <2> QED  BY <2>1, <2>2, CopiesMove
<1>4. Quarter(i, j) = FlattenSeq(f)  BY DEF Quarter
<1>5. (j + 4) - 1 = j + 3 /\ j + 4 \in Nat  OBVIOUS
<1> HIDE DEF f
<1>6. Moves(FlattenSeq(f), (j .. (j + 4) - 1) \X (i .. i + 3))  BY <1>2, <1>3, <1>5, FourRowsMove
<1> QED  BY <1>4, <1>5, <1>6

\* Two halves, side by side or one above the other, make a block.
LEMMA BlockOfQuarters ==
    ASSUME NEW i \in Nat, NEW j \in Nat, NEW p, NEW q, NEW r, NEW s,
           Moves(p, (j .. j + 3) \X (i .. i + 3)), Moves(q, (j + 4 .. j + 7) \X (i .. i + 3)),
           Moves(r, (j + 4 .. j + 7) \X (i + 4 .. i + 7)), Moves(s, (j .. j + 3) \X (i + 4 .. i + 7))
    PROVE  /\ Moves(p \o q \o r \o s, (j .. j + 7) \X (i .. i + 7))
           /\ Moves(p \o s \o q \o r, (j .. j + 7) \X (i .. i + 7))
<1> DEFINE P == (j .. j + 3) \X (i .. i + 3)
           Q == (j + 4 .. j + 7) \X (i .. i + 3)
           R == (j + 4 .. j + 7) \X (i + 4 .. i + 7)
           S == (j .. j + 3) \X (i + 4 .. i + 7)
<1>1. Moves(p, P) /\ Moves(q, Q) /\ Moves(r, R) /\ Moves(s, S)  OBVIOUS
<1>2. /\ P \cap Q = {} /\ (P \cup Q) \cap R = {} /\ (P \cup Q \cup R) \cap S = {}
      /\ P \cap S = {} /\ (P \cup S) \cap Q = {} /\ (P \cup S \cup Q) \cap R = {}
  OBVIOUS
<1>3. P \cup Q \cup R \cup S = (j .. j + 7) \X (i .. i + 7) /\ P \cup S \cup Q \cup R = (j .. j + 7) \X (i .. i + 7)
  <2>1. j .. j + 7 = (j .. j + 3) \cup (j + 4 .. j + 7) /\ i .. i + 7 = (i .. i + 3) \cup (i + 4 .. i + 7)
    OBVIOUS
  <2> QED  BY <2>1
<1> HIDE DEF P, Q, R, S
<1>4. Moves(p \o q \o r \o s, P \cup Q \cup R \cup S)
  <2>1. Moves(p \o q, P \cup Q)  BY <1>1, <1>2, MovesConcat
  <2>2. Moves(p \o q \o r, P \cup Q \cup R)  BY <1>1, <1>2, <2>1, MovesConcat
  <2> QED  BY <1>1, <1>2, <2>2, MovesConcat
<1>5. Moves(p \o s \o q \o r, P \cup S \cup Q \cup R)
  <2>1. Moves(p \o s, P \cup S)  BY <1>1, <1>2, MovesConcat
  <2>2. Moves(p \o s \o q, P \cup S \cup Q)  BY <1>1, <1>2, <2>1, MovesConcat
  <2> QED  BY <1>1, <1>2, <2>2, MovesConcat
<1> QED  BY <1>3, <1>4, <1>5

\* A block of 64x64 off the diagonal.
LEMMA ZBlockMoves ==
    ASSUME NEW i \in Nat, NEW j \in Nat
    PROVE  Moves(transpose_z_8_8(i, j), (j .. j + 7) \X (i .. i + 7))
<1>1. i + 4 \in Nat /\ j + 4 \in Nat /\ (i + 4) + 3 = i + 7 /\ (j + 4) + 3 = j + 7  OBVIOUS
<1>2. /\ Moves(Quarter(i, j), (j .. j + 3) \X (i .. i + 3))
      /\ Moves(Quarter(i, j + 4), (j + 4 .. (j + 4) + 3) \X (i .. i + 3))
      /\ Moves(Quarter(i + 4, j + 4), (j + 4 .. (j + 4) + 3) \X (i + 4 .. (i + 4) + 3))
      /\ Moves(Quarter(i + 4, j), (j .. j + 3) \X (i + 4 .. (i + 4) + 3))
  BY <1>1, QuarterMoves
<1>3. transpose_z_8_8(i, j) = Quarter(i, j) \o Quarter(i, j + 4) \o Quarter(i + 4, j + 4) \o Quarter(i + 4, j)
  BY DEF transpose_z_8_8, HALF_STEP
<1> DEFINE p == Quarter(i, j)
           q == Quarter(i, j + 4)
           r == Quarter(i + 4, j + 4)
           s == Quarter(i + 4, j)
<1>4. /\ Moves(p, (j .. j + 3) \X (i .. i + 3)) /\ Moves(q, (j + 4 .. j + 7) \X (i .. i + 3))
      /\ Moves(r, (j + 4 .. j + 7) \X (i + 4 .. i + 7)) /\ Moves(s, (j .. j + 3) \X (i + 4 .. i + 7))
  BY <1>1, <1>2
<1>5. transpose_z_8_8(i, j) = p \o q \o r \o s  BY <1>3
<1> HIDE DEF p, q, r, s
<1>6. Moves(p \o q \o r \o s, (j .. j + 7) \X (i .. i + 7))  BY <1>4, BlockOfQuarters
<1> QED  BY <1>5, <1>6

\* The corner on the diagonal, through eight registers: what each of its
\* accesses is, and for every store the load it takes its element from.
LEMMA TopCornerMoves ==
    ASSUME NEW b \in Nat, NEW c \in Nat
    PROVE  Moves(TopCorner(b, b, c), (b + c .. b + c + 3) \X (b .. b + 3))
<1> DEFINE s == TopCorner(b, b, c)
           L(r, i, j) == Load(r, b + i, b + c + j)
           W(i, j, r) == Store(b + c + i, b + j, r)
<1>1. s = << L("tmp1", 0, 0), L("tmp2", 0, 1), L("tmp3", 0, 2), L("tmp4", 0, 3),
             L("tmp5", 1, 0), L("tmp6", 2, 0), L("tmp7", 3, 0), W(0, 0, "tmp1"),
             W(0, 1, "tmp5"), W(0, 2, "tmp6"), W(0, 3, "tmp7"), L("tmp1", 1, 1),
             L("tmp5", 1, 2), L("tmp6", 1, 3), L("tmp7", 2, 1), L("tmp8", 3, 1),
             W(1, 0, "tmp2"), W(1, 1, "tmp1"), W(1, 2, "tmp7"), W(1, 3, "tmp8"),
             L("tmp1", 2, 2), L("tmp2", 2, 3), L("tmp7", 3, 2), W(2, 0, "tmp3"),
             W(2, 1, "tmp5"), W(2, 2, "tmp1"), W(2, 3, "tmp7"), L("tmp1", 3, 3),
             W(3, 0, "tmp4"), W(3, 1, "tmp6"), W(3, 2, "tmp2"), W(3, 3, "tmp1") >>
  BY DEF TopCorner
<1>2. /\ \A r \in Registers, i, j \in 0 .. 3 : L(r, i, j) \in AccessRecords /\ W(i, j, r) \in AccessRecords
      /\ \A r, i, j : /\ L(r, i, j).op = "L" /\ L(r, i, j).reg = r /\ Cell(L(r, i, j)) = <<b + c + j, b + i>>
                      /\ W(i, j, r).op = "S" /\ W(i, j, r).reg = r /\ Cell(W(i, j, r)) = <<b + c + i, b + j>>
  BY DEF Load, Store, AccessRecords, Cell
<1> HIDE DEF L, W, s
<1>3. Len(s) = 32  BY <1>1
<1>4. s[1] = L("tmp1", 0, 0) /\ s[2] = L("tmp2", 0, 1) /\ s[3] = L("tmp3", 0, 2) /\ s[4] = L("tmp4", 0, 3)  BY <1>1
<1>5. s[5] = L("tmp5", 1, 0) /\ s[6] = L("tmp6", 2, 0) /\ s[7] = L("tmp7", 3, 0) /\ s[8] = W(0, 0, "tmp1")  BY <1>1
<1>6. s[9] = W(0, 1, "tmp5") /\ s[10] = W(0, 2, "tmp6") /\ s[11] = W(0, 3, "tmp7") /\ s[12] = L("tmp1", 1, 1)  BY <1>1
<1>7. s[13] = L("tmp5", 1, 2) /\ s[14] = L("tmp6", 1, 3) /\ s[15] = L("tmp7", 2, 1) /\ s[16] = L("tmp8", 3, 1)  BY <1>1
<1>8. s[17] = W(1, 0, "tmp2") /\ s[18] = W(1, 1, "tmp1") /\ s[19] = W(1, 2, "tmp7") /\ s[20] = W(1, 3, "tmp8")  BY <1>1
<1>9. s[21] = L("tmp1", 2, 2) /\ s[22] = L("tmp2", 2, 3) /\ s[23] = L("tmp7", 3, 2) /\ s[24] = W(2, 0, "tmp3")  BY <1>1
<1>10. s[25] = W(2, 1, "tmp5") /\ s[26] = W(2, 2, "tmp1") /\ s[27] = W(2, 3, "tmp7") /\ s[28] = L("tmp1", 3, 3)  BY <1>1
<1>11. s[29] = W(3, 0, "tmp4") /\ s[30] = W(3, 1, "tmp6") /\ s[31] = W(3, 2, "tmp2") /\ s[32] = W(3, 3, "tmp1")  BY <1>1
<1>12. \A n \in 1 .. 32 : s[n] \in AccessRecords
  <2>1. s[1] \in AccessRecords /\ s[2] \in AccessRecords /\ s[3] \in AccessRecords /\ s[4] \in AccessRecords
    BY <1>2, <1>4 DEF Registers
  <2>2. s[5] \in AccessRecords /\ s[6] \in AccessRecords /\ s[7] \in AccessRecords /\ s[8] \in AccessRecords
    BY <1>2, <1>5 DEF Registers
  <2>3. s[9] \in AccessRecords /\ s[10] \in AccessRecords /\ s[11] \in AccessRecords /\ s[12] \in AccessRecords
    BY <1>2, <1>6 DEF Registers
  <2>4. s[13] \in AccessRecords /\ s[14] \in AccessRecords /\ s[15] \in AccessRecords /\ s[16] \in AccessRecords
    BY <1>2, <1>7 DEF Registers
  <2>5. s[17] \in AccessRecords /\ s[18] \in AccessRecords /\ s[19] \in AccessRecords /\ s[20] \in AccessRecords
    BY <1>2, <1>8 DEF Registers
  <2>6. s[21] \in AccessRecords /\ s[22] \in AccessRecords /\ s[23] \in AccessRecords /\ s[24] \in AccessRecords
    BY <1>2, <1>9 DEF Registers
  <2>7. s[25] \in AccessRecords /\ s[26] \in AccessRecords /\ s[27] \in AccessRecords /\ s[28] \in AccessRecords
    BY <1>2, <1>10 DEF Registers
  <2>8. s[29] \in AccessRecords /\ s[30] \in AccessRecords /\ s[31] \in AccessRecords /\ s[32] \in AccessRecords
    BY <1>2, <1>11 DEF Registers
  <2> QED  BY <2>1, <2>2, <2>3, <2>4, <2>5, <2>6, <2>7, <2>8
<1>13. /\ s[1].op = "L" /\ s[1].reg = "tmp1" /\ Cell(s[1]) = <<b + c + 0, b + 0>>
      /\ s[2].op = "L" /\ s[2].reg = "tmp2" /\ Cell(s[2]) = <<b + c + 1, b + 0>>
      /\ s[3].op = "L" /\ s[3].reg = "tmp3" /\ Cell(s[3]) = <<b + c + 2, b + 0>>
      /\ s[4].op = "L" /\ s[4].reg = "tmp4" /\ Cell(s[4]) = <<b + c + 3, b + 0>>
  BY <1>2, <1>4
<1>14. /\ s[5].op = "L" /\ s[5].reg = "tmp5" /\ Cell(s[5]) = <<b + c + 0, b + 1>>
      /\ s[6].op = "L" /\ s[6].reg = "tmp6" /\ Cell(s[6]) = <<b + c + 0, b + 2>>
      /\ s[7].op = "L" /\ s[7].reg = "tmp7" /\ Cell(s[7]) = <<b + c + 0, b + 3>>
      /\ s[8].op = "S" /\ s[8].reg = "tmp1" /\ Cell(s[8]) = <<b + c + 0, b + 0>>
  BY <1>2, <1>5
<1>15. /\ s[9].op = "S" /\ s[9].reg = "tmp5" /\ Cell(s[9]) = <<b + c + 0, b + 1>>
      /\ s[10].op = "S" /\ s[10].reg = "tmp6" /\ Cell(s[10]) = <<b + c + 0, b + 2>>
      /\ s[11].op = "S" /\ s[11].reg = "tmp7" /\ Cell(s[11]) = <<b + c + 0, b + 3>>
      /\ s[12].op = "L" /\ s[12].reg = "tmp1" /\ Cell(s[12]) = <<b + c + 1, b + 1>>
  BY <1>2, <1>6
<1>16. /\ s[13].op = "L" /\ s[13].reg = "tmp5" /\ Cell(s[13]) = <<b + c + 2, b + 1>>
      /\ s[14].op = "L" /\ s[14].reg = "tmp6" /\ Cell(s[14]) = <<b + c + 3, b + 1>>
      /\ s[15].op = "L" /\ s[15].reg = "tmp7" /\ Cell(s[15]) = <<b + c + 1, b + 2>>
      /\ s[16].op = "L" /\ s[16].reg = "tmp8" /\ Cell(s[16]) = <<b + c + 1, b + 3>>
  BY <1>2, <1>7
<1>17. /\ s[17].op = "S" /\ s[17].reg = "tmp2" /\ Cell(s[17]) = <<b + c + 1, b + 0>>
      /\ s[18].op = "S" /\ s[18].reg = "tmp1" /\ Cell(s[18]) = <<b + c + 1, b + 1>>
      /\ s[19].op = "S" /\ s[19].reg = "tmp7" /\ Cell(s[19]) = <<b + c + 1, b + 2>>
      /\ s[20].op = "S" /\ s[20].reg = "tmp8" /\ Cell(s[20]) = <<b + c + 1, b + 3>>
  BY <1>2, <1>8
<1>18. /\ s[21].op = "L" /\ s[21].reg = "tmp1" /\ Cell(s[21]) = <<b + c + 2, b + 2>>
      /\ s[22].op = "L" /\ s[22].reg = "tmp2" /\ Cell(s[22]) = <<b + c + 3, b + 2>>
      /\ s[23].op = "L" /\ s[23].reg = "tmp7" /\ Cell(s[23]) = <<b + c + 2, b + 3>>
      /\ s[24].op = "S" /\ s[24].reg = "tmp3" /\ Cell(s[24]) = <<b + c + 2, b + 0>>
  BY <1>2, <1>9
<1>19. /\ s[25].op = "S" /\ s[25].reg = "tmp5" /\ Cell(s[25]) = <<b + c + 2, b + 1>>
      /\ s[26].op = "S" /\ s[26].reg = "tmp1" /\ Cell(s[26]) = <<b + c + 2, b + 2>>
      /\ s[27].op = "S" /\ s[27].reg = "tmp7" /\ Cell(s[27]) = <<b + c + 2, b + 3>>
      /\ s[28].op = "L" /\ s[28].reg = "tmp1" /\ Cell(s[28]) = <<b + c + 3, b + 3>>
  BY <1>2, <1>10
<1>20. /\ s[29].op = "S" /\ s[29].reg = "tmp4" /\ Cell(s[29]) = <<b + c + 3, b + 0>>
      /\ s[30].op = "S" /\ s[30].reg = "tmp6" /\ Cell(s[30]) = <<b + c + 3, b + 1>>
      /\ s[31].op = "S" /\ s[31].reg = "tmp2" /\ Cell(s[31]) = <<b + c + 3, b + 2>>
      /\ s[32].op = "S" /\ s[32].reg = "tmp1" /\ Cell(s[32]) = <<b + c + 3, b + 3>>
  BY <1>2, <1>11
<1> DEFINE RunStart(x) == IF x = 0 THEN 8 ELSE IF x = 1 THEN 17 ELSE IF x = 2 THEN 24 ELSE 29
<1> HIDE <1>1, <1>2, <1>4, <1>5, <1>6, <1>7, <1>8, <1>9, <1>10, <1>11
<1>21. ASSUME NEW x \in 0 .. 3, NEW y \in 0 .. 3
       PROVE  s[RunStart(x) + y].op = "S" /\ Cell(s[RunStart(x) + y]) = <<b + c + x, b + y>>
  <2>1. CASE x = 0
    <3>1. y = 0 \/ y = 1 \/ y = 2 \/ y = 3  OBVIOUS
    <3> QED  BY <2>1, <3>1, <1>14, <1>15
  <2>2. CASE x = 1
    <3>1. y = 0 \/ y = 1 \/ y = 2 \/ y = 3  OBVIOUS
    <3> QED  BY <2>2, <3>1, <1>17
  <2>3. CASE x = 2
    <3>1. y = 0 \/ y = 1 \/ y = 2 \/ y = 3  OBVIOUS
    <3> QED  BY <2>3, <3>1, <1>18, <1>19
  <2>4. CASE x = 3
    <3>1. y = 0 \/ y = 1 \/ y = 2 \/ y = 3  OBVIOUS
    <3> QED  BY <2>4, <3>1, <1>20
  <2> QED  BY <2>1, <2>2, <2>3, <2>4
<1>22. \A n \in 1 .. 32 : s[n].op = "S" => \E x, y \in 0 .. 3 : n = RunStart(x) + y
  <2>1. SUFFICES ASSUME NEW n \in 1 .. 32, \A x, y \in 0 .. 3 : n # RunStart(x) + y PROVE s[n].op = "L"
    BY <1>13, <1>14, <1>15, <1>16, <1>17, <1>18, <1>19, <1>20
  <2>2. n \in {1, 2, 3, 4, 5, 6, 7, 12, 13, 14, 15, 16, 21, 22, 23, 28}
    <3>1. \A y \in 0 .. 3 : n # RunStart(0) + y /\ n # RunStart(1) + y /\ n # RunStart(2) + y /\ n # RunStart(3) + y  BY <2>1
    <3>2. \A y \in 0 .. 3 : n # 8 + y /\ n # 17 + y /\ n # 24 + y /\ n # 29 + y  BY <3>1
    <3>3. n \notin 8 .. 11 /\ n \notin 17 .. 20 /\ n \notin 24 .. 27 /\ n \notin 29 .. 32  BY <3>2
    <3> QED  BY <3>3
  <2> QED  BY <2>2, <1>13, <1>14, <1>15, <1>16, <1>18, <1>19
<1>23. \A n \in 1 .. 32 : s[n].op = "S" => \E m \in 1 .. n - 1 : LoadedAt(s, m, n)
  <2>1. LoadedAt(s, 1, 8)
    <3>1. \A q \in 2 .. 7 : s[q].op = "L" => s[q].reg # "tmp1"
      BY <1>13, <1>14
    <3> QED  BY <3>1, <1>13, <1>14 DEF LoadedAt
  <2>2. LoadedAt(s, 5, 9)
    <3>1. \A q \in 6 .. 8 : s[q].op = "L" => s[q].reg # "tmp5"
      BY <1>14, <1>15
    <3> QED  BY <3>1, <1>14, <1>15 DEF LoadedAt
  <2>3. LoadedAt(s, 6, 10)
    <3>1. \A q \in 7 .. 9 : s[q].op = "L" => s[q].reg # "tmp6"
      BY <1>14, <1>15
    <3> QED  BY <3>1, <1>14, <1>15 DEF LoadedAt
  <2>4. LoadedAt(s, 7, 11)
    <3>1. \A q \in 8 .. 10 : s[q].op = "L" => s[q].reg # "tmp7"
      BY <1>14, <1>15
    <3> QED  BY <3>1, <1>14, <1>15 DEF LoadedAt
  <2>5. LoadedAt(s, 2, 17)
    <3>1. \A q \in 3 .. 16 : s[q].op = "L" => s[q].reg # "tmp2"
      BY <1>13, <1>14, <1>15, <1>16, <1>17
    <3> QED  BY <3>1, <1>13, <1>17 DEF LoadedAt
  <2>6. LoadedAt(s, 12, 18)
    <3>1. \A q \in 13 .. 17 : s[q].op = "L" => s[q].reg # "tmp1"
      BY <1>15, <1>16, <1>17
    <3> QED  BY <3>1, <1>15, <1>17 DEF LoadedAt
  <2>7. LoadedAt(s, 15, 19)
    <3>1. \A q \in 16 .. 18 : s[q].op = "L" => s[q].reg # "tmp7"
      BY <1>16, <1>17
    <3> QED  BY <3>1, <1>16, <1>17 DEF LoadedAt
  <2>8. LoadedAt(s, 16, 20)
    <3>1. \A q \in 17 .. 19 : s[q].op = "L" => s[q].reg # "tmp8"
      BY <1>16, <1>17
    <3> QED  BY <3>1, <1>16, <1>17 DEF LoadedAt
  <2>9. LoadedAt(s, 3, 24)
    <3>1. \A q \in 4 .. 23 : s[q].op = "L" => s[q].reg # "tmp3"
      BY <1>13, <1>14, <1>15, <1>16, <1>17, <1>18
    <3> QED  BY <3>1, <1>13, <1>18 DEF LoadedAt
  <2>10. LoadedAt(s, 13, 25)
    <3>1. \A q \in 14 .. 24 : s[q].op = "L" => s[q].reg # "tmp5"
      BY <1>16, <1>17, <1>18, <1>19
    <3> QED  BY <3>1, <1>16, <1>19 DEF LoadedAt
  <2>11. LoadedAt(s, 21, 26)
    <3>1. \A q \in 22 .. 25 : s[q].op = "L" => s[q].reg # "tmp1"
      BY <1>18, <1>19
    <3> QED  BY <3>1, <1>18, <1>19 DEF LoadedAt
  <2>12. LoadedAt(s, 23, 27)
    <3>1. \A q \in 24 .. 26 : s[q].op = "L" => s[q].reg # "tmp7"
      BY <1>18, <1>19
    <3> QED  BY <3>1, <1>18, <1>19 DEF LoadedAt
  <2>13. LoadedAt(s, 4, 29)
    <3>1. \A q \in 5 .. 28 : s[q].op = "L" => s[q].reg # "tmp4"
      BY <1>13, <1>14, <1>15, <1>16, <1>17, <1>18, <1>19, <1>20
    <3> QED  BY <3>1, <1>13, <1>20 DEF LoadedAt
  <2>14. LoadedAt(s, 14, 30)
    <3>1. \A q \in 15 .. 29 : s[q].op = "L" => s[q].reg # "tmp6"
      BY <1>16, <1>17, <1>18, <1>19, <1>20
    <3> QED  BY <3>1, <1>16, <1>20 DEF LoadedAt
  <2>15. LoadedAt(s, 22, 31)
    <3>1. \A q \in 23 .. 30 : s[q].op = "L" => s[q].reg # "tmp2"
      BY <1>18, <1>19, <1>20
    <3> QED  BY <3>1, <1>18, <1>20 DEF LoadedAt
  <2>16. LoadedAt(s, 28, 32)
    <3>1. \A q \in 29 .. 31 : s[q].op = "L" => s[q].reg # "tmp1"
      BY <1>19, <1>20
    <3> QED  BY <3>1, <1>19, <1>20 DEF LoadedAt
  <2>17. SUFFICES ASSUME NEW n \in 1 .. 32, s[n].op = "S" PROVE \E m \in 1 .. n - 1 : LoadedAt(s, m, n)
    OBVIOUS
  <2>18. PICK x \in 0 .. 3, y \in 0 .. 3 : n = RunStart(x) + y  BY <1>22, <2>17
  <2>19. n \in {8, 9, 10, 11, 17, 18, 19, 20, 24, 25, 26, 27, 29, 30, 31, 32}
    <3>1. CASE x = 0
      <4>1. y = 0 \/ y = 1 \/ y = 2 \/ y = 3  OBVIOUS
      <4> QED  BY <2>18, <3>1, <4>1
    <3>2. CASE x = 1
      <4>1. y = 0 \/ y = 1 \/ y = 2 \/ y = 3  OBVIOUS
      <4> QED  BY <2>18, <3>2, <4>1
    <3>3. CASE x = 2
      <4>1. y = 0 \/ y = 1 \/ y = 2 \/ y = 3  OBVIOUS
      <4> QED  BY <2>18, <3>3, <4>1
    <3>4. CASE x = 3
      <4>1. y = 0 \/ y = 1 \/ y = 2 \/ y = 3  OBVIOUS
      <4> QED  BY <2>18, <3>4, <4>1
    <3> QED  BY <3>1, <3>2, <3>3, <3>4
  <2> QED  BY <2>19, <2>1, <2>2, <2>3, <2>4, <2>5, <2>6, <2>7, <2>8, <2>9, <2>10, <2>11, <2>12, <2>13, <2>14, <2>15, <2>16
<1>24. \A x \in 0 .. 3, y \in 0 .. 3 : RunStart(x) + y \in 1 .. 32  OBVIOUS
<1> HIDE DEF RunStart
<1> DEFINE R == (b + c .. b + c + 3) \X (b .. b + 3)
<1>25. \A n \in 1 .. 32 : Cell(s[n]) \in R
  <2>1. Cell(s[1]) \in R /\ Cell(s[2]) \in R /\ Cell(s[3]) \in R /\ Cell(s[4]) \in R  BY <1>13
  <2>2. Cell(s[5]) \in R /\ Cell(s[6]) \in R /\ Cell(s[7]) \in R /\ Cell(s[8]) \in R  BY <1>14
  <2>3. Cell(s[9]) \in R /\ Cell(s[10]) \in R /\ Cell(s[11]) \in R /\ Cell(s[12]) \in R  BY <1>15
  <2>4. Cell(s[13]) \in R /\ Cell(s[14]) \in R /\ Cell(s[15]) \in R /\ Cell(s[16]) \in R  BY <1>16
  <2>5. Cell(s[17]) \in R /\ Cell(s[18]) \in R /\ Cell(s[19]) \in R /\ Cell(s[20]) \in R  BY <1>17
  <2>6. Cell(s[21]) \in R /\ Cell(s[22]) \in R /\ Cell(s[23]) \in R /\ Cell(s[24]) \in R  BY <1>18
  <2>7. Cell(s[25]) \in R /\ Cell(s[26]) \in R /\ Cell(s[27]) \in R /\ Cell(s[28]) \in R  BY <1>19
  <2>8. Cell(s[29]) \in R /\ Cell(s[30]) \in R /\ Cell(s[31]) \in R /\ Cell(s[32]) \in R  BY <1>20
  <2> QED  BY <2>1, <2>2, <2>3, <2>4, <2>5, <2>6, <2>7, <2>8
<1>26. ASSUME NEW z \in R PROVE \E n \in 1 .. 32 : s[n].op = "S" /\ Cell(s[n]) = z
  <2>1. PICK i \in b + c .. b + c + 3, j \in b .. b + 3 : z = <<i, j>>  OBVIOUS
  <2>2. i - (b + c) \in 0 .. 3 /\ j - b \in 0 .. 3 /\ b + c + (i - (b + c)) = i /\ b + (j - b) = j  OBVIOUS
  <2> QED  BY <1>21, <1>24, <2>1, <2>2
<1>27. ASSUME NEW n \in 1 .. 32, NEW m \in 1 .. 32, s[n].op = "S" /\ s[m].op = "S" /\ Cell(s[n]) = Cell(s[m])
       PROVE  n = m
  <2>1. PICK x \in 0 .. 3, y \in 0 .. 3 : n = RunStart(x) + y  BY <1>22, <1>27
  <2>2. PICK i \in 0 .. 3, j \in 0 .. 3 : m = RunStart(i) + j  BY <1>22, <1>27
  <2>3. <<b + c + x, b + y>> = <<b + c + i, b + j>>  BY <1>21, <1>27, <2>1, <2>2
  <2>4. b + c + x = b + c + i /\ b + y = b + j  BY <2>3
  <2>5. x = i /\ y = j  BY <2>4
  <2> QED  BY <2>1, <2>2, <2>5
<1>28. s \in Seq(AccessRecords)
  <2>1. DOMAIN s = 1 .. 32 /\ s = [n \in 1 .. 32 |-> s[n]]  BY <1>1
  <2> QED  BY <1>12, <2>1
<1> HIDE DEF R
<1>29. Moves(s, R)  BY <1>3, <1>23, <1>25, <1>26, <1>27, <1>28 DEF Moves
<1> QED  BY <1>29 DEF s, R

\* The other half of its columns: four rows, each but for one element.
LEMMA BottomCornerMoves ==
    ASSUME NEW b \in Nat, NEW c \in Nat
    PROVE  Moves(BottomCorner(b, b, c), (b + c .. b + c + 3) \X (b + 4 .. b + 7))
<1> DEFINE f == [r \in 1 .. HALF_STEP |->
                   CopiesBut(b + c + r - 1, b + HALF_STEP + r - 1, b + c, b + c + HALF_STEP)]
<1>1. HALF_STEP = 4  BY DEF HALF_STEP
<1>2. Len(f) = 4  BY <1>1
<1>3. ASSUME NEW r \in 1 .. 4 PROVE Moves(f[r], (b + c .. (b + c + 4) - 1) \X {(b + 4) + r - 1})
  <2>1. f[r] = CopiesBut(b + c + r - 1, b + 4 + r - 1, b + c, b + c + 4)  BY <1>1
  <2>2. /\ b + c + r - 1 \in Nat /\ b + 4 + r - 1 \in Nat /\ b + c \in Nat /\ b + c + 4 \in Nat
        /\ b + c <= b + c + 4
    OBVIOUS
  <2> HIDE DEF f
  <2> QED  BY <2>1, <2>2, CopiesButMove
<1>4. BottomCorner(b, b, c) = FlattenSeq(f)  BY DEF BottomCorner
<1>5. /\ (b + c + 4) - 1 = b + c + 3 /\ b + c + 4 \in Nat /\ b + c \in Nat /\ b + 4 \in Nat
      /\ (b + 4) + 3 = b + 7
  OBVIOUS
<1> HIDE DEF f
<1>6. Moves(FlattenSeq(f), (b + c .. (b + c + 4) - 1) \X (b + 4 .. (b + 4) + 3))
  BY <1>2, <1>3, <1>5, FourRowsMove
<1> QED  BY <1>4, <1>5, <1>6

\* A block of 64x64 on the diagonal.
LEMMA DiagonalBlockMoves ==
    ASSUME NEW b \in Nat
    PROVE  Moves(transpose_diago_8_8(b, b), (b .. b + 7) \X (b .. b + 7))
<1> DEFINE p == TopCorner(b, b, 0)
           q == TopCorner(b, b, 4)
           r == BottomCorner(b, b, 4)
           s == BottomCorner(b, b, 0)
<1>1. b + 0 = b /\ (b + 4) + 3 = b + 7  OBVIOUS
<1>2. /\ Moves(p, (b + 0 .. b + 0 + 3) \X (b .. b + 3))
      /\ Moves(q, (b + 4 .. b + 4 + 3) \X (b .. b + 3))
      /\ Moves(r, (b + 4 .. b + 4 + 3) \X (b + 4 .. b + 7))
      /\ Moves(s, (b + 0 .. b + 0 + 3) \X (b + 4 .. b + 7))
  BY TopCornerMoves, BottomCornerMoves
<1>3. transpose_diago_8_8(b, b) = p \o s \o q \o r  BY DEF transpose_diago_8_8, HALF_STEP
<1> HIDE DEF p, q, r, s
<1>4. /\ Moves(p, (b .. b + 3) \X (b .. b + 3)) /\ Moves(q, (b + 4 .. b + 7) \X (b .. b + 3))
      /\ Moves(r, (b + 4 .. b + 7) \X (b + 4 .. b + 7)) /\ Moves(s, (b .. b + 3) \X (b + 4 .. b + 7))
  BY <1>1, <1>2
<1>5. Moves(p \o s \o q \o r, (b .. b + 7) \X (b .. b + 7))  BY <1>4, BlockOfQuarters
<1> QED  BY <1>3, <1>5

---------------------------------------------------------------------------
(* The loops over rows and blocks *)

Cells == (0 .. M - 1) \X (0 .. N - 1)

\* The states the loops go through; at the end i is beyond the last row.
Position(p) ==
    /\ p = [ib |-> p.ib, jb |-> p.jb, i |-> p.i]
    /\ p.ib \in Nat /\ p.jb \in Nat /\ p.i \in Nat
    /\ ~Blocked => p.ib = 0 /\ p.jb = 0 /\ p.i <= N
    /\ Blocked => p.jb < M /\ p.ib <= p.i /\ (p.i < N => p.i < p.ib + Step) /\ (p.i >= N => p.i = p.ib)
    /\ ByBlock => p.i = p.ib /\ p.ib % 8 = 0 /\ p.jb % 8 = 0

\* The cells of the row, or the block, at p.
Region(p) ==
    IF ~Blocked THEN (0 .. M - 1) \X {p.i}
    ELSE IF ~ByBlock THEN (p.jb .. Min({p.jb + Step, M}) - 1) \X {p.i}
    ELSE (p.jb .. p.jb + 7) \X (p.ib .. p.ib + 7)

\* The cells of those before it.
Visited(p, r, c) ==
    IF ~Blocked THEN c < p.i
    ELSE IF ~ByBlock THEN c < p.ib \/ (c < p.ib + Step /\ r < p.jb) \/ (c < p.i /\ r < p.jb + Step)
    ELSE c < p.ib \/ (c < p.ib + 8 /\ r < p.jb)

Earlier(p) == {x \in Cells : Visited(p, x[1], x[2])}

Sized == M \in Nat /\ N \in Nat /\ (N > 0 => M > 0)

\* The smaller of two numbers.
LEMMA MinOfTwo ==
    ASSUME NEW a \in Nat, NEW b \in Nat
    PROVE  Min({a, b}) = IF a <= b THEN a ELSE b
<1>1. {a, b} \in SUBSET Nat /\ {a, b} # {}  OBVIOUS
<1>2. Min({a, b}) \in {a, b} /\ \A i \in {a, b} : Min({a, b}) <= i  BY <1>1, MinIsMember
<1> QED  BY <1>2

\* A row of no more than Step elements within the matrix.
LEMMA RowEnd ==
    ASSUME Sized, NEW jb \in Nat, jb < M
    PROVE  /\ Step \in Nat /\ Step > 0
           /\ Min({jb + Step, M}) \in Nat /\ jb < Min({jb + Step, M})
           /\ Min({jb + Step, M}) <= M /\ Min({jb + Step, M}) <= jb + Step
           /\ \A r \in Nat : r < M => (r < jb + Step <=> r < Min({jb + Step, M}))
<1>1. Step \in Nat /\ Step > 0  BY DEF Step, STEP, TWO_STEP
<1>2. M \in Nat /\ jb + Step \in Nat  BY <1>1 DEF Sized
<1>3. Min({jb + Step, M}) = IF jb + Step <= M THEN jb + Step ELSE M  BY <1>2, MinOfTwo
<1> QED  BY <1>1, <1>2, <1>3

\* Every row and block moves what belongs in its own cells, none of which an
\* earlier one has written.
LEMMA RowMoves ==
    ASSUME Sized, NEW p, Position(p), p.i < N
    PROVE  /\ Moves(Accesses(p), Region(p)) /\ Region(p) # {}
           /\ Region(p) \subseteq Cells /\ Region(p) \cap Earlier(p) = {}
<1>1. p.ib \in Nat /\ p.jb \in Nat /\ p.i \in Nat /\ M \in Nat /\ N \in Nat /\ M > 0
  BY DEF Position, Sized
<1>2. CASE ~Blocked
  <2>1. Accesses(p) = Copies(p.i, 0, M) /\ Region(p) = (0 .. M - 1) \X {p.i}  BY <1>2 DEF Accesses, Region
  <2>2. Moves(Copies(p.i, 0, M), (0 .. M - 1) \X {p.i})  BY <1>1, CopiesMove
  <2>3. \A r, c : ~Visited(p, r, c) <=> ~(c < p.i)  BY <1>2 DEF Visited
  <2>4. (0 .. M - 1) \X {p.i} \subseteq Cells  BY <1>1 DEF Cells
  <2>5. <<0, p.i>> \in (0 .. M - 1) \X {p.i}  BY <1>1
  <2>6. ((0 .. M - 1) \X {p.i}) \cap Earlier(p) = {}
    <3>1. SUFFICES ASSUME NEW x \in Earlier(p), x \in (0 .. M - 1) \X {p.i} PROVE FALSE
      OBVIOUS
    <3>2. x[2] = p.i /\ x[2] < p.i  BY <2>3, <3>1 DEF Earlier
    <3> QED  BY <1>1, <3>2
  <2> QED  BY <2>1, <2>2, <2>4, <2>5, <2>6
<1>3. CASE Blocked /\ ~ByBlock
  <2> DEFINE e == Min({p.jb + Step, M})
             R == (p.jb .. e - 1) \X {p.i}
  <2>1. p.jb < M /\ p.ib <= p.i  BY <1>3 DEF Position
  <2>2. e \in Nat /\ p.jb < e /\ e <= M /\ e <= p.jb + Step /\ Step \in Nat  BY <1>1, <2>1, RowEnd
  <2>3. Accesses(p) = CopiesBut(p.i, p.i, p.jb, e) /\ Region(p) = R  BY <1>3 DEF Accesses, BlockRow, Region
  <2> HIDE DEF e
  <2>4. Moves(CopiesBut(p.i, p.i, p.jb, e), R)  BY <1>1, <2>2, CopiesButMove
  <2>5. \A r, c : Visited(p, r, c) <=> c < p.ib \/ (c < p.ib + Step /\ r < p.jb) \/ (c < p.i /\ r < p.jb + Step)
    BY <1>3 DEF Visited
  <2>6. R \subseteq Cells /\ <<p.jb, p.i>> \in R  BY <1>1, <2>2 DEF Cells
  <2>7. R \cap Earlier(p) = {}
    <3>1. SUFFICES ASSUME NEW x \in Earlier(p), x \in R PROVE FALSE
      OBVIOUS
    <3>2. Visited(p, x[1], x[2]) /\ x[1] \in p.jb .. e - 1 /\ x[2] = p.i  BY <3>1 DEF Earlier
    <3>3. x[2] < p.ib \/ (x[2] < p.ib + Step /\ x[1] < p.jb) \/ (x[2] < p.i /\ x[1] < p.jb + Step)
      BY <2>5, <3>2
    <3> QED  BY <1>1, <2>1, <2>2, <3>2, <3>3
  <2> QED  BY <2>3, <2>4, <2>6, <2>7
<1>4. CASE Blocked /\ ByBlock
  <2> DEFINE R == (p.jb .. p.jb + 7) \X (p.ib .. p.ib + 7)
  <2>1. M = 64 /\ N = 64 /\ p.jb < 64 /\ p.ib < 64 /\ p.ib % 8 = 0 /\ p.jb % 8 = 0
    BY <1>4 DEF Position, ByBlock, Is
  <2>2. p.jb + 7 < 64 /\ p.ib + 7 < 64  BY <1>1, <2>1
  <2>3. Region(p) = R /\ Accesses(p) = IF p.ib = p.jb THEN transpose_diago_8_8(p.ib, p.jb)
                                                     ELSE transpose_z_8_8(p.ib, p.jb)
    BY <1>4 DEF Region, Accesses
  <2>4. Moves(Accesses(p), R)  BY <1>1, <2>3, ZBlockMoves, DiagonalBlockMoves
  <2>5. R \subseteq Cells /\ <<p.jb, p.ib>> \in R  BY <1>1, <2>1, <2>2 DEF Cells
  <2>6. \A r, c : Visited(p, r, c) <=> c < p.ib \/ (c < p.ib + 8 /\ r < p.jb)  BY <1>4 DEF Visited
  <2>7. R \cap Earlier(p) = {}
    <3>1. SUFFICES ASSUME NEW x \in Earlier(p), x \in R PROVE FALSE
      OBVIOUS
    <3>2. Visited(p, x[1], x[2]) /\ x[1] \in p.jb .. p.jb + 7 /\ x[2] \in p.ib .. p.ib + 7  BY <3>1 DEF Earlier
    <3>3. x[2] < p.ib \/ (x[2] < p.ib + 8 /\ x[1] < p.jb)  BY <2>6, <3>2
    <3> QED  BY <1>1, <3>2, <3>3
  <2> QED  BY <2>3, <2>4, <2>5, <2>7
<1> QED  BY <1>2, <1>3, <1>4

\* The loops leave out no row and no block.
LEMMA NextRowFollows ==
    ASSUME Sized, NEW p, Position(p), p.i < N
    PROVE  Position(NextRow(p)) /\ Earlier(NextRow(p)) = Earlier(p) \cup Region(p)
<1> DEFINE q == NextRow(p)
<1>1. p.ib \in Nat /\ p.jb \in Nat /\ p.i \in Nat /\ M \in Nat /\ N \in Nat /\ M > 0
  BY DEF Position, Sized
<1>2. p = [ib |-> p.ib, jb |-> p.jb, i |-> p.i]  BY DEF Position
<1>3. [p EXCEPT !.i = @ + 1] = [ib |-> p.ib, jb |-> p.jb, i |-> p.i + 1]  BY <1>2
<1>4. CASE ~Blocked
  <2>1. q.ib = p.ib /\ q.jb = p.jb /\ q.i = p.i + 1 /\ q = [ib |-> q.ib, jb |-> q.jb, i |-> q.i]
    BY <1>3, <1>4 DEF NextRow
  <2>2. p.ib = 0 /\ p.jb = 0 /\ ~ByBlock  BY <1>4 DEF Position, ByBlock, Blocked
  <2> HIDE DEF q
  <2>3. Position(q)  BY <1>1, <1>4, <2>1, <2>2 DEF Position
  <2>4. \A r, c : (Visited(q, r, c) <=> c < p.i + 1) /\ (Visited(p, r, c) <=> c < p.i)  BY <1>4, <2>1 DEF Visited
  <2>5. Region(p) = (0 .. M - 1) \X {p.i}  BY <1>4 DEF Region
  <2>6. ASSUME NEW x \in Cells PROVE x \in Earlier(q) <=> x \in Earlier(p) \/ x \in Region(p)
    <3>1. x[1] \in 0 .. M - 1 /\ x[2] \in 0 .. N - 1 /\ x = <<x[1], x[2]>>  BY DEF Cells
    <3>2. x \in Region(p) <=> x[2] = p.i  BY <2>5, <3>1
    <3> QED  BY <1>1, <2>4, <3>1, <3>2 DEF Earlier
  <2> QED  BY <2>3, <2>6, RowMoves DEF Earlier, q
<1>5. CASE Blocked /\ ~ByBlock
  <2> DEFINE e == Min({p.jb + Step, M})
             f == Min({p.ib + Step, N})
  <2>1. p.jb < M /\ p.ib <= p.i /\ p.i < p.ib + Step  BY <1>5 DEF Position
  <2>2. /\ e \in Nat /\ p.jb < e /\ e <= M /\ e <= p.jb + Step /\ Step \in Nat /\ Step > 0
        /\ \A r \in Nat : r < M => (r < p.jb + Step <=> r < e)
    BY <1>1, <2>1, RowEnd
  <2>3. f = IF p.ib + Step <= N THEN p.ib + Step ELSE N
    <3>1. p.ib + Step \in Nat  BY <1>1, <2>2
    <3> QED  BY <1>1, <3>1, MinOfTwo
  <2>4. Region(p) = (p.jb .. e - 1) \X {p.i}  BY <1>5 DEF Region
  <2>5. q = IF p.i + 1 < f THEN [ib |-> p.ib, jb |-> p.jb, i |-> p.i + 1]
            ELSE IF p.jb + Step < M THEN [ib |-> p.ib, jb |-> p.jb + Step, i |-> p.ib]
            ELSE [ib |-> p.ib + Step, jb |-> 0, i |-> p.ib + Step]
    BY <1>3, <1>5 DEF NextRow, BlockAt
  <2> HIDE DEF q, e, f
  <2>6. /\ q = [ib |-> q.ib, jb |-> q.jb, i |-> q.i]
        /\ \/ p.i + 1 < f /\ q.ib = p.ib /\ q.jb = p.jb /\ q.i = p.i + 1
           \/ p.i + 1 >= f /\ p.jb + Step < M /\ q.ib = p.ib /\ q.jb = p.jb + Step /\ q.i = p.ib
           \/ p.i + 1 >= f /\ p.jb + Step >= M /\ q.ib = p.ib + Step /\ q.jb = 0 /\ q.i = p.ib + Step
    <3>1. f \in Nat  BY <1>1, <2>2, <2>3
    <3> QED  BY <1>1, <2>2, <2>5, <3>1
  <2>7. Position(q)
    <3>1. q.ib \in Nat /\ q.jb \in Nat /\ q.i \in Nat /\ q.jb < M /\ q.ib <= q.i  BY <1>1, <2>1, <2>2, <2>6
    <3>2. (q.i < N => q.i < q.ib + Step) /\ (q.i >= N => q.i = q.ib)  BY <1>1, <2>1, <2>2, <2>3, <2>6
    <3> QED  BY <1>5, <2>6, <3>1, <3>2 DEF Position
  <2>8. \A r, c : /\ Visited(q, r, c) <=> c < q.ib \/ (c < q.ib + Step /\ r < q.jb) \/ (c < q.i /\ r < q.jb + Step)
                  /\ Visited(p, r, c) <=> c < p.ib \/ (c < p.ib + Step /\ r < p.jb) \/ (c < p.i /\ r < p.jb + Step)
    BY <1>5 DEF Visited
  <2>9. ASSUME NEW x \in Cells PROVE x \in Earlier(q) <=> x \in Earlier(p) \/ x \in Region(p)
    <3>1. x[1] \in 0 .. M - 1 /\ x[2] \in 0 .. N - 1 /\ x = <<x[1], x[2]>>  BY DEF Cells
    <3> DEFINE r == x[1]
               c == x[2]
    <3>2. x \in Region(p) <=> c = p.i /\ p.jb <= r /\ r < e  BY <1>1, <2>2, <2>4, <3>1
    <3>3. r < p.jb + Step <=> r < e  BY <1>1, <2>2, <3>1
    <3>4. r \in Nat /\ c \in Nat /\ r < M /\ c < N  BY <1>1, <3>1
    <3>5. (x \in Earlier(q) <=> Visited(q, r, c)) /\ (x \in Earlier(p) <=> Visited(p, r, c))  BY DEF Earlier
    <3> HIDE DEF r, c
    <3>6. Visited(q, r, c) <=> Visited(p, r, c) \/ (c = p.i /\ p.jb <= r /\ r < p.jb + Step)
      <4>1. CASE p.i + 1 < f /\ q.ib = p.ib /\ q.jb = p.jb /\ q.i = p.i + 1
        BY <1>1, <2>1, <2>2, <2>8, <3>4, <4>1
      <4>2. CASE p.i + 1 >= f /\ p.jb + Step < M /\ q.ib = p.ib /\ q.jb = p.jb + Step /\ q.i = p.ib
        BY <1>1, <2>1, <2>2, <2>3, <2>8, <3>4, <4>2
      <4>3. CASE p.i + 1 >= f /\ p.jb + Step >= M /\ q.ib = p.ib + Step /\ q.jb = 0 /\ q.i = p.ib + Step
        BY <1>1, <2>1, <2>2, <2>3, <2>8, <3>4, <4>3
      <4> QED  BY <2>6, <4>1, <4>2, <4>3
    <3> QED  BY <3>2, <3>3, <3>5, <3>6
  <2> QED  BY <2>7, <2>9, RowMoves DEF Earlier, q
<1>6. CASE Blocked /\ ByBlock
  <2>1. M = 64 /\ N = 64 /\ p.jb < 64 /\ p.ib < 64 /\ p.ib % 8 = 0 /\ p.jb % 8 = 0 /\ Step = 8
    BY <1>6 DEF Position, ByBlock, Is, Step, STEP
  <2>2. p.jb + 8 <= 64 /\ p.ib + 8 <= 64 /\ (p.ib + 8) % 8 = 0 /\ (p.jb + 8) % 8 = 0  BY <1>1, <2>1
  <2>3. /\ q = [ib |-> q.ib, jb |-> q.jb, i |-> q.i] /\ q.i = q.ib
        /\ \/ p.jb + 8 < 64 /\ q.ib = p.ib /\ q.jb = p.jb + 8
           \/ p.jb + 8 >= 64 /\ q.ib = p.ib + 8 /\ q.jb = 0
    <3>1. q = IF p.jb + 8 < 64 THEN [ib |-> p.ib, jb |-> p.jb + 8, i |-> p.ib]
              ELSE [ib |-> p.ib + 8, jb |-> 0, i |-> p.ib + 8]
      BY <1>6, <2>1 DEF NextRow, BlockAt
    <3> HIDE DEF q
    <3> QED  BY <1>1, <3>1
  <2>4. Region(p) = (p.jb .. p.jb + 7) \X (p.ib .. p.ib + 7)  BY <1>6 DEF Region
  <2> HIDE DEF q
  <2>5. Position(q)
    <3>1. /\ q.ib \in Nat /\ q.jb \in Nat /\ q.i \in Nat /\ q.jb < M /\ q.ib <= q.i
          /\ q.ib % 8 = 0 /\ q.jb % 8 = 0
      BY <1>1, <2>1, <2>2, <2>3
    <3>2. (q.i < N => q.i < q.ib + Step) /\ (q.i >= N => q.i = q.ib)  BY <1>1, <2>1, <2>3, <3>1
    <3> QED  BY <1>6, <2>3, <3>1, <3>2 DEF Position
  <2>6. \A r, c : /\ Visited(q, r, c) <=> c < q.ib \/ (c < q.ib + 8 /\ r < q.jb)
                  /\ Visited(p, r, c) <=> c < p.ib \/ (c < p.ib + 8 /\ r < p.jb)
    BY <1>6 DEF Visited
  <2>7. ASSUME NEW x \in Cells PROVE x \in Earlier(q) <=> x \in Earlier(p) \/ x \in Region(p)
    <3>1. x[1] \in 0 .. M - 1 /\ x[2] \in 0 .. N - 1 /\ x = <<x[1], x[2]>>  BY DEF Cells
    <3> DEFINE r == x[1]
               c == x[2]
    <3>2. x \in Region(p) <=> r \in p.jb .. p.jb + 7 /\ c \in p.ib .. p.ib + 7  BY <2>4, <3>1
    <3>3. r \in Nat /\ c \in Nat /\ r < 64 /\ c < 64  BY <2>1, <3>1
    <3>4. (x \in Earlier(q) <=> Visited(q, r, c)) /\ (x \in Earlier(p) <=> Visited(p, r, c))  BY DEF Earlier
    <3> HIDE DEF r, c
    <3>5. Visited(q, r, c) <=> Visited(p, r, c) \/ (r \in p.jb .. p.jb + 7 /\ c \in p.ib .. p.ib + 7)
      BY <1>1, <2>1, <2>2, <2>3, <2>6, <3>3
    <3> QED  BY <3>2, <3>4, <3>5
  <2> QED  BY <2>5, <2>7, RowMoves DEF Earlier, q
<1> QED  BY <1>4, <1>5, <1>6

\* At the end every cell is an earlier one.
LEMMA AllEarlier ==
    ASSUME Sized, NEW p, Position(p), p.i >= N
    PROVE  Earlier(p) = Cells
<1>1. SUFFICES ASSUME NEW x \in Cells PROVE Visited(p, x[1], x[2])
  BY DEF Earlier
<1>2. x[2] \in 0 .. N - 1 /\ N \in Nat /\ p.i \in Nat  BY DEF Cells, Sized, Position
<1>3. x[2] < p.i  BY <1>2
<1> QED  BY <1>3 DEF Visited, Position

---------------------------------------------------------------------------
(* One access *)

\* The cells the first k accesses of s have written.
Stored(s, k) == {x \in Cells : \E n \in 1 .. k : s[n].op = "S" /\ Cell(s[n]) = x}

\* The cells W hold what belongs in them, the others nothing.
Filled(b, W) == \A r \in 0 .. M - 1, c \in 0 .. N - 1 :
                  b[r][c] = IF <<r, c>> \in W THEN A(c, r) ELSE Junk

\* A register holds what was last read into it.
Holds(g, s, k) == \A m \in 1 .. k :
    s[m].op = "L" /\ (\A q \in m + 1 .. k : s[q].op = "L" => s[q].reg # s[m].reg)
      => g[s[m].reg] = A(s[m].row, s[m].col)

Matrices == [0 .. M - 1 -> [0 .. N - 1 -> Int]]

\* What AccessOne does to the registers and to B.
Performed(a, g, h, b, d) ==
    IF a.op = "L" THEN h = [g EXCEPT ![a.reg] = A(a.row, a.col)] /\ d = b
    ELSE d = [b EXCEPT ![a.row][a.col] = g[a.reg]] /\ h = g

\* The access after the first k is within its matrix; a store writes a cell
\* that was empty, and the right element.
IsRight(s, k, b, g) ==
    LET a == s[k + 1]
    IN  /\ a \in AccessRecords
        /\ a.op = "L" => a.row \in 0 .. N - 1 /\ a.col \in 0 .. M - 1
        /\ a.op = "S" => /\ a.row \in 0 .. M - 1 /\ a.col \in 0 .. N - 1
                         /\ b[a.row][a.col] = Junk /\ g[a.reg] = A(a.col, a.row)

\* So it is in every row and block, whatever is done of it.
LEMMA AccessIsRight ==
    ASSUME Sized, NEW s, NEW R, Moves(s, R), R \subseteq Cells, NEW W, R \cap W = {},
           NEW k \in Nat, k < Len(s), NEW b, NEW g, Filled(b, W \cup Stored(s, k)), Holds(g, s, k)
    PROVE  IsRight(s, k, b, g)
<1> DEFINE n == k + 1
           a == s[n]
<1>1. s \in Seq(AccessRecords) /\ Len(s) \in Nat  BY DEF Moves
<1>2. n \in 1 .. Len(s) /\ n - 1 = k  BY <1>1
<1>3. a \in AccessRecords  BY <1>1, <1>2
<1>4. Cell(a) \in R /\ Cell(a) \in Cells  BY <1>2 DEF Moves
<1> HIDE DEF n
<1>5. CASE a.op = "L"
  <2>1. <<a.col, a.row>> \in Cells  BY <1>4, <1>5 DEF Cell
  <2> HIDE DEF a
  <2>2. a.row \in 0 .. N - 1 /\ a.col \in 0 .. M - 1 /\ a.op # "S"  BY <1>5, <2>1 DEF Cells
  <2> QED  BY <1>3, <2>2 DEF a, n, IsRight
<1>6. CASE a.op = "S"
  <2>1. Cell(a) = <<a.row, a.col>>  BY <1>6 DEF Cell
  <2>2. a.row \in 0 .. M - 1 /\ a.col \in 0 .. N - 1
    <3> HIDE DEF a
    <3> QED  BY <1>4, <2>1 DEF Cells
  <2>3. <<a.row, a.col>> \notin W \cup Stored(s, k)
    <3>1. <<a.row, a.col>> \notin W  BY <1>4, <2>1
    <3>2. ASSUME NEW m \in 1 .. k, s[m].op = "S", Cell(s[m]) = Cell(a) PROVE FALSE
      <4>1. m \in 1 .. Len(s) /\ m # n  BY <1>1, <1>2, <3>2
      <4> QED  BY <1>2, <1>6, <3>2, <4>1 DEF Moves
    <3> QED  BY <2>1, <3>1, <3>2 DEF Stored
  <2>4. b[a.row][a.col] = Junk  BY <2>2, <2>3 DEF Filled
  <2>5. PICK m \in 1 .. n - 1 : LoadedAt(s, m, n)  BY <1>2, <1>6 DEF Moves
  <2>6. m \in 1 .. k /\ \A q \in m + 1 .. k : q \in m + 1 .. n - 1  BY <1>2, <2>5
  <2>7. g[s[m].reg] = A(s[m].row, s[m].col)  BY <2>5, <2>6 DEF LoadedAt, Holds
  <2>8. s[m].reg = a.reg /\ Cell(s[m]) = Cell(a) /\ s[m].op = "L"  BY <2>5 DEF LoadedAt
  <2>9. Cell(s[m]) = <<s[m].col, s[m].row>>  BY <2>8 DEF Cell
  <2>10. s[m].col = a.row /\ s[m].row = a.col
    <3> HIDE DEF a
    <3> QED  BY <2>1, <2>8, <2>9
  <2>11. a.op # "L"  BY <1>6
  <2>12. g[a.reg] = A(a.col, a.row)
    <3> HIDE DEF a
    <3> QED  BY <2>7, <2>8, <2>10
  <2> QED  BY <1>3, <2>2, <2>4, <2>11, <2>12 DEF n, IsRight
<1> QED  BY <1>3, <1>5, <1>6 DEF AccessRecords

\* With the access done, one more of the row is.
LEMMA AccessDone ==
    ASSUME Sized, NEW s, NEW R, Moves(s, R), R \subseteq Cells, NEW W, R \cap W = {},
           NEW k \in Nat, k < Len(s), NEW b \in Matrices, NEW g \in [Registers -> Int],
           Filled(b, W \cup Stored(s, k)), Holds(g, s, k),
           NEW d, NEW h, Performed(s[k + 1], g, h, b, d)
    PROVE  /\ d \in Matrices /\ h \in [Registers -> Int]
           /\ Filled(d, W \cup Stored(s, k + 1)) /\ Holds(h, s, k + 1)
<1> DEFINE n == k + 1
           a == s[n]
<1>1. /\ a \in AccessRecords
      /\ a.op = "L" => a.row \in 0 .. N - 1 /\ a.col \in 0 .. M - 1
      /\ a.op = "S" => a.row \in 0 .. M - 1 /\ a.col \in 0 .. N - 1 /\ g[a.reg] = A(a.col, a.row)
  <2>1. IsRight(s, k, b, g)  BY AccessIsRight
  <2> QED  BY <2>1 DEF IsRight
<1>2. a.reg \in Registers /\ a.row \in Nat /\ a.col \in Nat /\ (a.op = "L" \/ a.op = "S")
  BY <1>1 DEF AccessRecords
<1>3. A(a.row, a.col) \in Int /\ A(a.col, a.row) \in Int
  <2> HIDE DEF a
  <2>1. M \in Nat  BY DEF Sized
  <2>2. a.row * M \in Int /\ a.col * M \in Int  BY <1>2, <2>1
  <2> QED  BY <1>2, <2>2 DEF A
<1>4. \A m : m \in 1 .. n <=> m \in 1 .. k \/ m = n  OBVIOUS
<1>5. Performed(a, g, h, b, d)  OBVIOUS
<1> HIDE DEF a, n
<1>6. CASE a.op = "L"
  <2>1. h = [g EXCEPT ![a.reg] = A(a.row, a.col)] /\ d = b  BY <1>5, <1>6 DEF Performed
  <2>2. h \in [Registers -> Int]  BY <1>2, <1>3, <2>1
  <2>3. \A r \in Registers : h[r] = IF r = a.reg THEN A(a.row, a.col) ELSE g[r]  BY <1>2, <2>1
  <2>4. s[n].op # "S"  BY <1>6 DEF a
  <2>5. Stored(s, n) = Stored(s, k)  BY <1>4, <2>4 DEF Stored
  <2>6. ASSUME NEW m \in 1 .. n, s[m].op = "L", \A q \in m + 1 .. n : s[q].op = "L" => s[q].reg # s[m].reg
        PROVE  h[s[m].reg] = A(s[m].row, s[m].col)
    <3>1. CASE m = n
      <4>1. s[m] = a  BY <3>1 DEF a
      <4> QED  BY <1>2, <2>3, <4>1
    <3>2. CASE m # n
      <4>1. m \in 1 .. k /\ n \in m + 1 .. n /\ \A q \in m + 1 .. k : q \in m + 1 .. n
        BY <3>2 DEF n
      <4>2. g[s[m].reg] = A(s[m].row, s[m].col)  BY <2>6, <4>1 DEF Holds
      <4>3. s[m].reg # a.reg  BY <1>6, <2>6, <4>1 DEF a
      <4>4. s[m].reg \in Registers
        <5>1. m \in 1 .. Len(s) /\ s \in Seq(AccessRecords)
          <6>1. s \in Seq(AccessRecords) /\ Len(s) \in Nat  BY DEF Moves
          <6> QED  BY <4>1, <6>1
        <5>2. s[m] \in AccessRecords  BY <5>1
        <5> QED  BY <5>2 DEF AccessRecords
      <4> QED  BY <2>3, <4>2, <4>3, <4>4
    <3> QED  BY <3>1, <3>2
  <2>7. Holds(h, s, n)  BY <2>6 DEF Holds
  <2>8. Filled(d, W \cup Stored(s, n))  BY <2>1, <2>5
  <2> QED  BY <2>1, <2>2, <2>7, <2>8 DEF n
<1>7. CASE a.op = "S"
  <2>1. d = [b EXCEPT ![a.row][a.col] = g[a.reg]] /\ h = g  BY <1>5, <1>7 DEF Performed
  <2>2. a.row \in 0 .. M - 1 /\ a.col \in 0 .. N - 1 /\ g[a.reg] = A(a.col, a.row)  BY <1>1, <1>7
  <2>3. d \in Matrices
    <3>1. b[a.row] \in [0 .. N - 1 -> Int]  BY <2>2 DEF Matrices
    <3>2. [b[a.row] EXCEPT ![a.col] = g[a.reg]] \in [0 .. N - 1 -> Int]  BY <1>3, <2>2, <3>1
    <3>3. d = [b EXCEPT ![a.row] = [b[a.row] EXCEPT ![a.col] = g[a.reg]]]  BY <2>1
    <3> QED  BY <2>2, <3>2, <3>3 DEF Matrices
  <2>4. \A r \in 0 .. M - 1, c \in 0 .. N - 1 :
          d[r][c] = IF r = a.row /\ c = a.col THEN A(a.col, a.row) ELSE b[r][c]
    <3>1. DOMAIN b = 0 .. M - 1 /\ \A r \in 0 .. M - 1 : DOMAIN b[r] = 0 .. N - 1  BY DEF Matrices
    <3> QED  BY <2>1, <2>2, <3>1
  <2>5. Cell(s[n]) = <<a.row, a.col>> /\ s[n].op = "S"  BY <1>7 DEF Cell, a
  <2>6. \A x \in Cells : x \in Stored(s, n) <=> x \in Stored(s, k) \/ x = <<a.row, a.col>>
    BY <1>4, <2>5 DEF Stored
  <2>7. ASSUME NEW r \in 0 .. M - 1, NEW c \in 0 .. N - 1
        PROVE  d[r][c] = IF <<r, c>> \in W \cup Stored(s, n) THEN A(c, r) ELSE Junk
    <3>1. b[r][c] = IF <<r, c>> \in W \cup Stored(s, k) THEN A(c, r) ELSE Junk  BY DEF Filled
    <3>2. <<r, c>> \in Cells  BY DEF Cells
    <3>3. <<r, c>> = <<a.row, a.col>> <=> r = a.row /\ c = a.col  OBVIOUS
    <3>4. CASE r = a.row /\ c = a.col  BY <2>4, <2>6, <3>2, <3>3, <3>4
    <3>5. CASE ~(r = a.row /\ c = a.col)  BY <2>4, <2>6, <3>1, <3>2, <3>3, <3>5
    <3> QED  BY <3>4, <3>5
  <2>8. Filled(d, W \cup Stored(s, n))  BY <2>7 DEF Filled
  <2>9. Holds(h, s, n)
    <3>1. SUFFICES ASSUME NEW m \in 1 .. n, s[m].op = "L",
                          \A q \in m + 1 .. n : s[q].op = "L" => s[q].reg # s[m].reg
                   PROVE  g[s[m].reg] = A(s[m].row, s[m].col)
      BY <2>1 DEF Holds
    <3>2. m # n  BY <2>5, <3>1
    <3>3. m \in 1 .. k /\ \A q \in m + 1 .. k : q \in m + 1 .. n  BY <3>2 DEF n
    <3> QED  BY <3>1, <3>3 DEF Holds
  <2> QED  BY <2>1, <2>3, <2>8, <2>9 DEF n
<1> QED  BY <1>2, <1>6, <1>7

---------------------------------------------------------------------------
(* The whole transpose *)

\* At p the first k accesses of the row are done.
Halfway(p, k, t, b, g) ==
    /\ k \in Nat /\ k < Len(Accesses(p))
    /\ t = [n \in 1 .. Len(Accesses(p)) - k |-> Accesses(p)[n + k]]
    /\ Filled(b, Earlier(p) \cup Stored(Accesses(p), k))
    /\ Holds(g, Accesses(p), k)

Under(p, t, b, g) ==
    /\ Position(p)
    /\ b \in Matrices /\ g \in [Registers -> Int]
    /\ p.i < N => \E k : Halfway(p, k, t, b, g)
    /\ p.i >= N => t = <<>> /\ Filled(b, Cells)

TransInv == Sized /\ Under(at, todo, B, reg)

\* When a row is about to begin, those before it are in B.
LEMMA RowBegins ==
    ASSUME Sized, NEW p, Position(p), NEW b \in Matrices, NEW g \in [Registers -> Int],
           Filled(b, Earlier(p))
    PROVE  Under(p, Left(p), b, g)
<1>1. p.i \in Nat /\ N \in Nat  BY DEF Position, Sized
<1>2. CASE p.i < N
  <2> DEFINE s == Accesses(p)
  <2>1. Moves(s, Region(p)) /\ Region(p) # {}  BY <1>2, RowMoves
  <2>2. s \in Seq(AccessRecords) /\ Len(s) \in Nat /\ Len(s) > 0
    <3>1. PICK c : c \in Region(p)  BY <2>1
    <3> HIDE DEF s
    <3>2. PICK n \in 1 .. Len(s) : Cell(s[n]) = c  BY <2>1, <3>1 DEF Moves
    <3>3. s \in Seq(AccessRecords) /\ Len(s) \in Nat  BY <2>1 DEF Moves
    <3> QED  BY <3>2, <3>3
  <2> HIDE DEF s
  <2>3. s = [n \in 1 .. Len(s) - 0 |-> s[n + 0]]
    <3>1. s = [n \in 1 .. Len(s) |-> s[n]] /\ Len(s) - 0 = Len(s)  BY <2>2
    <3> QED  BY <3>1
  <2>4. Stored(s, 0) = {} /\ Holds(g, s, 0)  BY DEF Stored, Holds
  <2>5. Filled(b, Earlier(p) \cup Stored(s, 0))  BY <2>4
  <2>6. Halfway(p, 0, s, b, g)  BY <2>2, <2>3, <2>4, <2>5 DEF Halfway, s
  <2>7. Left(p) = s  BY <1>2 DEF Left, s
  <2> QED  BY <1>1, <1>2, <2>6, <2>7 DEF Under
<1>3. CASE p.i >= N
  <2>1. Earlier(p) = Cells /\ Left(p) = <<>>  BY <1>1, <1>3, AllEarlier DEF Left
  <2> QED  BY <1>1, <1>3, <2>1 DEF Under
<1> QED  BY <1>1, <1>2, <1>3

\* B is all empty, or there is nothing to transpose (a trace).
LEMMA TransposeBegins == Init => TransInv
<1>1. SUFFICES ASSUME Init PROVE TransInv
  OBVIOUS
<1>2. Sized
  <2>1. CASE M = 0 /\ N = 0  BY <2>1 DEF Sized
  <2>2. CASE \E shape \in Shapes : M = shape[1] /\ N = shape[2]  BY <2>2, ShapesAssumption DEF Sized
  <2> QED  BY <1>1, <2>1, <2>2 DEF Init
<1>3. /\ B = [j \in 0 .. M - 1 |-> [i \in 0 .. N - 1 |-> Junk]]
      /\ reg = [r \in Registers |-> 0]
      /\ at = BlockAt(0, 0) /\ todo = Left(at)
  BY <1>1 DEF Init, Begin, Registers
<1>4. at = [ib |-> 0, jb |-> 0, i |-> 0]  BY <1>3 DEF BlockAt
<1>5. Blocked => M > 0 /\ Step > 0 /\ Step \in Nat  BY DEF Blocked, Is, Step, STEP, TWO_STEP
<1>6. at.ib = 0 /\ at.jb = 0 /\ at.i = 0 /\ at = [ib |-> at.ib, jb |-> at.jb, i |-> at.i]  BY <1>4
<1>7. Position(at)
  <2>1. M \in Nat /\ N \in Nat  BY <1>2 DEF Sized
  <2>2. 0 % 8 = 0  OBVIOUS
  <2> QED  BY <1>5, <1>6, <2>1, <2>2 DEF Position
<1>8. Earlier(at) = {}
  <2>1. SUFFICES ASSUME NEW x \in Cells, Visited(at, x[1], x[2]) PROVE FALSE
    BY DEF Earlier
  <2>2. x[1] \in Nat /\ x[2] \in Nat  BY <1>2 DEF Sized, Cells
  <2> QED  BY <1>6, <2>1, <2>2 DEF Visited
<1>9. B \in Matrices /\ reg \in [Registers -> Int]  BY <1>3 DEF Matrices, Junk
<1>10. Filled(B, Earlier(at))  BY <1>3, <1>8 DEF Filled
<1> QED  BY <1>2, <1>3, <1>7, <1>9, <1>10, RowBegins DEF TransInv

\* What is left begins with the access after those done.
LEMMA HeadIsNext ==
    ASSUME TransInv, todo # <<>>
    PROVE  \E k : /\ Halfway(at, k, todo, B, reg) /\ at.i < N /\ Position(at)
                 /\ Head(todo) = Accesses(at)[k + 1] /\ Len(todo) = Len(Accesses(at)) - k
                 /\ Moves(Accesses(at), Region(at)) /\ Region(at) \subseteq Cells
                 /\ Region(at) \cap Earlier(at) = {}
<1>1. Sized /\ Under(at, todo, B, reg)  BY DEF TransInv
<1>2. at.i \in Nat /\ N \in Nat /\ Position(at)  BY <1>1 DEF Under, Position, Sized
<1>3. at.i < N  BY <1>1, <1>2 DEF Under
<1>4. PICK k : Halfway(at, k, todo, B, reg)  BY <1>1, <1>3 DEF Under
<1> DEFINE s == Accesses(at)
<1>5. Moves(s, Region(at)) /\ Region(at) \subseteq Cells /\ Region(at) \cap Earlier(at) = {}
  BY <1>1, <1>2, <1>3, RowMoves
<1>6. Len(s) \in Nat  BY <1>5 DEF Moves
<1>7. k \in Nat /\ k < Len(s) /\ todo = [n \in 1 .. Len(s) - k |-> s[n + k]]  BY <1>4 DEF Halfway
<1> HIDE DEF s
<1>8. Len(todo) = Len(s) - k /\ todo[1] = s[1 + k]  BY <1>6, <1>7
<1>9. Head(todo) = todo[1] /\ 1 + k = k + 1  BY <1>7
<1> QED  BY <1>2, <1>3, <1>4, <1>5, <1>8, <1>9 DEF s

\* An access goes on in its row, or ends it and begins the next.
LEMMA AccessKeepsOrder ==
    ASSUME TransInv, AccessOne
    PROVE  Under(at', todo', B', reg')
<1>1. todo # <<>> /\ Sized  BY DEF AccessOne, TransInv
<1>2. PICK k : /\ Halfway(at, k, todo, B, reg) /\ at.i < N /\ Position(at)
               /\ Head(todo) = Accesses(at)[k + 1] /\ Len(todo) = Len(Accesses(at)) - k
               /\ Moves(Accesses(at), Region(at)) /\ Region(at) \subseteq Cells
               /\ Region(at) \cap Earlier(at) = {}
  BY <1>1, HeadIsNext
<1> DEFINE s == Accesses(at)
           a == Head(todo)
           next == NextRow(at)
<1>3. /\ IF a.op = "L" THEN reg' = [reg EXCEPT ![a.reg] = A(a.row, a.col)] /\ B' = B
                       ELSE B' = [B EXCEPT ![a.row][a.col] = reg[a.reg]] /\ reg' = reg
      /\ IF Len(todo) > 1 THEN todo' = Tail(todo) /\ at' = at
                          ELSE at' = next /\ todo' = Left(next)
  BY DEF AccessOne, Proceed
<1>4. Performed(s[k + 1], reg, reg', B, B')  BY <1>2, <1>3 DEF Performed
<1>5. B \in Matrices /\ reg \in [Registers -> Int]  BY DEF TransInv, Under
<1>6. /\ k \in Nat /\ k < Len(s) /\ todo = [n \in 1 .. Len(s) - k |-> s[n + k]]
      /\ Filled(B, Earlier(at) \cup Stored(s, k)) /\ Holds(reg, s, k)
  BY <1>2 DEF Halfway
<1>7. Moves(s, Region(at)) /\ Region(at) \subseteq Cells /\ Region(at) \cap Earlier(at) = {}  BY <1>2
<1>8. s \in Seq(AccessRecords) /\ Len(s) \in Nat  BY <1>2 DEF Moves
<1> HIDE DEF s
<1>9. /\ B' \in Matrices /\ reg' \in [Registers -> Int]
      /\ Filled(B', Earlier(at) \cup Stored(s, k + 1)) /\ Holds(reg', s, k + 1)
  BY <1>1, <1>4, <1>5, <1>6, <1>7, AccessDone
<1>10. CASE Len(todo) > 1
  <2>1. todo' = Tail(todo) /\ at' = at  BY <1>3, <1>10
  <2>2. k + 1 \in Nat /\ k + 1 < Len(s)  BY <1>2, <1>6, <1>8, <1>10 DEF s
  <2>3. Tail(todo) = [n \in 1 .. Len(s) - (k + 1) |-> s[n + (k + 1)]]
    <3>1. Len(todo) = Len(s) - k /\ todo \in Seq(AccessRecords)
      <4>1. \A n \in 1 .. Len(s) - k : s[n + k] \in AccessRecords  BY <1>6, <1>8
      <4> QED  BY <1>6, <1>8, <4>1
    <3>2. Tail(todo) = [n \in 1 .. Len(todo) - 1 |-> todo[n + 1]]
      <4>1. /\ Tail(todo) \in Seq(AccessRecords) /\ Len(Tail(todo)) = Len(todo) - 1
            /\ \A n \in 1 .. Len(Tail(todo)) : Tail(todo)[n] = todo[n + 1]
        BY <1>1, <3>1, HeadTailProperties
      <4> DEFINE t == Tail(todo)
      <4>2. t \in Seq(AccessRecords) /\ Len(t) = Len(todo) - 1 /\ \A n \in 1 .. Len(t) : t[n] = todo[n + 1]
        BY <4>1
      <4> HIDE DEF t
      <4>3. t = [n \in 1 .. Len(t) |-> t[n]]  BY <4>2
      <4>4. t = [n \in 1 .. Len(todo) - 1 |-> todo[n + 1]]  BY <4>2, <4>3
      <4> QED  BY <4>4 DEF t
    <3>3. \A n \in 1 .. Len(todo) - 1 : todo[n + 1] = s[n + (k + 1)]
      <4>1. \A n \in 1 .. Len(todo) - 1 : n + 1 \in 1 .. Len(s) - k /\ (n + 1) + k = n + (k + 1)
        BY <1>6, <1>8, <3>1
      <4> QED  BY <1>6, <4>1
    <3>4. Len(todo) - 1 = Len(s) - (k + 1)  BY <1>6, <1>8, <3>1
    <3> QED  BY <3>2, <3>3, <3>4
  <2>4. Halfway(at, k + 1, Tail(todo), B', reg')  BY <1>9, <2>2, <2>3 DEF Halfway, s
  <2>5. at.i \in Nat /\ N \in Nat  BY <1>1, <1>2 DEF Position, Sized
  <2> QED  BY <1>2, <1>9, <2>1, <2>4, <2>5 DEF Under
<1>11. CASE ~(Len(todo) > 1)
  <2>1. at' = next /\ todo' = Left(next)  BY <1>3, <1>11
  <2>2. k + 1 = Len(s)  BY <1>2, <1>6, <1>8, <1>11 DEF s
  <2>3. Stored(s, k + 1) = Region(at)
    <3>1. \A n \in 1 .. Len(s) : Cell(s[n]) \in Region(at)  BY <1>7 DEF Moves
    <3>2. \A c \in Region(at) : \E n \in 1 .. Len(s) : s[n].op = "S" /\ Cell(s[n]) = c  BY <1>7 DEF Moves
    <3> QED  BY <1>7, <2>2, <3>1, <3>2 DEF Stored
  <2>4. Position(next) /\ Earlier(next) = Earlier(at) \cup Region(at)  BY <1>1, <1>2, NextRowFollows
  <2> HIDE DEF next
  <2>5. Filled(B', Earlier(next))  BY <1>9, <2>3, <2>4
  <2>6. Under(next, Left(next), B', reg')  BY <1>1, <1>9, <2>4, <2>5, RowBegins
  <2> QED  BY <2>1, <2>6
<1> QED  BY <1>10, <1>11

\* M and N never change, and what the definitions say is as before.
LEMMA ShapeStays ==
    ASSUME Sized, M' = M, N' = N, Under(at', todo', B', reg')
    PROVE  TransInv'
<1>1. Sized'  BY DEF Sized
<1>2. Position(at)'  BY DEF Under, Position, Blocked, ByBlock, Is, Step
<1>3. (B \in Matrices)' /\ (reg \in [Registers -> Int])'  BY DEF Under, Matrices, Registers
<1>4. \A b : Filled(b, Cells)' <=> Filled(b, Cells)  BY DEF Filled, Cells, A
<1>5. ASSUME at'.i < N, NEW k, Halfway(at', k, todo', B', reg') PROVE Halfway(at, k, todo, B, reg)'
  <2> DEFINE s == Accesses(at')
  <2>1. Accesses(at)' = s  BY DEF Accesses, BlockRow, Blocked, ByBlock, Is, Step
  <2>2. Earlier(at)' = Earlier(at')  BY DEF Earlier, Cells, Visited, Blocked, ByBlock, Is, Step
  <2>3. Stored(Accesses(at), k)' = Stored(s, k)
    BY <2>1 DEF Stored, Cells
  <2>4. Filled(B, Earlier(at) \cup Stored(Accesses(at), k))'
    BY <1>5, <2>2, <2>3 DEF Filled, Halfway, A
  <2>5. Holds(reg, Accesses(at), k)'  BY <1>5, <2>1 DEF Holds, Halfway, A
  <2> QED  BY <1>5, <2>1, <2>4, <2>5 DEF Halfway
<1> QED  BY <1>1, <1>2, <1>3, <1>4, <1>5 DEF TransInv, Under

\* Every step of a transpose keeps the invariant.
LEMMA TransposeGoesOn == TransInv /\ [Next]_vars => TransInv'
<1>1. SUFFICES ASSUME TransInv, [Next]_vars PROVE TransInv'
  OBVIOUS
<1>2. Sized /\ Under(at, todo, B, reg)  BY <1>1 DEF TransInv
<1>3. CASE AccessOne
  <2>1. M' = M /\ N' = N  BY <1>3 DEF AccessOne
  <2> QED  BY <1>1, <1>2, <1>3, <2>1, AccessKeepsOrder, ShapeStays
<1>4. CASE UNCHANGED transVars
  <2>1. M' = M /\ N' = N /\ at' = at /\ todo' = todo /\ B' = B /\ reg' = reg  BY <1>4 DEF transVars
  <2> QED  BY <1>2, <2>1, ShapeStays
<1>5. CASE DoSim  BY <1>4, <1>5 DEF DoSim
<1>6. CASE Finished \/ UNCHANGED vars  BY <1>4, <1>6 DEF Finished, vars
<1> QED  BY <1>1, <1>3, <1>5, <1>6 DEF Next

\* The invariant gives the property.
LEMMA OrderIsRight == TransInv => StoresOnceAndRight
<1>1. SUFFICES ASSUME TransInv, todo # <<>> PROVE StoresOnceAndRight
  BY DEF StoresOnceAndRight
<1>2. PICK k : /\ Halfway(at, k, todo, B, reg) /\ at.i < N /\ Position(at)
               /\ Head(todo) = Accesses(at)[k + 1] /\ Len(todo) = Len(Accesses(at)) - k
               /\ Moves(Accesses(at), Region(at)) /\ Region(at) \subseteq Cells
               /\ Region(at) \cap Earlier(at) = {}
  BY <1>1, HeadIsNext
<1> DEFINE s == Accesses(at)
           a == s[k + 1]
<1>3. /\ k \in Nat /\ k < Len(s) /\ Filled(B, Earlier(at) \cup Stored(s, k)) /\ Holds(reg, s, k)
  BY <1>2 DEF Halfway
<1>4. Sized /\ M \in Nat /\ N \in Nat  BY <1>1 DEF TransInv, Sized
<1>5. Moves(s, Region(at)) /\ Region(at) \subseteq Cells /\ Region(at) \cap Earlier(at) = {} /\ Head(todo) = a
  BY <1>2
<1> DEFINE R == Region(at)
           W == Earlier(at)
           b == B
           g == reg
<1> HIDE DEF s, R, W, b, g
<1>6. /\ a.op = "L" => a.row \in 0 .. N - 1 /\ a.col \in 0 .. M - 1
      /\ a.op = "S" => /\ a.row \in 0 .. M - 1 /\ a.col \in 0 .. N - 1
                       /\ b[a.row][a.col] = Junk /\ g[a.reg] = A(a.col, a.row)
  <2>1. /\ Sized /\ Moves(s, R) /\ R \subseteq Cells /\ R \cap W = {} /\ k \in Nat /\ k < Len(s)
        /\ Filled(b, W \cup Stored(s, k)) /\ Holds(g, s, k)
    BY <1>3, <1>4, <1>5 DEF R, W, b, g
  <2>2. IsRight(s, k, b, g)  BY <2>1, AccessIsRight
  <2> QED  BY <2>2 DEF IsRight
<1> HIDE DEF a
<1>7. /\ a.op = "L" => a.row < N /\ a.col < M
      /\ a.op = "S" => a.row < M /\ a.col < N /\ B[a.row][a.col] = Junk /\ reg[a.reg] = A(a.col, a.row)
  BY <1>4, <1>6 DEF b, g
<1> QED  BY <1>5, <1>7 DEF StoresOnceAndRight

\* With nothing left to access all cells have been visited.
LEMMA EndIsTranspose == TransInv => (todo = <<>> => is_transpose)
<1>1. SUFFICES ASSUME TransInv, todo = <<>> PROVE is_transpose
  OBVIOUS
<1>2. Sized /\ Under(at, todo, B, reg)  BY <1>1 DEF TransInv
<1>3. at.i \in Nat /\ N \in Nat /\ M \in Nat  BY <1>2 DEF Under, Position, Sized
<1>4. at.i >= N
  <2>1. SUFFICES ASSUME at.i < N PROVE FALSE
    BY <1>3
  <2>2. PICK k : Halfway(at, k, todo, B, reg)  BY <1>2, <2>1 DEF Under
  <2> DEFINE s == Accesses(at)
  <2>3. Moves(s, Region(at))  BY <1>2, <2>1, RowMoves DEF Under
  <2>4. Len(s) \in Nat  BY <2>3 DEF Moves
  <2>5. k \in Nat /\ k < Len(s) /\ todo = [n \in 1 .. Len(s) - k |-> s[n + k]]  BY <2>2 DEF Halfway
  <2> HIDE DEF s
  <2>6. Len(todo) = Len(s) - k  BY <2>4, <2>5
  <2> QED  BY <1>1, <2>4, <2>5, <2>6
<1>5. Filled(B, Cells)  BY <1>2, <1>4 DEF Under
<1>6. ASSUME NEW i \in 0 .. N - 1, NEW j \in 0 .. M - 1 PROVE A(i, j) = B[j][i]
  <2>1. <<j, i>> \in Cells  BY DEF Cells
  <2> QED  BY <1>5, <2>1 DEF Filled
<1> QED  BY <1>6 DEF is_transpose

\* In every transpose, of every shape, each cell of B is written once and with
\* the element that belongs there, and no access is outside its matrix: the
\* order of loads and stores within a row or a block, the cuts at the edges and
\* the re-use of the registers are right.
THEOREM EveryStoreIsRight == Spec => []StoresOnceAndRight
<1>1. Spec => []TransInv  BY TransposeBegins, TransposeGoesOn, PTL DEF Spec
<1> QED  BY <1>1, OrderIsRight, PTL

\* When nothing is left to do B is the transpose of A: the postcondition of
\* transpose_submit, should it return.
THEOREM ReturnsTranspose == Spec => [](todo = <<>> => is_transpose)
<1>1. Spec => []TransInv  BY TransposeBegins, TransposeGoesOn, PTL DEF Spec
<1> QED  BY <1>1, EndIsTranspose, PTL

---------------------------------------------------------------------------
(* The transposes on the cache *)

\* A trace goes on with any instruction, a transpose with its next access.
LEMMA StepIsInstruction ==
    ASSUME TransInv, [Next]_vars
    PROVE  UNCHANGED csimVars \/ \E t \in Types, a \in Nat : SimOneInstruction(t, a)
<1>1. CASE AccessOne
  <2>1. todo # <<>> /\ SimOneInstruction(Head(todo).op, AddressOf(Head(todo)))  BY <1>1 DEF AccessOne
  <2>2. PICK k : /\ Halfway(at, k, todo, B, reg) /\ at.i < N /\ Position(at)
                 /\ Head(todo) = Accesses(at)[k + 1] /\ Len(todo) = Len(Accesses(at)) - k
                 /\ Moves(Accesses(at), Region(at)) /\ Region(at) \subseteq Cells
                 /\ Region(at) \cap Earlier(at) = {}
    BY <2>1, HeadIsNext
  <2> DEFINE s == Accesses(at)
             a == Head(todo)
  <2>3. s \in Seq(AccessRecords) /\ k \in Nat /\ k < Len(s)  BY <2>2 DEF Moves, Halfway
  <2>4. a = s[k + 1]  BY <2>2
  <2> HIDE DEF s, a
  <2>5. Len(s) \in Nat /\ k + 1 \in 1 .. Len(s)  BY <2>3
  <2>6. a \in AccessRecords  BY <2>3, <2>4, <2>5
  <2>7. a.op \in Types /\ a.row \in Nat /\ a.col \in Nat  BY <2>6 DEF AccessRecords, Types
  <2>8. M \in Nat /\ N \in Nat  BY DEF TransInv, Sized
  <2>9. a.row * M \in Nat /\ a.row * N \in Nat  BY <2>7, <2>8
  <2>10. AddressOf(a) \in Nat  BY <2>7, <2>9, BaseAssumption DEF AddressOf
  <2> QED  BY <2>1, <2>7, <2>10 DEF a
<1>2. CASE DoSim  BY <1>2, TraceAddrsAssumption DEF DoSim
<1>3. CASE Finished \/ UNCHANGED vars  BY <1>3 DEF Finished, vars
<1> QED  BY <1>1, <1>2, <1>3 DEF Next

\* The cache of CacheLab begins empty.
LEMMA LabBegins == Init => CsimInit
BY LabAssumption DEF Init, CsimInit

\* A step of CacheLab is one of the simulator or leaves the cache.
LEMMA LabKeeps == IInv /\ TransInv /\ [Next]_vars => IInv'
<1>1. SUFFICES ASSUME IInv, TransInv, [Next]_vars PROVE IInv'
  OBVIOUS
<1>2. CASE UNCHANGED csimVars  BY <1>1, <1>2, GoodNext DEF csimVars, IInv
<1> QED  BY <1>1, <1>2, StepIsInstruction, InstructionKeeps

\* Likewise for TrueLru.
LEMMA LabRefines == IInv /\ TransInv /\ [Next]_vars => [Truth!Next]_(Truth!lruVars)
<1>1. SUFFICES ASSUME IInv, TransInv, [Next]_vars PROVE Truth!Next \/ UNCHANGED Truth!lruVars
  OBVIOUS
<1>2. CASE UNCHANGED csimVars  BY <1>2, StutterRefines
<1> QED  BY <1>1, <1>2, StepIsInstruction, InstructionRefines

\* The arrays of line numbers rank the lines through every transpose as well as
\* through any trace: with CacheLab's steps as with those of Csim alone.
THEOREM LabKeepsRanking == Spec => []RecencyOrder
<1>1. Spec => [](IInv /\ TransInv)
  BY LabBegins, InitHolds, LabKeeps, TransposeBegins, TransposeGoesOn, PTL DEF Spec
<1> QED  BY <1>1, IInvImpliesRecencyOrder, PTL

\* The misses a transpose is judged by are those of a true LRU cache: CacheLab,
\* the transposes on the cache of the lab included, implements TrueLru.
THEOREM LabSimulatesTrueLru == Spec => ImplementsTrueLru
<1>1. Spec => [](IInv /\ TransInv)
  BY LabBegins, InitHolds, LabKeeps, TransposeBegins, TransposeGoesOn, PTL DEF Spec
<1>2. Truth!Spec <=> (Truth!Init /\ [][Truth!Next]_(Truth!lruVars))  BY DEF Truth!Spec
<1>3. Spec => Truth!Init /\ [][Truth!Next]_(Truth!lruVars)
  BY <1>1, LabBegins, InitRefines, LabRefines, PTL DEF Spec
<1> QED  BY <1>2, <1>3 DEF ImplementsTrueLru

-----------------------------------------------------------------------------
(* lab1: the bit puzzles.  A word is a set of positions. *)

Word == SUBSET Positions

\* A shift to the right copies the sign.
LEMMA SarIs ==
    ASSUME NEW x \in Word, NEW k \in Nat
    PROVE  /\ Sar(x, k) \in Word
           /\ \A p \in Positions : p \in Sar(x, k) <=> IF p + k <= 31 THEN p + k \in x ELSE 31 \in x
<1>1. \A p \in Positions : Min({p + k, MSB}) = IF p + k <= MSB THEN p + k ELSE MSB
  BY MinOfTwo DEF Positions, MSB
<1> QED  BY <1>1 DEF Sar, Word, MSB

\* A shift to the left brings in zeroes.
LEMMA ShlIs ==
    ASSUME NEW x \in Word, NEW k \in Nat
    PROVE  Shl(x, k) \in Word /\ \A p \in Positions : p \in Shl(x, k) <=> p - k \in x
BY DEF Shl, Word

\* The operators on bits, one position at a time.
LEMMA BitsOf ==
    /\ \A x \in Word : Not(x) \in Word /\ \A p \in Positions : p \in Not(x) <=> p \notin x
    /\ \A x, y \in Word : And(x, y) \in Word /\ \A p \in Positions : p \in And(x, y) <=> p \in x /\ p \in y
    /\ \A x, y \in Word : Or(x, y) \in Word /\ \A p \in Positions : p \in Or(x, y) <=> p \in x \/ p \in y
    /\ \A x, y \in Word : Xor(x, y) \in Word /\ \A p \in Positions : p \in Xor(x, y) <=> ((p \in x) # (p \in y))
    /\ Zero \in Word /\ One \in Word
BY DEF Not, And, Or, Xor, Zero, One, Word, Positions, MSB

\* n is q times d and r more.
Splits(n, d, q, r) == n \in Int /\ d \in Nat \ {0} /\ q \in Int /\ r \in 0 .. d - 1 /\ n = d * q + r

\* Quotient and remainder of such a split.
LEMMA Division == \A n, d, q, r : Splits(n, d, q, r) => n \div d = q /\ n % d = r
<1> SUFFICES ASSUME NEW n \in Int, NEW d \in Nat \ {0}, NEW q \in Int, NEW r \in 0 .. d - 1, n = d * q + r
             PROVE  n \div d = q /\ n % d = r
  BY DEF Splits
<1>1. (d * q + r) \div d = q  OBVIOUS
<1>2. (d * q + r) % d = r  OBVIOUS
<1> QED  BY <1>1, <1>2

\* Powers.
LEMMA PowNext == ASSUME NEW m \in Nat, NEW n \in Nat, n = m + 1 PROVE Pow2[n] = 2 * Pow2[m]
BY PowStep

\* The powers of two as far as a word needs them.
LEMMA PowTable ==
    /\ Pow2[0] = 1 /\ Pow2[1] = 2 /\ Pow2[2] = 4 /\ Pow2[3] = 8 /\ Pow2[4] = 16 /\ Pow2[5] = 32
    /\ Pow2[6] = 64 /\ Pow2[7] = 128 /\ Pow2[8] = 256 /\ Pow2[9] = 512 /\ Pow2[10] = 1024
    /\ Pow2[11] = 2048 /\ Pow2[12] = 4096 /\ Pow2[13] = 8192 /\ Pow2[14] = 16384 /\ Pow2[15] = 32768
    /\ Pow2[16] = 65536 /\ Pow2[17] = 131072 /\ Pow2[18] = 262144 /\ Pow2[19] = 524288
    /\ Pow2[20] = 1048576 /\ Pow2[21] = 2097152 /\ Pow2[22] = 4194304 /\ Pow2[23] = 8388608
    /\ Pow2[24] = 16777216 /\ Pow2[25] = 33554432 /\ Pow2[26] = 67108864 /\ Pow2[27] = 134217728
    /\ Pow2[28] = 268435456 /\ Pow2[29] = 536870912 /\ Pow2[30] = 1073741824 /\ Pow2[31] = 2147483648
    /\ Pow2[32] = 4294967296
<1>0. Pow2[0] = 1  BY PowStep
<1>1. Pow2[1] = 2  BY <1>0, PowNext
<1>2. Pow2[2] = 4  BY <1>1, PowNext
<1>3. Pow2[3] = 8  BY <1>2, PowNext
<1>4. Pow2[4] = 16  BY <1>3, PowNext
<1>5. Pow2[5] = 32  BY <1>4, PowNext
<1>6. Pow2[6] = 64  BY <1>5, PowNext
<1>7. Pow2[7] = 128  BY <1>6, PowNext
<1>8. Pow2[8] = 256  BY <1>7, PowNext
<1>9. Pow2[9] = 512  BY <1>8, PowNext
<1>10. Pow2[10] = 1024  BY <1>9, PowNext
<1>11. Pow2[11] = 2048  BY <1>10, PowNext
<1>12. Pow2[12] = 4096  BY <1>11, PowNext
<1>13. Pow2[13] = 8192  BY <1>12, PowNext
<1>14. Pow2[14] = 16384  BY <1>13, PowNext
<1>15. Pow2[15] = 32768  BY <1>14, PowNext
<1>16. Pow2[16] = 65536  BY <1>15, PowNext
<1>17. Pow2[17] = 131072  BY <1>16, PowNext
<1>18. Pow2[18] = 262144  BY <1>17, PowNext
<1>19. Pow2[19] = 524288  BY <1>18, PowNext
<1>20. Pow2[20] = 1048576  BY <1>19, PowNext
<1>21. Pow2[21] = 2097152  BY <1>20, PowNext
<1>22. Pow2[22] = 4194304  BY <1>21, PowNext
<1>23. Pow2[23] = 8388608  BY <1>22, PowNext
<1>24. Pow2[24] = 16777216  BY <1>23, PowNext
<1>25. Pow2[25] = 33554432  BY <1>24, PowNext
<1>26. Pow2[26] = 67108864  BY <1>25, PowNext
<1>27. Pow2[27] = 134217728  BY <1>26, PowNext
<1>28. Pow2[28] = 268435456  BY <1>27, PowNext
<1>29. Pow2[29] = 536870912  BY <1>28, PowNext
<1>30. Pow2[30] = 1073741824  BY <1>29, PowNext
<1>31. Pow2[31] = 2147483648  BY <1>30, PowNext
<1>32. Pow2[32] = 4294967296  BY <1>31, PowNext
<1> QED
  BY <1>0, <1>1, <1>2, <1>3, <1>4, <1>5, <1>6, <1>7, <1>8, <1>9, <1>10, <1>11, <1>12, <1>13, <1>14, <1>15, <1>16, <1>17, <1>18, <1>19, <1>20, <1>21, <1>22, <1>23, <1>24, <1>25, <1>26, <1>27, <1>28, <1>29, <1>30, <1>31, <1>32

\* Powers are positive and grow.
LEMMA PowPositive == \A n \in Nat : Pow2[n] \in Nat \ {0}
BY PowSum

\* A greater exponent gives a greater power.
LEMMA PowGrows ==
    ASSUME NEW m \in Nat, NEW n \in Nat, m <= n
    PROVE  Pow2[m] <= Pow2[n] /\ Pow2[n] = Pow2[m] * Pow2[n - m]
<1>1. n - m \in Nat /\ m + (n - m) = n  OBVIOUS
<1>2. Pow2[n] = Pow2[m] * Pow2[n - m]  BY <1>1, PowSum
<1> DEFINE a == Pow2[m]
           b == Pow2[n - m]
<1>3. a \in Nat \ {0} /\ b \in Nat \ {0}  BY <1>1, PowPositive
<1>4. a <= a * b
  <2> HIDE DEF a, b
  <2> QED  BY <1>3
<1> QED  BY <1>2, <1>4

\* The words of some numbers.
LEMMA LitIs ==
    ASSUME NEW n \in Nat, NEW k \in 0 .. 31, n < Pow2[k]
    PROVE  /\ Lit(n) \in SUBSET (0 .. k - 1) /\ Lit(n) \in Word
           /\ \A p \in 0 .. 30 : p \in Lit(n) <=> (n \div Pow2[p]) % 2 = 1
<1>1. \A p \in 0 .. 30 : p \in Lit(n) <=> (n \div Pow2[p]) % 2 = 1  BY DEF Lit, MSB
<1>2. ASSUME NEW p \in Lit(n) PROVE p \in 0 .. k - 1
  <2>1. p \in 0 .. 30 /\ (n \div Pow2[p]) % 2 = 1  BY DEF Lit, MSB
  <2>2. SUFFICES ASSUME p >= k PROVE FALSE  BY <2>1
  <2>3. Pow2[k] <= Pow2[p]  BY <2>1, <2>2, PowGrows
  <2> DEFINE d == Pow2[p]
  <2>4. d \in Nat \ {0} /\ Pow2[k] \in Nat  BY <2>1, PowPositive
  <2>5. n < d  BY <2>3, <2>4
  <2> HIDE DEF d
  <2>6. Splits(n, d, 0, n)  BY <2>4, <2>5 DEF Splits
  <2>7. n \div d = 0  BY <2>6, Division
  <2> QED  BY <2>1, <2>7 DEF d
<1> QED  BY <1>1, <1>2 DEF Word, Positions, MSB

\* 2^k - 1 has ones up to k - 1, and 2^k one at k.
LEMMA LitOnes == ASSUME NEW k \in 0 .. 31 PROVE Lit(Pow2[k] - 1) = 0 .. k - 1
<1> DEFINE n == Pow2[k] - 1
<1>1. n \in Nat /\ n < Pow2[k]  BY PowPositive
<1>2. \A p \in 0 .. 30 : p \in Lit(n) <=> (n \div Pow2[p]) % 2 = 1  BY <1>1, LitIs
<1>3. Lit(n) \in SUBSET (0 .. k - 1)  BY <1>1, LitIs
<1>4. ASSUME NEW p \in 0 .. k - 1 PROVE p \in Lit(n)
  <2> DEFINE d == Pow2[p]
             q == Pow2[k - p]
             h == Pow2[k - p - 1]
  <2>1. /\ p \in Nat /\ k \in Nat /\ p <= k /\ k - p \in Nat /\ k - p - 1 \in Nat
        /\ k - p = (k - p - 1) + 1 /\ p \in 0 .. 30
    OBVIOUS
  <2>2. Pow2[k] = d * q  BY <2>1, PowGrows
  <2>3. q = 2 * h  BY <2>1, PowNext
  <2>4. d \in Nat \ {0} /\ q \in Nat \ {0} /\ h \in Nat \ {0}  BY <2>1, PowPositive
  <2>5. n = d * q - 1  BY <2>2
  <2> HIDE DEF d, q, h, n
  <2>6. Splits(n, d, q - 1, d - 1)
    <3>1. n = d * (q - 1) + (d - 1)  BY <2>4, <2>5
    <3> QED  BY <1>1, <2>4, <3>1 DEF Splits
  <2>7. n \div d = q - 1  BY <2>6, Division
  <2>8. (q - 1) % 2 = 1  BY <2>3, <2>4
  <2> QED  BY <1>2, <2>1, <2>7, <2>8 DEF d
<1> QED  BY <1>3, <1>4

\* A power of two has one bit.
LEMMA LitPower == ASSUME NEW k \in 0 .. 30 PROVE Lit(Pow2[k]) = {k}
<1> DEFINE n == Pow2[k]
<1>0. k \in Nat /\ k + 1 \in 0 .. 31 /\ k + 1 \in Nat  OBVIOUS
<1>1. n \in Nat \ {0} /\ n < Pow2[k + 1]
  <2>1. Pow2[k] \in Nat \ {0} /\ Pow2[k + 1] = 2 * Pow2[k]  BY <1>0, PowPositive, PowNext
  <2> QED  BY <2>1
<1>2. \A p \in 0 .. 30 : p \in Lit(n) <=> (n \div Pow2[p]) % 2 = 1  BY <1>0, <1>1, LitIs
<1>3. Lit(n) \in SUBSET (0 .. k)
  <2>1. Lit(n) \in SUBSET (0 .. (k + 1) - 1)
    <3> HIDE DEF n
    <3> QED  BY <1>0, <1>1, LitIs
  <2> QED  BY <1>0, <2>1
<1>4. ASSUME NEW p \in 0 .. k - 1 PROVE p \notin Lit(n)
  <2> DEFINE d == Pow2[p]
             q == Pow2[k - p]
             h == Pow2[k - p - 1]
  <2>1. /\ p \in Nat /\ k \in Nat /\ p <= k /\ k - p \in Nat /\ k - p - 1 \in Nat
        /\ k - p = (k - p - 1) + 1 /\ p \in 0 .. 30
    OBVIOUS
  <2>2. n = d * q  BY <2>1, PowGrows
  <2>3. q = 2 * h  BY <2>1, PowNext
  <2>4. d \in Nat \ {0} /\ q \in Nat \ {0} /\ h \in Nat \ {0}  BY <2>1, PowPositive
  <2> HIDE DEF d, q, h, n
  <2>5. Splits(n, d, q, 0)  BY <1>1, <2>2, <2>4 DEF Splits
  <2>6. n \div d = q  BY <2>5, Division
  <2>7. q % 2 = 0  BY <2>3, <2>4
  <2> QED  BY <1>2, <2>1, <2>6, <2>7 DEF d
<1>5. k \in Lit(n)
  <2> HIDE DEF n
  <2>1. Splits(n, n, 1, 0)  BY <1>1 DEF Splits
  <2>2. n \div n = 1  BY <2>1, Division
  <2>3. (n \div Pow2[k]) % 2 = 1  BY <2>2 DEF n
  <2> QED  BY <1>2, <2>3
<1> QED  BY <1>3, <1>4, <1>5

\* The masks.
LEMMA Masks ==
    /\ Lit(255) = 0 .. 7 /\ Lit(8388607) = 0 .. 22 /\ Lit(3) = 0 .. 1 /\ Lit(8388608) = {23} /\ Lit(2) = {1}
    /\ Lit(85) = {0, 2, 4, 6} /\ Lit(240) = 4 .. 7 /\ Lit(12) = 2 .. 3
    /\ tmax = 0 .. 30
<1>1. Lit(Pow2[8] - 1) = 0 .. 7 /\ Lit(Pow2[23] - 1) = 0 .. 22 /\ Lit(Pow2[2] - 1) = 0 .. 1
  BY LitOnes
<1>2. Lit(Pow2[23]) = {23} /\ Lit(Pow2[1]) = {1}  BY LitPower
<1>3. Pow2[8] - 1 = 255 /\ Pow2[23] - 1 = 8388607 /\ Pow2[2] - 1 = 3 /\ Pow2[23] = 8388608 /\ Pow2[1] = 2
  BY PowTable
<1>4. ASSUME NEW n \in {85, 240, 12}
      PROVE  /\ Lit(n) \in SUBSET (0 .. 7)
             /\ 0 \in Lit(n) <=> (n \div 1) % 2 = 1
             /\ 1 \in Lit(n) <=> (n \div 2) % 2 = 1
             /\ 2 \in Lit(n) <=> (n \div 4) % 2 = 1
             /\ 3 \in Lit(n) <=> (n \div 8) % 2 = 1
             /\ 4 \in Lit(n) <=> (n \div 16) % 2 = 1
             /\ 5 \in Lit(n) <=> (n \div 32) % 2 = 1
             /\ 6 \in Lit(n) <=> (n \div 64) % 2 = 1
             /\ 7 \in Lit(n) <=> (n \div 128) % 2 = 1
  <2>1. n \in Nat /\ n < Pow2[8]  BY PowTable
  <2>2. Lit(n) \in SUBSET (0 .. 7)  BY <2>1, LitIs
  <2>3. \A p \in 0 .. 30 : p \in Lit(n) <=> (n \div Pow2[p]) % 2 = 1  BY <2>1, LitIs
  <2> QED  BY <2>2, <2>3, PowTable
<1>5. Lit(85) = {0, 2, 4, 6}  BY <1>4
<1>6. Lit(240) = 4 .. 7  BY <1>4
<1>7. Lit(12) = 2 .. 3  BY <1>4
<1>8. tmax = 0 .. 30  BY DEF tmax, Not, Shl, One, Positions, MSB
<1> QED  BY <1>1, <1>2, <1>3, <1>5, <1>6, <1>7, <1>8

---------------------------------------------------------------------------
(* Puzzles that move bits. *)

\* evenBits has its ones at the even positions.
LEMMA evenBitsRight == evenBits = {p \in Positions : p % 2 = 0}
<1> DEFINE a == Lit(85)
           b == Or(a, Shl(a, 8))
           c == Or(b, Shl(b, 16))
<1>1. a = {0, 2, 4, 6} /\ a \in Word  BY Masks DEF Word, Positions, MSB
<1>2. b = {0, 2, 4, 6, 8, 10, 12, 14}
  <2>1. Shl(a, 8) = {8, 10, 12, 14}  BY <1>1 DEF Shl, Positions, MSB
  <2> QED  BY <1>1, <2>1 DEF Or
<1>3. Shl(b, 16) = {16, 18, 20, 22, 24, 26, 28, 30}
  <2> HIDE DEF b
  <2> QED  BY <1>2 DEF Shl, Positions, MSB
<1>4. c = {0, 2, 4, 6, 8, 10, 12, 14} \cup {16, 18, 20, 22, 24, 26, 28, 30}  BY <1>2, <1>3 DEF Or
<1>5. evenBits = c  BY Zenon DEF evenBits
<1> HIDE DEF c
<1>6. \A p \in Positions : p \in c <=> p % 2 = 0  BY <1>4 DEF Positions, MSB
<1>7. c \in Word  BY <1>4 DEF Word, Positions, MSB
<1> QED  BY <1>5, <1>6, <1>7 DEF Word

\* byteSwap exchanges two bytes, or a byte with itself.
LEMMA byteSwapRight ==
    ASSUME NEW x \in Word, NEW n \in 0 .. 3, NEW m \in 0 .. 3, NEW k \in 0 .. 3
    PROVE  Byte(byteSwap(x, n, m), k) = Byte(x, IF k = n THEN m ELSE IF k = m THEN n ELSE k)
<1> DEFINE g == And(Sar(x, 8 * m), Lit(255))
           h == And(Sar(x, 8 * n), Lit(255))
           v == Xor(g, h)
           t == Xor(x, Shl(v, 8 * m))
           r == Xor(t, Shl(v, 8 * n))
<1>1. byteSwap(x, n, m) = r  BY Zenon DEF byteSwap
<1>2. /\ g \in Word /\ h \in Word
      /\ \A p \in Positions : p \in g <=> (p \in 0 .. 7 /\ p + 8 * m \in x)
      /\ \A p \in Positions : p \in h <=> (p \in 0 .. 7 /\ p + 8 * n \in x)
  <2>1. Lit(255) \in Word /\ \A p \in Positions : p \in Lit(255) <=> p \in 0 .. 7  BY Masks DEF Word, Positions, MSB
  <2>2. 8 * m \in Nat /\ 8 * n \in Nat  OBVIOUS
  <2>3. Sar(x, 8 * m) \in Word /\ Sar(x, 8 * n) \in Word  BY <2>2, SarIs
  <2>4. \A p \in 0 .. 7 : /\ p \in Positions /\ p + 8 * m <= 31 /\ p + 8 * n <= 31
                          /\ p \in Sar(x, 8 * m) <=> p + 8 * m \in x
                          /\ p \in Sar(x, 8 * n) <=> p + 8 * n \in x
    <3>1. \A p \in 0 .. 7 : p \in Positions /\ p + 8 * m <= 31 /\ p + 8 * n <= 31  BY DEF Positions, MSB
    <3> QED  BY <2>2, <3>1, SarIs
  <2> QED  BY <2>1, <2>3, <2>4, BitsOf
<1> HIDE DEF g, h
<1>3. v \in Word /\ \A p \in Positions : p \in v <=> p \in 0 .. 7 /\ ((p + 8 * m \in x) # (p + 8 * n \in x))
  <2>1. v \in Word /\ \A p \in Positions : p \in v <=> ((p \in g) # (p \in h))  BY <1>2, BitsOf
  <2> HIDE DEF v
  <2>2. ASSUME NEW p \in Positions PROVE p \in v <=> p \in 0 .. 7 /\ ((p + 8 * m \in x) # (p + 8 * n \in x))
    <3>1. p \in v <=> ((p \in g) # (p \in h))  BY <2>1
    <3> QED  BY <1>2, <3>1
  <2> QED  BY <2>1, <2>2
<1>4. v \in SUBSET (0 .. 7)  BY <1>3 DEF Word
<1> HIDE DEF v
<1>5. t \in Word /\ \A p \in Positions : p \in t <=> ((p \in x) # (p - 8 * m \in v))
  <2>1. Shl(v, 8 * m) \in Word /\ \A p \in Positions : p \in Shl(v, 8 * m) <=> p - 8 * m \in v  BY <1>3, ShlIs
  <2> QED  BY <2>1, BitsOf
<1> HIDE DEF t
<1>6. r \in Word /\ \A p \in Positions : p \in r <=> ((p \in t) # (p - 8 * n \in v))
  <2>1. Shl(v, 8 * n) \in Word /\ \A p \in Positions : p \in Shl(v, 8 * n) <=> p - 8 * n \in v  BY <1>3, ShlIs
  <2> QED  BY <1>5, <2>1, BitsOf
<1> HIDE DEF r
<1> DEFINE j == IF k = n THEN m ELSE IF k = m THEN n ELSE k
<1>7. ASSUME NEW q \in 0 .. 7 PROVE q + 8 * k \in r <=> q + 8 * j \in x
  <2>1. q + 8 * k \in Positions /\ q \in Positions  BY DEF Positions, MSB
  <2>2. (q + 8 * k) - 8 * m = q + 8 * (k - m) /\ (q + 8 * k) - 8 * n = q + 8 * (k - n)  OBVIOUS
  <2>3. q + 8 * k \in r <=> (((q + 8 * k \in x) # (q + 8 * (k - m) \in v)) # (q + 8 * (k - n) \in v))
    BY <1>5, <1>6, <2>1, <2>2
  <2>4. q \in v <=> ((q + 8 * m \in x) # (q + 8 * n \in x))  BY <1>3, <2>1
  <2>5. \A i \in 0 .. 3 : i # k => q + 8 * (k - i) \notin 0 .. 7  OBVIOUS
  <2>6. m # k => q + 8 * (k - m) \notin v  BY <1>4, <2>5
  <2>7. n # k => q + 8 * (k - n) \notin v  BY <1>4, <2>5
  <2>8. m = k => q + 8 * (k - m) = q  OBVIOUS
  <2>9. n = k => q + 8 * (k - n) = q  OBVIOUS
  <2>10. CASE n = k /\ m = k  BY <2>3, <2>4, <2>8, <2>9, <2>10
  <2>11. CASE n = k /\ m # k  BY <2>3, <2>4, <2>6, <2>9, <2>11
  <2>12. CASE n # k /\ m = k  BY <2>3, <2>4, <2>7, <2>8, <2>12
  <2>13. CASE n # k /\ m # k  BY <2>3, <2>6, <2>7, <2>13
  <2> QED  BY <2>10, <2>11, <2>12, <2>13
<1>8. \A z \in Word : \A i \in 0 .. 3 : Byte(z, i) = {q \in 0 .. 7 : q + 8 * i \in z}
  <2> TAKE z \in Word, i \in 0 .. 3
  <2>1. ASSUME NEW q \in Byte(z, i) PROVE q \in 0 .. 7 /\ q + 8 * i \in z
    <3>1. PICK p \in z \cap 8 * i .. 8 * i + 7 : q = p - 8 * i  BY DEF Byte
    <3> QED  BY <3>1
  <2>2. ASSUME NEW q \in 0 .. 7, q + 8 * i \in z PROVE q \in Byte(z, i)
    <3>1. q + 8 * i \in z \cap 8 * i .. 8 * i + 7 /\ q = (q + 8 * i) - 8 * i  BY <2>2
    <3> QED  BY <3>1 DEF Byte
  <2> QED  BY <2>1, <2>2
<1>9. j \in 0 .. 3  OBVIOUS
<1> HIDE DEF j
<1>10. Byte(r, k) = Byte(x, j)
  <2>1. Byte(r, k) = {q \in 0 .. 7 : q + 8 * k \in r}  BY <1>6, <1>8
  <2>2. Byte(x, j) = {q \in 0 .. 7 : q + 8 * j \in x}  BY <1>8, <1>9
  <2> QED  BY <1>7, <2>1, <2>2
<1> QED  BY <1>1, <1>10 DEF j

\* rotateRight moves every bit, by 0 also.
LEMMA rotateRightRight ==
    ASSUME NEW x \in Word, NEW n \in 0 .. 31, NEW modulo \in BOOLEAN
    PROVE  rotateRight(x, n, modulo) = {(p - n) % 32 : p \in x}
<1> DEFINE k == 32 - n
           s == ShlBy(x, k, modulo)
           z == ShlBy(Not(Zero), k, modulo)
           r == Or(s, And(Sar(x, n), Not(z)))
<1>1. rotateRight(x, n, modulo) = r  BY Zenon DEF rotateRight
<1>2. k \in 1 .. 32 /\ Not(Zero) \in Word /\ \A p \in Positions : p \in Not(Zero)  BY BitsOf DEF Zero
<1>3. s \in Word /\ z \in Word /\ Sar(x, n) \in Word
  BY <1>2, ShlIs, SarIs DEF ShlBy
<1>4. \A p \in Positions : p \in r <=> p \in s \/ (p \in Sar(x, n) /\ p \notin z)
  <2>1. Not(z) \in Word /\ And(Sar(x, n), Not(z)) \in Word /\ r \in Word  BY <1>3, BitsOf
  <2> QED  BY <1>3, <2>1, BitsOf
<1>5. r \in Word
  <2>1. Not(z) \in Word /\ And(Sar(x, n), Not(z)) \in Word  BY <1>3, BitsOf
  <2> QED  BY <1>3, <2>1, BitsOf
<1>6. ASSUME NEW p \in Positions PROVE p \in r <=> (p + n) % 32 \in x
  <2>1. p \in 0 .. 31 /\ x \in SUBSET (0 .. 31)  BY DEF Positions, MSB, Word
  <2>2. p \in Sar(x, n) <=> IF p + n <= 31 THEN p + n \in x ELSE 31 \in x  BY SarIs
  <2>3. CASE n = 0
    <3>1. (p + n) % 32 = p /\ k = 32 /\ p + n = p  BY <2>1, <2>3
    <3>2. CASE modulo
      <4>1. s = Shl(x, 0) /\ z = Shl(Not(Zero), 0)  BY <3>1, <3>2 DEF ShlBy
      <4>2. (p \in s <=> p - 0 \in x) /\ (p \in z <=> p - 0 \in Not(Zero))  BY <1>2, <4>1, ShlIs
      <4> QED  BY <1>2, <1>4, <2>1, <3>1, <4>2
    <3>3. CASE ~modulo
      <4>1. s = Shl(x, 32) /\ z = Shl(Not(Zero), 32)  BY <3>1, <3>3 DEF ShlBy
      <4>2. (p \in s <=> p - 32 \in x) /\ (p \in z <=> p - 32 \in Not(Zero))  BY <1>2, <4>1, ShlIs
      <4>3. p - 32 \notin Positions  BY <2>1 DEF Positions, MSB
      <4> QED  BY <1>2, <1>4, <2>1, <2>2, <3>1, <4>2, <4>3 DEF Word
    <3> QED  BY <3>2, <3>3
  <2>4. CASE n # 0
    <3>1. k \in 1 .. 31 /\ k % 32 = k  BY <2>4
    <3>2. s = Shl(x, k) /\ z = Shl(Not(Zero), k)  BY <3>1 DEF ShlBy
    <3>3. (p \in s <=> p - k \in x) /\ (p \in z <=> p - k \in Not(Zero))
      <4>1. k \in Nat /\ Not(Zero) \in Word  BY <1>2, <3>1
      <4>2. \A q \in Positions : q \in Shl(x, k) <=> q - k \in x  BY <4>1, ShlIs
      <4>3. \A q \in Positions : q \in Shl(Not(Zero), k) <=> q - k \in Not(Zero)  BY <4>1, ShlIs
      <4> QED  BY <3>2, <4>2, <4>3
    <3>4. p - k \in Positions <=> p >= k  BY <2>1, <3>1 DEF Positions, MSB
    <3>5. CASE p >= k
      <4>1. (p + n) % 32 = p - k  BY <2>1, <3>5
      <4> QED  BY <1>2, <1>4, <3>3, <3>4, <3>5, <4>1
    <3>6. CASE p < k
      <4>1. (p + n) % 32 = p + n /\ p + n <= 31 /\ ~(p >= k)  BY <2>1, <3>6
      <4> QED  BY <1>2, <1>4, <2>2, <3>3, <3>4, <4>1 DEF Word
    <3> QED  BY <2>1, <3>1, <3>5, <3>6
  <2> QED  BY <2>3, <2>4
<1> HIDE DEF r, s, z, k
<1>7. ASSUME NEW p \in x PROVE (p - n) % 32 \in r
  <2>1. p \in 0 .. 31  BY DEF Positions, MSB, Word
  <2>2. (p - n) % 32 \in 0 .. 31 /\ (((p - n) % 32) + n) % 32 = p  BY <2>1
  <2> QED  BY <1>6, <2>2 DEF Positions, MSB
<1>8. ASSUME NEW p \in r PROVE \E q \in x : p = (q - n) % 32
  <2>1. p \in 0 .. 31  BY <1>5 DEF Positions, MSB, Word
  <2>2. (((p + n) % 32) - n) % 32 = p  BY <2>1
  <2> QED  BY <1>6, <2>1, <2>2 DEF Positions, MSB
<1> QED  BY <1>1, <1>7, <1>8


---------------------------------------------------------------------------
(* The number a word is. *)

Weights == [p \in Positions |-> Pow2[p]]

\* The positions, to sum over.
LEMMA PositionsFinite == IsFiniteSet(Positions)
<1>1. \A n \in Nat : IsFiniteSet(0 .. n)  BY FS_Interval
<1> QED  BY <1>1 DEF Positions, MSB

\* A number is the sum of the weights of its ones.
LEMMA ValIsSum ==
    \E f : Sums(f, Weights, Positions) /\ \A x \in Word : Val(x) = f[x]
<1>1. Weights \in [Positions -> Nat]  BY PowPositive DEF Weights, Positions, MSB
<1>2. PICK f : Sums(f, Weights, Positions)  BY <1>1, PositionsFinite, SumsExist
<1>3. ASSUME NEW x \in Word PROVE Val(x) = f[x]
  <2>0. x \in SUBSET Positions  BY DEF Word
  <2> DEFINE body(g) == [T \in SUBSET x |-> IF T = {} THEN 0 ELSE Pow2[First(T)] + g[T \ {First(T)}]]
             S == CHOOSE g : g = body(g)
             r == [T \in SUBSET x |-> f[T]]
  <2>1. Val(x) = S[x]  BY Zenon DEF Val, MapThenSumSet, MapThenFoldSet, First
  <2>2. \A T \in SUBSET x : T # {} => Weights[First(T)] = Pow2[First(T)]
    BY <2>0, FirstIsMember DEF Weights
  <2>3. r = body(r)
    <3>1. \A T \in SUBSET x : f[T] = IF T = {} THEN 0 ELSE Pow2[First(T)] + f[T \ {First(T)}]
      BY <1>2, <2>0, <2>2 DEF Sums
    <3>2. \A T \in SUBSET x : T \ {First(T)} \in SUBSET x  OBVIOUS
    <3> QED  BY <3>1, <3>2
  <2>4. S = body(S)  BY <2>3, Zenon
  <2>5. IsFold(S, Weights, x)
    <3>1. \A g : body(g) = [T \in SUBSET x |-> IF T = {} THEN 0 ELSE Weights[First(T)] + g[T \ {First(T)}]]
      BY <2>2
    <3> HIDE DEF S
    <3> QED  BY <2>4, <3>1, Zenon DEF IsFold
  <2> HIDE DEF S
  <2>6. SameOn(Weights, Weights, x)  BY DEF SameOn
  <2>7. S[x] = f[x]  BY <1>2, <2>0, <2>5, <2>6, PositionsFinite, SumsAgree
  <2> QED  BY <2>1, <2>7
<1> QED  BY <1>2, <1>3

\* A one adds its weight.
LEMMA ValTakes ==
    /\ Val({}) = 0
    /\ \A x \in Word : Val(x) \in Nat
    /\ \A x \in Word : \A p \in x : x \ {p} \in Word /\ Val(x) = Pow2[p] + Val(x \ {p})
<1>1. PICK f : Sums(f, Weights, Positions) /\ \A x \in Word : Val(x) = f[x]  BY ValIsSum
<1>2. Weights \in [Positions -> Nat]  BY PowPositive DEF Weights, Positions, MSB
<1>3. Val({}) = 0  BY <1>1, BitsOf DEF Sums, Zero
<1>4. \A x \in Word : Val(x) \in Nat  BY <1>1 DEF Sums, Word
<1>5. \A x \in Word : \A p \in x : f[x] = Weights[p] + f[x \ {p}]
  <2>1. ASSUME NEW x \in SUBSET Positions, NEW p \in x PROVE f[x] = Weights[p] + f[x \ {p}]
    <3>1. Sums(f, Weights, Positions)  BY <1>1
    <3> QED  BY <1>2, <3>1, PositionsFinite, SumTakes
  <2> QED  BY <2>1, Zenon DEF Word
<1>6. \A x \in Word : \A p \in x : x \ {p} \in Word /\ Weights[p] = Pow2[p]  BY DEF Word, Weights
<1> QED  BY <1>1, <1>3, <1>4, <1>5, <1>6

\* The number of the k lowest bits.
Below(x, k) == Val(x \cap 0 .. k - 1)
Bit(x, k) == IF k \in x THEN 1 ELSE 0

\* One more bit.
LEMMA BelowTakes ==
    ASSUME NEW x \in Word
    PROVE  /\ Below(x, 0) = 0
           /\ \A k \in 0 .. 32 : Below(x, k) \in Nat
           /\ \A k \in 0 .. 31 : Below(x, k + 1) = Below(x, k) + Pow2[k] * Bit(x, k)
<1>1. x \cap 0 .. 0 - 1 = {}  OBVIOUS
<1>2. \A k \in 0 .. 32 : x \cap 0 .. k - 1 \in Word  BY DEF Word
<1>3. ASSUME NEW k \in 0 .. 31 PROVE Below(x, k + 1) = Below(x, k) + Pow2[k] * Bit(x, k)
  <2> DEFINE y == x \cap 0 .. (k + 1) - 1
             z == x \cap 0 .. k - 1
  <2>1. y \in Word /\ z \in Word  BY DEF Word
  <2>2. Pow2[k] \in Nat /\ Val(y) \in Nat /\ Val(z) \in Nat
    <3> HIDE DEF y, z
    <3> QED  BY <2>1, PowPositive, ValTakes
  <2>3. CASE k \in x
    <3>1. k \in y /\ z = y \ {k}  BY <2>3
    <3> HIDE DEF y, z
    <3>2. Val(y) = Pow2[k] + Val(z)  BY <2>1, <3>1, ValTakes
    <3> QED  BY <2>2, <2>3, <3>2 DEF Below, Bit, y, z
  <2>4. CASE k \notin x
    <3>1. y = z  BY <2>4
    <3> HIDE DEF y, z
    <3> QED  BY <2>2, <2>4, <3>1 DEF Below, Bit, y, z
  <2> QED  BY <2>3, <2>4
<1> QED  BY <1>1, <1>2, <1>3, ValTakes DEF Below

\* k bits are less than 2^k.
LEMMA BelowBound == ASSUME NEW x \in Word, NEW k \in 0 .. 32 PROVE Below(x, k) < Pow2[k]
<1> DEFINE S == {i \in 0 .. 32 : Below(x, i) < Pow2[i]}
<1>1. S \in SUBSET (0 .. 32) /\ 0 \in S  BY BelowTakes, PowTable
<1>2. ASSUME NEW i \in 0 .. 31, i \in S PROVE i + 1 \in S
  <2>1. Pow2[i] \in Nat /\ Pow2[i + 1] = 2 * Pow2[i] /\ Bit(x, i) \in {0, 1} /\ Below(x, i) \in Nat
    BY PowPositive, PowNext, BelowTakes DEF Bit
  <2>2. Below(x, i + 1) = Below(x, i) + Pow2[i] * Bit(x, i)  BY BelowTakes
  <2>3. Pow2[i] * Bit(x, i) <= Pow2[i]  BY <2>1
  <2> QED  BY <1>2, <2>1, <2>2, <2>3
<1> HIDE DEF S
<1>3. S = 0 .. 32
  <2>1. \A i \in 0 .. 32 - 1 : i \in S => i + 1 \in S  BY <1>2
  <2> QED  BY <1>1, <2>1, BoundedInd
<1> QED  BY <1>3 DEF S

\* A word is its lowest bits where it has no higher ones.
LEMMA ValIsBelow ==
    ASSUME NEW x \in Word, NEW k \in 0 .. 32, x \in SUBSET (0 .. k - 1)
    PROVE  Val(x) = Below(x, k) /\ Val(x) \in Nat /\ Val(x) < Pow2[k]
<1>1. x \cap 0 .. k - 1 = x  OBVIOUS
<1> QED  BY <1>1, ValTakes, BelowBound DEF Below

\* x without its k lowest bits, moved to where those were.
Down(x, k) == {p \in Positions : p + k \in x}

\* A number is its k lowest bits and 2^k times the rest.
LEMMA ValSplits ==
    ASSUME NEW x \in Word, NEW k \in 0 .. 31, NEW n \in 0 .. 32, k <= n
    PROVE  Down(x, k) \in Word /\ Below(x, n) = Below(x, k) + Pow2[k] * Below(Down(x, k), n - k)
<1> DEFINE d == Down(x, k)
           S == {j \in 0 .. n - k : Below(x, k + j) = Below(x, k) + Pow2[k] * Below(d, j)}
<1>1. d \in Word  BY DEF Down, Word
<1>2. Pow2[k] \in Nat /\ Below(x, k) \in Nat /\ \A j \in 0 .. n - k : Below(d, j) \in Nat
  BY <1>1, PowPositive, BelowTakes
<1>3. 0 \in S
  <2>1. k + 0 = k /\ Below(d, 0) = 0 /\ 0 \in 0 .. n - k  BY <1>1, BelowTakes
  <2> HIDE DEF d
  <2> QED  BY <1>2, <2>1
<1>4. ASSUME NEW j \in 0 .. (n - k) - 1, j \in S PROVE j + 1 \in S
  <2>1. j \in 0 .. 31 /\ k + j \in 0 .. 31 /\ k + (j + 1) = (k + j) + 1 /\ j \in Positions /\ j + k = k + j
        /\ j + 1 \in 0 .. n - k
    BY DEF Positions, MSB
  <2>2. Bit(d, j) = Bit(x, k + j)  BY <2>1 DEF Down, Bit
  <2> HIDE DEF d
  <2>3. Below(d, j + 1) = Below(d, j) + Pow2[j] * Bit(d, j)  BY <1>1, <2>1, BelowTakes
  <2>4. Below(x, (k + j) + 1) = Below(x, k + j) + Pow2[k + j] * Bit(x, k + j)  BY <2>1, BelowTakes
  <2>5. Pow2[k + j] = Pow2[k] * Pow2[j]  BY PowSum
  <2> DEFINE a == Pow2[k]
             b == Pow2[j]
             c == Below(d, j)
             e == Bit(d, j)
             g == Below(x, k)
  <2>6. a \in Nat /\ b \in Nat /\ c \in Nat /\ e \in Nat /\ g \in Nat  BY <1>2, <2>1, PowPositive DEF Bit
  <2>7. Below(x, k + j) = g + a * c  BY <1>4
  <2>8. Below(x, (k + j) + 1) = (g + a * c) + (a * b) * e  BY <2>2, <2>4, <2>5, <2>7
  <2>9. Below(d, j + 1) = c + b * e  BY <2>3
  <2> HIDE DEF a, b, c, e, g
  <2>10. (g + a * c) + (a * b) * e = g + a * (c + b * e)  BY <2>6
  <2>11. Below(x, k + (j + 1)) = g + a * Below(d, j + 1)  BY <2>1, <2>8, <2>9, <2>10
  <2> QED  BY <2>1, <2>11 DEF a, g
<1> HIDE DEF S
<1>5. S = 0 .. n - k
  <2>1. n - k \in Nat /\ S \in SUBSET (0 .. n - k)  BY DEF S
  <2> QED  BY <1>3, <1>4, <2>1, BoundedInd
<1>6. n - k \in S /\ k + (n - k) = n  BY <1>5
<1> QED  BY <1>1, <1>6 DEF S

\* The digits of a number are those of the word of it.
LEMMA ValLit ==
    ASSUME NEW n \in Nat, NEW k \in 0 .. 31, n < Pow2[k]
    PROVE  Lit(n) \in Word /\ Val(Lit(n)) = n
<1> DEFINE x == Lit(n)
           S == {i \in 0 .. k : n = Below(x, i) + Pow2[i] * (n \div Pow2[i])}
<1>1. x \in Word /\ x \in SUBSET (0 .. k - 1) /\ \A p \in 0 .. 30 : p \in x <=> (n \div Pow2[p]) % 2 = 1
  BY LitIs
<1> HIDE DEF x
<1>2. S \in SUBSET (0 .. k)  OBVIOUS
<1>3. 0 \in S
  <2>1. Below(x, 0) = 0 /\ Pow2[0] = 1  BY <1>1, BelowTakes, PowTable
  <2>2. n \div 1 = n  OBVIOUS
  <2> QED  BY <2>1, <2>2
<1>4. ASSUME NEW i \in 0 .. k - 1, i \in S PROVE i + 1 \in S
  <2> DEFINE a == Pow2[i]
             q == n \div a
             b == Below(x, i)
             h == q \div 2
             e == q % 2
  <2>1. i \in 0 .. 30 /\ i \in 0 .. 31 /\ i \in 0 .. 32 /\ i \in Nat /\ i + 1 \in 0 .. k /\ i + 1 \in Nat  OBVIOUS
  <2>2. a \in Nat \ {0} /\ Pow2[i + 1] = 2 * a /\ b \in Nat /\ b < a
    BY <1>1, <2>1, PowPositive, PowNext, BelowTakes, BelowBound
  <2>3. n = b + a * q  BY <1>4
  <2> HIDE DEF a, b
  <2>4. q \in Nat /\ q = 2 * h + e /\ h \in Nat /\ e \in {0, 1}  BY <2>2
  <2>5. Bit(x, i) = e  BY <1>1, <2>1, <2>4 DEF Bit, a
  <2>6. Below(x, i + 1) = b + a * e  BY <1>1, <2>1, <2>5, BelowTakes DEF a, b
  <2> HIDE DEF q, h, e
  <2>7. n = (b + a * e) + (2 * a) * h  BY <2>2, <2>3, <2>4
  <2>8. b + a * e \in 0 .. (2 * a) - 1
    <3>1. a * e <= a  BY <2>2, <2>4
    <3> QED  BY <2>2, <2>4, <3>1
  <2>9. Splits(n, 2 * a, h, b + a * e)  BY <2>2, <2>4, <2>7, <2>8 DEF Splits
  <2>10. n \div (2 * a) = h  BY <2>9, Division
  <2>11. n = Below(x, i + 1) + Pow2[i + 1] * (n \div Pow2[i + 1])  BY <2>2, <2>6, <2>7, <2>10
  <2> QED  BY <2>1, <2>11
<1> HIDE DEF S
<1>5. S = 0 .. k  BY <1>2, <1>3, <1>4, BoundedInd
<1>6. n = Below(x, k) + Pow2[k] * (n \div Pow2[k])  BY <1>5 DEF S
<1>7. n \div Pow2[k] = 0
  <2> DEFINE a == Pow2[k]
  <2>1. a \in Nat \ {0} /\ n < a  BY PowPositive
  <2> HIDE DEF a
  <2>2. Splits(n, a, 0, n)  BY <2>1 DEF Splits
  <2>3. n \div a = 0  BY <2>2, Division
  <2> QED  BY <2>3 DEF a
<1>8. Pow2[k] \in Nat /\ Below(x, k) \in Nat  BY <1>1, PowPositive, BelowTakes
<1>9. Val(x) = Below(x, k)
  <2>1. k \in 0 .. 32  OBVIOUS
  <2> QED  BY <1>1, <2>1, ValIsBelow
<1> QED  BY <1>1, <1>6, <1>7, <1>8, <1>9 DEF x

\* A word and its complement add up to ones.
LEMMA BelowNot ==
    ASSUME NEW x \in Word, NEW k \in 0 .. 32
    PROVE  Not(x) \in Word /\ Below(x, k) + Below(Not(x), k) = Pow2[k] - 1
<1> DEFINE y == Not(x)
           S == {i \in 0 .. 32 : Below(x, i) + Below(y, i) = Pow2[i] - 1}
<1>1. y \in Word /\ \A p \in Positions : p \in y <=> p \notin x  BY BitsOf
<1> HIDE DEF y
<1>2. S \in SUBSET (0 .. 32) /\ 0 \in S  BY <1>1, BelowTakes, PowTable
<1>3. ASSUME NEW i \in 0 .. 32 - 1, i \in S PROVE i + 1 \in S
  <2>1. i \in 0 .. 31 /\ i \in Positions /\ i + 1 \in 0 .. 32 /\ i + 1 \in Nat /\ i \in Nat /\ i \in 0 .. 32
    BY DEF Positions, MSB
  <2>2. Bit(x, i) + Bit(y, i) = 1 /\ Bit(x, i) \in {0, 1} /\ Bit(y, i) \in {0, 1}  BY <1>1, <2>1 DEF Bit
  <2>3. /\ Below(x, i + 1) = Below(x, i) + Pow2[i] * Bit(x, i) /\ Below(x, i) \in Nat
        /\ Below(y, i + 1) = Below(y, i) + Pow2[i] * Bit(y, i) /\ Below(y, i) \in Nat
    BY <1>1, <2>1, BelowTakes
  <2>4. Pow2[i + 1] = 2 * Pow2[i] /\ Pow2[i] \in Nat  BY <2>1, PowPositive, PowNext
  <2>5. Below(x, i) + Below(y, i) = Pow2[i] - 1  BY <1>3
  <2>6. CASE Bit(x, i) = 0 /\ Bit(y, i) = 1  BY <2>1, <2>3, <2>4, <2>5, <2>6
  <2>7. CASE Bit(x, i) = 1 /\ Bit(y, i) = 0  BY <2>1, <2>3, <2>4, <2>5, <2>7
  <2> QED  BY <2>2, <2>6, <2>7
<1> HIDE DEF S
<1>4. S = 0 .. 32  BY <1>2, <1>3, BoundedInd
<1> QED  BY <1>1, <1>4 DEF S, y

\* The adder: the carry into each position, and what has been added below it.
CarryBit(x, y, k) == IF Carry(x, y, k) THEN 1 ELSE 0

\* A carry comes of two ones, or of a one and a carry.
LEMMA CarryNext ==
    ASSUME NEW x \in Word, NEW y \in Word
    PROVE  /\ ~Carry(x, y, 0)
           /\ \A k \in 0 .. 30 : Carry(x, y, k + 1) <=> (k \in x /\ k \in y) \/ ((k \in x \/ k \in y) /\ Carry(x, y, k))
<1>1. ~Carry(x, y, 0)  BY DEF Carry
<1>2. ASSUME NEW k \in 0 .. 30, Carry(x, y, k + 1)
      PROVE  (k \in x /\ k \in y) \/ ((k \in x \/ k \in y) /\ Carry(x, y, k))
  <2>1. PICK q \in 0 .. k : q \in x \cap y /\ q + 1 .. k \subseteq x \cup y  BY <1>2 DEF Carry
  <2>2. CASE q = k  BY <2>1, <2>2
  <2>3. CASE q # k
    <3>1. q \in 0 .. k - 1 /\ k \in q + 1 .. k /\ q + 1 .. k - 1 \subseteq q + 1 .. k  BY <2>3
    <3> QED  BY <2>1, <3>1 DEF Carry
  <2> QED  BY <2>2, <2>3
<1>3. ASSUME NEW k \in 0 .. 30, k \in x /\ k \in y PROVE Carry(x, y, k + 1)
  <2>1. k \in 0 .. (k + 1) - 1 /\ k + 1 .. (k + 1) - 1 = {}  OBVIOUS
  <2> QED  BY <1>3, <2>1 DEF Carry
<1>4. ASSUME NEW k \in 0 .. 30, k \in x \/ k \in y, Carry(x, y, k) PROVE Carry(x, y, k + 1)
  <2>1. PICK q \in 0 .. k - 1 : q \in x \cap y /\ q + 1 .. k - 1 \subseteq x \cup y  BY <1>4 DEF Carry
  <2>2. q \in 0 .. (k + 1) - 1 /\ \A i \in q + 1 .. (k + 1) - 1 : i \in q + 1 .. k - 1 \/ i = k  OBVIOUS
  <2>3. q + 1 .. (k + 1) - 1 \subseteq x \cup y  BY <1>4, <2>1, <2>2
  <2> QED  BY <2>1, <2>2, <2>3 DEF Carry
<1> QED  BY <1>1, <1>2, <1>3, <1>4

\* What has been added below a position, with the carry into it.
LEMMA AddIs ==
    ASSUME NEW x \in Word, NEW y \in Word
    PROVE  /\ Add(x, y) \in Word
           /\ \A p \in Positions : p \in Add(x, y) <=> IF Carry(x, y, p) THEN p \in x <=> p \in y
                                                                       ELSE ~(p \in x <=> p \in y)
           /\ \A k \in 0 .. 31 : Below(Add(x, y), k) + Pow2[k] * CarryBit(x, y, k) = Below(x, k) + Below(y, k)
<1> DEFINE z == Add(x, y)
           S == {i \in 0 .. 31 : Below(z, i) + Pow2[i] * CarryBit(x, y, i) = Below(x, i) + Below(y, i)}
<1>1. z \in Word /\ \A p \in Positions : p \in z <=> IF Carry(x, y, p) THEN p \in x <=> p \in y
                                                                       ELSE ~(p \in x <=> p \in y)
  <2>1. ASSUME NEW p \in Positions
        PROVE  p \in z <=> IF Carry(x, y, p) THEN p \in x <=> p \in y ELSE ~(p \in x <=> p \in y)
    <3>1. p \in Xor(x, y) <=> ~(p \in x <=> p \in y)  BY BitsOf
    <3> QED  BY <3>1 DEF Add, Xor
  <2>2. z \in Word  BY DEF Add, Xor, Word
  <2> QED  BY <2>1, <2>2
<1> HIDE DEF z
<1>2. S \in SUBSET (0 .. 31) /\ 0 \in S
  <2>1. CarryBit(x, y, 0) = 0  BY CarryNext DEF CarryBit
  <2> QED  BY <1>1, <2>1, BelowTakes, PowTable
<1>3. ASSUME NEW i \in 0 .. 31 - 1, i \in S PROVE i + 1 \in S
  <2>1. i \in 0 .. 30 /\ i \in 0 .. 31 /\ i \in Positions /\ i + 1 \in 0 .. 31 /\ i + 1 \in Nat /\ i \in Nat /\ i \in 0 .. 32
    BY DEF Positions, MSB
  <2>2. Bit(x, i) + Bit(y, i) + CarryBit(x, y, i) = Bit(z, i) + 2 * CarryBit(x, y, i + 1)
    <3>1. i \in z <=> IF Carry(x, y, i) THEN i \in x <=> i \in y ELSE ~(i \in x <=> i \in y)  BY <1>1, <2>1
    <3>2. Carry(x, y, i + 1) <=> (i \in x /\ i \in y) \/ ((i \in x \/ i \in y) /\ Carry(x, y, i))
      BY <2>1, CarryNext
    <3>3. CASE Carry(x, y, i)  BY <3>1, <3>2, <3>3 DEF Bit, CarryBit
    <3>4. CASE ~Carry(x, y, i)  BY <3>1, <3>2, <3>4 DEF Bit, CarryBit
    <3> QED  BY <3>3, <3>4
  <2>3. /\ Below(x, i + 1) = Below(x, i) + Pow2[i] * Bit(x, i) /\ Below(x, i) \in Nat
        /\ Below(y, i + 1) = Below(y, i) + Pow2[i] * Bit(y, i) /\ Below(y, i) \in Nat
        /\ Below(z, i + 1) = Below(z, i) + Pow2[i] * Bit(z, i) /\ Below(z, i) \in Nat
    BY <1>1, <2>1, BelowTakes
  <2>4. Pow2[i + 1] = 2 * Pow2[i] /\ Pow2[i] \in Nat  BY <2>1, PowPositive, PowNext
  <2>5. Below(z, i) + Pow2[i] * CarryBit(x, y, i) = Below(x, i) + Below(y, i)  BY <1>3
  <2> DEFINE w == Pow2[i]
             u == CarryBit(x, y, i)
             v == CarryBit(x, y, i + 1)
             a == Bit(x, i)
             b == Bit(y, i)
             c == Bit(z, i)
  <2>6. a \in {0, 1} /\ b \in {0, 1} /\ c \in {0, 1} /\ u \in {0, 1} /\ v \in {0, 1} /\ w \in Nat
    BY <2>4 DEF Bit, CarryBit
  <2> HIDE DEF w, u, v, a, b, c
  <2>7. w * c + (2 * w) * v = (w * a + w * b) + w * u
    <3>1. a + b + u = c + 2 * v  BY <2>2 DEF u, v, a, b, c
    <3>2. w * (a + b + u) = w * (c + 2 * v)  BY <3>1
    <3>3. w * (a + b + u) = (w * a + w * b) + w * u /\ w * (c + 2 * v) = w * c + (2 * w) * v  BY <2>6
    <3> QED  BY <3>2, <3>3
  <2>8. w * a \in Nat /\ w * b \in Nat /\ w * c \in Nat /\ w * u \in Nat /\ (2 * w) * v \in Nat  BY <2>6
  <2>9. Below(z, i + 1) + Pow2[i + 1] * v = Below(x, i + 1) + Below(y, i + 1)
    BY <2>3, <2>4, <2>5, <2>7, <2>8 DEF w, u, v, a, b, c
  <2> QED  BY <2>1, <2>9 DEF v
<1> HIDE DEF S
<1>4. S = 0 .. 31  BY <1>2, <1>3, BoundedInd
<1> QED  BY <1>1, <1>4 DEF S, z

---------------------------------------------------------------------------
(* The number of a word with its sign. *)

Half == Pow2[31]
Num(x) == Below(x, 31) - (IF 31 \in x THEN Half ELSE 0)

\* The range of a number, and its sign bit.
LEMMA NumIs ==
    ASSUME NEW x \in Word
    PROVE  /\ Half \in Nat \ {0} /\ Below(x, 31) \in Nat /\ Below(x, 31) < Half
           /\ Num(x) \in Int /\ -Half <= Num(x) /\ Num(x) < Half
           /\ 31 \in x => Num(x) = Below(x, 31) - Half /\ Num(x) < 0
           /\ 31 \notin x => Num(x) = Below(x, 31) /\ Num(x) >= 0
<1>1. Half \in Nat \ {0} /\ Below(x, 31) \in Nat /\ Below(x, 31) < Half  BY PowPositive, BelowTakes, BelowBound DEF Half
<1>2. CASE 31 \in x  BY <1>1, <1>2 DEF Num
<1>3. CASE 31 \notin x  BY <1>1, <1>3 DEF Num
<1> QED  BY <1>2, <1>3

\* Only the word without ones is 0.
LEMMA OnlyZero == ASSUME NEW x \in Word PROVE /\ Val(x) = 0 <=> x = {}
                                              /\ Num(x) = 0 <=> x = {}
<1>1. ASSUME NEW y \in Word PROVE Val(y) = 0 <=> y = {}
  <2>1. y = {} => Val(y) = 0  BY ValTakes
  <2>2. ASSUME NEW p \in y PROVE Val(y) # 0
    <3>1. Val(y) = Pow2[p] + Val(y \ {p}) /\ Val(y \ {p}) \in Nat  BY ValTakes
    <3>2. p \in Nat  BY DEF Word, Positions, MSB
    <3>3. Pow2[p] \in Nat \ {0}  BY <3>2, PowPositive
    <3> QED  BY <3>1, <3>3
  <2> QED  BY <2>1, <2>2
<1>2. Num(x) = 0 <=> x = {}
  <2>1. x \cap 0 .. 31 - 1 \in Word  BY DEF Word
  <2>2. Below(x, 31) = 0 <=> x \cap 0 .. 31 - 1 = {}  BY <1>1, <2>1 DEF Below
  <2>3. 31 \notin x => x \cap 0 .. 31 - 1 = x
    <3>1. x \in SUBSET (0 .. 31) /\ \A p \in 0 .. 31 : p \in 0 .. 31 - 1 \/ p = 31  BY DEF Word, Positions, MSB
    <3> QED  BY <3>1, Zenon
  <2>4. Num(x) = 0 => 31 \notin x /\ Below(x, 31) = 0  BY NumIs
  <2>5. x = {} => 31 \notin x /\ Below(x, 31) = 0  BY <2>2
  <2>6. 31 \notin x /\ Below(x, 31) = 0 => Num(x) = 0  BY NumIs
  <2> QED  BY <2>2, <2>3, <2>4, <2>5, <2>6
<1> QED  BY <1>1, <1>2

\* The two digits of a number.
LEMMA NumDigits ==
    ASSUME NEW x \in Word
    PROVE  /\ High(x) \in Int
           /\ Low(x) \in Nat /\ Low(x) < 65536
           /\ Num(x) = 65536 * High(x) + Low(x)
<1> DEFINE d == Down(x, 16)
<1>1. d \in Word /\ Below(x, 31) = Below(x, 16) + Pow2[16] * Below(d, 31 - 16)  BY ValSplits
<1>2. {p - 16 : p \in x \cap 16 .. 30} = d \cap 0 .. 15 - 1
  <2>1. ASSUME NEW p \in x \cap 16 .. 30 PROVE p - 16 \in d \cap 0 .. 15 - 1
    <3>1. (p - 16) + 16 = p /\ p - 16 \in Positions /\ p - 16 \in 0 .. 15 - 1  BY DEF Positions, MSB
    <3> QED  BY <3>1 DEF Down
  <2>2. ASSUME NEW q \in d \cap 0 .. 15 - 1 PROVE \E p \in x \cap 16 .. 30 : q = p - 16
    <3>1. q + 16 \in x /\ q + 16 \in 16 .. 30 /\ q = (q + 16) - 16  BY DEF Down
    <3> QED  BY <3>1
  <2> QED  BY <2>1, <2>2
<1> HIDE DEF d
<1>3. /\ Below(d, 15) \in Nat /\ Below(d, 15) < 32768
      /\ Below(x, 16) \in Nat /\ Below(x, 16) < 65536
  <2>1. Pow2[15] = 32768 /\ Pow2[16] = 65536  BY PowTable, SMT
  <2>2. /\ Below(d, 15) \in Nat /\ Below(d, 15) < Pow2[15]
        /\ Below(x, 16) \in Nat /\ Below(x, 16) < Pow2[16]
    BY <1>1, BelowTakes, BelowBound
  <2> QED  BY <2>1, <2>2
<1>4. Low(x) = Below(x, 16)
  <2>1. 0 .. 16 - 1 = 0 .. 15  OBVIOUS
  <2> QED  BY <2>1 DEF Low, Below
<1>5. High(x) = Below(d, 15) - (IF 31 \in x THEN 32768 ELSE 0)
  <2>1. Base \div 2 = 32768  BY DEF Base
  <2>2. High(x) = Val({p - 16 : p \in x \cap 16 .. 30}) - (IF 31 \in x THEN 32768 ELSE 0)
    BY <2>1, SMT DEF High, MSB
  <2> QED  BY <1>2, <2>2, SMT DEF Below
<1>6. Below(x, 31) = Below(x, 16) + 65536 * Below(d, 15)
  <2>1. Pow2[16] = 65536 /\ 31 - 16 = 15  BY PowTable, SMT
  <2> QED  BY <1>1, <2>1
<1>7. Half = 65536 * 32768  BY PowTable, SMT DEF Half
<1>8. CASE 31 \in x  BY <1>3, <1>4, <1>5, <1>6, <1>7, <1>8, NumIs, SMT
<1>9. CASE 31 \notin x  BY <1>3, <1>4, <1>5, <1>6, <1>9, NumIs, SMT
<1> QED  BY <1>8, <1>9

\* Less compares numbers.
LEMMA LessIs == ASSUME NEW x \in Word, NEW y \in Word PROVE Less(x, y) <=> Num(x) < Num(y)
<1>1. High(x) \in Int /\ Low(x) \in Nat /\ Low(x) < 65536 /\ Num(x) = 65536 * High(x) + Low(x)
  BY NumDigits, SMT
<1>2. High(y) \in Int /\ Low(y) \in Nat /\ Low(y) < 65536 /\ Num(y) = 65536 * High(y) + Low(y)
  BY NumDigits, SMT
<1> QED  BY <1>1, <1>2, SMT DEF Less

\* A number has its digits in one way only.
LEMMA SameDigits ==
    \A b \in Nat \ {0} : \A h, k \in Int : \A l, m \in Nat :
        l < b /\ m < b /\ b * h + l = b * k + m => h = k /\ l = m
<1> SUFFICES ASSUME NEW b \in Nat \ {0}, NEW h \in Int, NEW k \in Int, NEW l \in Nat, NEW m \in Nat,
                    l < b, m < b, b * h + l = b * k + m
             PROVE  h = k /\ l = m
  OBVIOUS
<1>1. Splits(b * h + l, b, h, l) /\ Splits(b * k + m, b, k, m)  BY DEF Splits
<1> QED  BY <1>1, Division

\* Two digits are those of the number they make.
LEMMA DigitsAre ==
    ASSUME NEW h \in Int, NEW l \in Int
    PROVE  /\ InRange(Digits(h, l)) <=> -Half <= 65536 * h + l /\ 65536 * h + l < Half
           /\ 65536 * h + l >= Half => Digits(h, l)[1] > 0
           /\ 65536 * h + l < 0 => ~(Digits(h, l)[1] > 0)
           /\ \A x \in Word : Num(x) = 65536 * h + l => <<High(x), Low(x)>> = Digits(h, l)
<1> DEFINE q == l \div 65536
           r == l % 65536
<1>1. q \in Int /\ r \in Nat /\ r < 65536 /\ l = 65536 * q + r  OBVIOUS
<1>2. Digits(h, l) = <<h + q, r>>  BY DEF Digits, Base
<1> HIDE DEF q, r
<1>3. 65536 * h + l = 65536 * (h + q) + r  BY <1>1
<1>4. Base \div 2 = 32768  BY DEF Base
<1>5. InRange(Digits(h, l)) <=> -32768 <= h + q /\ h + q < 32768
  <2>1. InRange(<<h + q, r>>) <=> h + q \in -(Base \div 2) .. (Base \div 2) - 1  BY DEF InRange
  <2>2. \A b \in Int : h + q \in -b .. b - 1 <=> -b <= h + q /\ h + q < b  BY <1>1
  <2>3. Base \div 2 \in Int  BY <1>4, SMT
  <2>4. InRange(<<h + q, r>>) <=> -(Base \div 2) <= h + q /\ h + q < Base \div 2  BY <2>1, <2>2, <2>3
  <2> QED  BY <1>2, <1>4, <2>4, SMT
<1>6. \A x \in Word : Num(x) = 65536 * h + l => High(x) = h + q /\ Low(x) = r
  <2> SUFFICES ASSUME NEW x \in Word, Num(x) = 65536 * h + l PROVE High(x) = h + q /\ Low(x) = r
    OBVIOUS
  <2>1. High(x) \in Int /\ Low(x) \in Nat /\ Low(x) < 65536 /\ Num(x) = 65536 * High(x) + Low(x)  BY NumDigits
  <2>2. 65536 * High(x) + Low(x) = 65536 * (h + q) + r  BY <1>3, <2>1
  <2>3. h + q \in Int  BY <1>1
  <2> QED  BY <1>1, <2>1, <2>2, <2>3, SameDigits, SMT
<1>7. Half = 65536 * 32768  BY PowTable, SMT DEF Half
<1>8. InRange(Digits(h, l)) <=> -Half <= 65536 * h + l /\ 65536 * h + l < Half
  BY <1>1, <1>3, <1>5, <1>7, SMT
<1>9. /\ 65536 * h + l >= Half => h + q > 0
      /\ 65536 * h + l < 0 => ~(h + q > 0)
  BY <1>1, <1>3, <1>7, SMT
<1> QED  BY <1>2, <1>6, <1>8, <1>9, SMT

\* Signed addition, negation and subtraction, modulo 2^32.
Wraps(z, n) == n \in Int /\ Num(z) \in {n, n + 2 * Half, n - 2 * Half}

\* The word a sum wraps to.
LEMMA NumAdd ==
    ASSUME NEW x \in Word, NEW y \in Word
    PROVE  Add(x, y) \in Word /\ Wraps(Add(x, y), Num(x) + Num(y))
<1> DEFINE z == Add(x, y)
<1>1. z \in Word /\ Below(z, 31) + Half * CarryBit(x, y, 31) = Below(x, 31) + Below(y, 31)  BY AddIs DEF Half
<1>2. 31 \in z <=> IF Carry(x, y, 31) THEN 31 \in x <=> 31 \in y ELSE ~(31 \in x <=> 31 \in y)
  BY AddIs DEF Positions, MSB
<1> HIDE DEF z
<1>3. Num(x) + Num(y) \in Int  BY NumIs
<1>4. CASE Carry(x, y, 31)
  <2>1. Below(z, 31) + Half = Below(x, 31) + Below(y, 31)  BY <1>1, <1>4, NumIs DEF CarryBit
  <2>2. 31 \in z <=> (31 \in x <=> 31 \in y)  BY <1>2, <1>4
  <2> QED  BY <1>1, <1>3, <2>1, <2>2, NumIs DEF Wraps, z
<1>5. CASE ~Carry(x, y, 31)
  <2>1. Below(z, 31) = Below(x, 31) + Below(y, 31)  BY <1>1, <1>5, NumIs DEF CarryBit
  <2>2. 31 \in z <=> ~(31 \in x <=> 31 \in y)  BY <1>2, <1>5
  <2> QED  BY <1>1, <1>3, <2>1, <2>2, NumIs DEF Wraps, z
<1> QED  BY <1>4, <1>5

\* ~x is -1 - x.
LEMMA NumNot == ASSUME NEW x \in Word PROVE Not(x) \in Word /\ Num(Not(x)) = -1 - Num(x)
<1> DEFINE y == Not(x)
<1>1. y \in Word /\ Below(x, 31) + Below(y, 31) = Half - 1  BY BelowNot DEF Half
<1>2. 31 \in y <=> 31 \notin x
  <2>1. 31 \in Positions  BY DEF Positions, MSB
  <2> QED  BY <2>1, BitsOf
<1> HIDE DEF y
<1> QED  BY <1>1, <1>2, NumIs DEF y

\* A single one.
LEMMA ValPower == ASSUME NEW p \in Positions PROVE {p} \in Word /\ Val({p}) = Pow2[p]
<1>1. {p} \in Word /\ {p} \ {p} = {}  BY DEF Word
<1>2. p \in Nat  BY DEF Positions, MSB
<1>3. Pow2[p] \in Nat  BY <1>2, PowPositive
<1> QED  BY <1>1, <1>3, ValTakes

\* 1 is 1.
LEMMA NumOne == One \in Word /\ Num(One) = 1
<1>1. One \cap 0 .. 31 - 1 = {0} /\ 0 \in Positions /\ 31 \notin One  BY DEF One, Positions, MSB
<1>2. Below(One, 31) = 1  BY <1>1, ValPower, PowStep DEF Below
<1> QED  BY <1>1, <1>2, BitsOf, NumIs

\* The word a difference wraps to: x + (~y + 1) is also right where y has no negative.
LEMMA NumSub ==
    ASSUME NEW x \in Word, NEW y \in Word
    PROVE  Sub(x, y) \in Word /\ Wraps(Sub(x, y), Num(x) - Num(y))
<1> DEFINE n == Not(y)
           m == Add(n, One)
           z == Add(x, m)
<1>1. n \in Word /\ Num(n) = -1 - Num(y)  BY NumNot
<1>2. One \in Word /\ Num(One) = 1  BY NumOne
<1>3. m \in Word /\ Wraps(m, Num(n) + Num(One))
  <2> HIDE DEF n
  <2> QED  BY <1>1, <1>2, NumAdd
<1>4. z \in Word /\ Wraps(z, Num(x) + Num(m))
  <2> HIDE DEF m
  <2> QED  BY <1>3, NumAdd
<1>5. Sub(x, y) = z  BY DEF Sub
<1> HIDE DEF n, m, z
<1>6. /\ Num(x) \in Int /\ -Half <= Num(x) /\ Num(x) < Half
      /\ Num(y) \in Int /\ -Half <= Num(y) /\ Num(y) < Half
      /\ Num(z) \in Int /\ -Half <= Num(z) /\ Num(z) < Half
      /\ Num(m) \in Int /\ Half \in Nat
  BY <1>3, <1>4, NumIs
<1>7. Num(m) \in {-Num(y), -Num(y) + 2 * Half, -Num(y) - 2 * Half}  BY <1>1, <1>2, <1>3, <1>6 DEF Wraps
<1>8. Num(z) \in {Num(x) + Num(m), Num(x) + Num(m) + 2 * Half, Num(x) + Num(m) - 2 * Half}
  BY <1>4, <1>6 DEF Wraps
<1> QED  BY <1>4, <1>5, <1>6, <1>7, <1>8 DEF Wraps

---------------------------------------------------------------------------
(* Puzzles on numbers. *)

\* A mask of the sign.
LEMMA SignCopies == ASSUME NEW x \in Word PROVE Sar(x, 31) = IF 31 \in x THEN Positions ELSE {}
<1>1. Sar(x, 31) \in Word  BY SarIs
<1>2. ASSUME NEW p \in Positions PROVE p \in Sar(x, 31) <=> 31 \in x
  <2>1. p \in Nat /\ (p + 31 <= 31 => p + 31 = 31)  BY DEF Positions, MSB
  <2>2. p \in Sar(x, 31) <=> IF p + 31 <= 31 THEN p + 31 \in x ELSE 31 \in x  BY SarIs
  <2> QED  BY <2>1, <2>2
<1> QED  BY <1>1, <1>2 DEF Word

\* ! and !! tell zero from the rest.
LEMMA BangIs == \A x : Bang(x) = TruthOf(x = Zero) /\ Bang(Bang(x)) = TruthOf(x # Zero)
BY DEF Bang, TruthOf, Zero, One

\* isEqual is equality.
LEMMA isEqualRight == ASSUME NEW x \in Word, NEW y \in Word PROVE isEqual(x, y) = TruthOf(x = y)
<1>1. Xor(x, y) = Zero <=> x = y  BY DEF Xor, Zero
<1> QED  BY <1>1, BangIs DEF isEqual, TruthOf

\* Nothing is carried when one of the words has no ones.
LEMMA AddZero == ASSUME NEW x \in Word PROVE Add(x, {}) = x /\ Add({}, x) = x
<1>1. \A p : ~Carry(x, {}, p) /\ ~Carry({}, x, p)  BY DEF Carry
<1> QED  BY <1>1 DEF Add, Xor

\* x + tmax reaches the sign bit, or x has it, when x is not zero.
LEMMA logicalNegRight == ASSUME NEW x \in Word PROVE logicalNeg(x) = TruthOf(x = Zero)
<1> DEFINE w == Or(Add(x, tmax), x)
<1>1. tmax = 0 .. 30 /\ tmax \in Word  BY Masks DEF Word, Positions, MSB
<1>2. w \in Word /\ \A p \in Positions : p \in w <=> p \in Add(x, tmax) \/ p \in x
  <2>1. Add(x, tmax) \in Word  BY <1>1, AddIs
  <2> QED  BY <2>1, BitsOf
<1>3. 31 \in Positions /\ 31 \notin tmax  BY <1>1 DEF Positions, MSB
<1>4. CASE x = Zero
  <2>1. Add(x, tmax) = tmax  BY <1>1, <1>4, AddZero DEF Zero
  <2>2. 31 \notin w  BY <1>2, <1>3, <1>4, <2>1 DEF Zero
  <2> HIDE DEF w
  <2>3. Sar(w, 31) = {}  BY <1>2, <2>2, SignCopies
  <2>4. logicalNeg(x) = Add({}, One)  BY <2>3 DEF logicalNeg, w
  <2> QED  BY <1>4, <2>4, AddZero, BitsOf DEF TruthOf
<1>5. CASE x # Zero
  <2>1. 31 \in w
    <3>1. SUFFICES ASSUME 31 \notin x PROVE 31 \in Add(x, tmax)  BY <1>2, <1>3
    <3>2. PICK q \in x : q \in 0 .. 30
      <4>1. PICK q \in x : TRUE  BY <1>5 DEF Zero
      <4>2. q \in 0 .. 31 /\ q # 31  BY <3>1 DEF Word, Positions, MSB
      <4>3. q \in 0 .. 30  BY <4>2
      <4> QED  BY <4>3
    <3>3. q \in 0 .. 31 - 1 /\ q \in x \cap tmax /\ q + 1 .. 31 - 1 \subseteq x \cup tmax  BY <1>1, <3>2
    <3>4. Carry(x, tmax, 31)  BY <3>3 DEF Carry
    <3>5. 31 \in Add(x, tmax) <=> (31 \in x <=> 31 \in tmax)  BY <1>1, <1>3, <3>4, AddIs
    <3> QED  BY <1>3, <3>1, <3>5
  <2> HIDE DEF w
  <2>2. Sar(w, 31) = Positions  BY <1>2, <2>1, SignCopies
  <2>3. logicalNeg(x) = Add(Positions, One)  BY <2>2 DEF logicalNeg, w
  <2>4. Positions \in Word /\ One \in Word /\ \A p \in Positions : p \in One <=> p = 0
    BY DEF Word, One, Positions, MSB
  <2>5. ASSUME NEW p \in Positions PROVE p \notin Add(Positions, One)
    <3>1. CASE p = 0
      <4>1. ~Carry(Positions, One, 0)  BY <2>4, CarryNext
      <4> QED  BY <2>4, <3>1, <4>1, AddIs
    <3>2. CASE p # 0
      <4>1. 0 \in 0 .. p - 1 /\ 0 \in Positions \cap One /\ 0 + 1 .. p - 1 \subseteq Positions
        BY <2>4, <3>2 DEF Positions, MSB
      <4>2. Carry(Positions, One, p)  BY <4>1 DEF Carry
      <4> QED  BY <2>4, <3>2, <4>2, AddIs
    <3> QED  BY <3>1, <3>2
  <2>6. Add(Positions, One) = {}  BY <2>4, <2>5, AddIs DEF Word
  <2> QED  BY <1>5, <2>3, <2>6 DEF TruthOf, Zero
<1> QED  BY <1>4, <1>5

\* 0 is 0.
LEMMA NumZero == Zero \in Word /\ Num(Zero) = 0
BY BitsOf, OnlyZero DEF Zero

\* sign is -1, 0 or 1.
LEMMA signRight ==
    ASSUME NEW x \in Word
    PROVE  sign(x) = IF Less(x, Zero) THEN Positions ELSE TruthOf(x # Zero)
<1>1. Less(x, Zero) <=> 31 \in x  BY LessIs, NumZero, NumIs
<1>2. Sar(x, 31) = IF 31 \in x THEN Positions ELSE {}  BY SignCopies
<1>3. TruthOf(x # Zero) \in SUBSET Positions  BY DEF TruthOf, One, Zero, Positions, MSB
<1>4. sign(x) = TruthOf(x # Zero) \cup Sar(x, 31)  BY BangIs DEF sign, Or
<1> QED  BY <1>1, <1>2, <1>3, <1>4

\* The overflow of a subtraction shows in the signs.
SubFits(x, y) == -Half <= Num(x) - Num(y) /\ Num(x) - Num(y) < Half

\* SubOverflow is set exactly when the difference is out of range.
LEMMA SubOverflowIs ==
    ASSUME NEW x \in Word, NEW y \in Word
    PROVE  /\ Sub(x, y) \in Word
           /\ SubOverflow(x, y) = IF SubFits(x, y) THEN {} ELSE Positions
           /\ SubFits(x, y) => Num(Sub(x, y)) = Num(x) - Num(y)
           /\ ~SubFits(x, y) => (Num(Sub(x, y)) < 0 <=> Num(x) - Num(y) > 0) /\ Num(Sub(x, y)) # 0
<1> DEFINE z == Sub(x, y)
           w == And(Xor(x, y), Xor(x, z))
<1>1. z \in Word /\ Wraps(z, Num(x) - Num(y))  BY NumSub
<1> HIDE DEF z
<1>2. w \in Word /\ (31 \in w <=> ~(31 \in x <=> 31 \in y) /\ ~(31 \in x <=> 31 \in z))
  <2>1. Xor(x, y) \in Word /\ Xor(x, z) \in Word  BY <1>1, BitsOf
  <2>2. 31 \in Positions  BY DEF Positions, MSB
  <2> QED  BY <1>1, <2>1, <2>2, BitsOf
<1> HIDE DEF w
<1>3. SubOverflow(x, y) = Sar(w, 31)  BY DEF SubOverflow, w, z
<1>4. /\ Num(x) \in Int /\ -Half <= Num(x) /\ Num(x) < Half /\ (31 \in x <=> Num(x) < 0)
      /\ Num(y) \in Int /\ -Half <= Num(y) /\ Num(y) < Half /\ (31 \in y <=> Num(y) < 0)
      /\ Num(z) \in Int /\ -Half <= Num(z) /\ Num(z) < Half /\ (31 \in z <=> Num(z) < 0)
      /\ Half \in Nat \ {0}
  BY <1>1, NumIs
<1>5. Num(z) \in {Num(x) - Num(y), (Num(x) - Num(y)) + 2 * Half, (Num(x) - Num(y)) - 2 * Half}
  BY <1>1 DEF Wraps
<1>6. 31 \in w <=> ~SubFits(x, y)  BY <1>2, <1>4, <1>5 DEF SubFits
<1>7. SubOverflow(x, y) = IF SubFits(x, y) THEN {} ELSE Positions  BY <1>2, <1>3, <1>6, SignCopies
<1>8. SubFits(x, y) => Num(z) = Num(x) - Num(y)  BY <1>4, <1>5 DEF SubFits
<1>9. ~SubFits(x, y) => (Num(z) < 0 <=> Num(x) - Num(y) > 0) /\ Num(z) # 0  BY <1>4, <1>5 DEF SubFits
<1> QED  BY <1>1, <1>7, <1>8, <1>9 DEF z

\* isGreater compares, also where the difference overflows.
LEMMA isGreaterRight ==
    ASSUME NEW x \in Word, NEW y \in Word
    PROVE  isGreater(x, y) = TruthOf(Less(y, x))
<1> DEFINE z == Sub(x, y)
           v == And(z, Not(Sar(z, 31)))
<1>1. z \in Word /\ Num(x) \in Int /\ Num(y) \in Int  BY SubOverflowIs, NumIs
<1> HIDE DEF z
<1>2. v = IF 31 \in z THEN {} ELSE z
  <2>1. Sar(z, 31) = IF 31 \in z THEN Positions ELSE {}  BY <1>1, SignCopies
  <2> QED  BY <1>1, <2>1 DEF And, Not, Word
<1> HIDE DEF v
<1>3. v # Zero <=> Num(z) > 0  BY <1>1, <1>2, OnlyZero, NumIs DEF Zero
<1>4. isGreater(x, y) = Xor(TruthOf(v # Zero), And(SubOverflow(x, y), One))
  BY BangIs DEF isGreater, v, z
<1>5. Less(y, x) <=> Num(y) < Num(x)  BY LessIs
<1>6. Num(z) \in Int  BY <1>1, NumIs
<1>7. CASE SubFits(x, y)
  <2>1. SubOverflow(x, y) = {} /\ Num(z) = Num(x) - Num(y)  BY <1>7, SubOverflowIs DEF z
  <2>2. v # Zero <=> Less(y, x)  BY <1>1, <1>3, <1>5, <2>1
  <2> QED  BY <1>4, <2>1, <2>2 DEF Xor, And, TruthOf, Zero, One
<1>8. CASE ~SubFits(x, y)
  <2>1. SubOverflow(x, y) = Positions  BY <1>8, SubOverflowIs
  <2>2. (Num(z) < 0 <=> Num(x) - Num(y) > 0) /\ Num(z) # 0  BY <1>8, SubOverflowIs DEF z
  <2>3. v # Zero <=> ~Less(y, x)  BY <1>1, <1>3, <1>5, <1>6, <2>2
  <2>4. And(Positions, One) = One  BY DEF And, One, Positions, MSB
  <2> QED  BY <1>4, <2>1, <2>3, <2>4 DEF Xor, TruthOf, Zero, One
<1> QED  BY <1>7, <1>8

\* subOK sees the overflows and nothing else.
LEMMA subOKRight ==
    ASSUME NEW x \in Word, NEW y \in Word
    PROVE  subOK(x, y) = TruthOf(InRange(Digits(High(x) - High(y), Low(x) - Low(y))))
<1> DEFINE h == High(x) - High(y)
           l == Low(x) - Low(y)
<1>1. High(x) \in Int /\ Low(x) \in Nat /\ Num(x) = 65536 * High(x) + Low(x)  BY NumDigits, SMT
<1>2. High(y) \in Int /\ Low(y) \in Nat /\ Num(y) = 65536 * High(y) + Low(y)  BY NumDigits, SMT
<1>3. h \in Int /\ l \in Int /\ 65536 * h + l = Num(x) - Num(y)  BY <1>1, <1>2, SMT
<1> HIDE DEF h, l
<1>4. InRange(Digits(h, l)) <=> SubFits(x, y)
  <2>1. InRange(Digits(h, l)) <=> -Half <= 65536 * h + l /\ 65536 * h + l < Half  BY <1>3, DigitsAre, SMT
  <2> QED  BY <1>3, <2>1, SMT DEF SubFits
<1>5. SubOverflow(x, y) = Zero <=> SubFits(x, y)
  <2>1. Positions # {}  BY DEF Positions, MSB
  <2> QED  BY <2>1, SubOverflowIs DEF Zero
<1>6. subOK(x, y) = TruthOf(SubOverflow(x, y) = Zero)  BY BangIs DEF subOK
<1> QED  BY <1>4, <1>5, <1>6 DEF TruthOf, h, l

\* satAdd adds, or gives the end of the range that the sum is beyond.
LEMMA satAddRight ==
    ASSUME NEW x \in Word, NEW y \in Word
    PROVE  LET sum == Digits(High(x) + High(y), Low(x) + Low(y))
           IN IF InRange(sum) THEN <<High(satAdd(x, y)), Low(satAdd(x, y))>> = sum
              ELSE satAdd(x, y) = IF sum[1] > 0 THEN Positions \ {MSB} ELSE {MSB}
<1> DEFINE h == High(x) + High(y)
           l == Low(x) + Low(y)
           z == Add(x, y)
           w == And(Not(Xor(x, y)), Xor(x, z))
           o == Sar(w, 31)
           e == Xor(Sar(z, 31), Shl(One, 31))
           fits == -Half <= Num(x) + Num(y) /\ Num(x) + Num(y) < Half
<1>1. High(x) \in Int /\ Low(x) \in Nat /\ Num(x) = 65536 * High(x) + Low(x)  BY NumDigits, SMT
<1>2. High(y) \in Int /\ Low(y) \in Nat /\ Num(y) = 65536 * High(y) + Low(y)  BY NumDigits, SMT
<1>3. h \in Int /\ l \in Int /\ 65536 * h + l = Num(x) + Num(y)  BY <1>1, <1>2, SMT
<1>4. z \in Word /\ Wraps(z, Num(x) + Num(y))  BY NumAdd
<1>5. satAdd(x, y) = Add(And(e, o), And(z, Not(o)))  BY Zenon DEF satAdd
<1> HIDE DEF h, l, z
<1>6. w \in Word /\ (31 \in w <=> (31 \in x <=> 31 \in y) /\ ~(31 \in x <=> 31 \in z))
  <2>1. Xor(x, y) \in Word /\ Xor(x, z) \in Word /\ Not(Xor(x, y)) \in Word  BY <1>4, BitsOf
  <2>2. 31 \in Positions  BY DEF Positions, MSB
  <2>3. (31 \in Not(Xor(x, y)) <=> (31 \in x <=> 31 \in y)) /\ (31 \in Xor(x, z) <=> ~(31 \in x <=> 31 \in z))
    BY <1>4, <2>1, <2>2, BitsOf
  <2> QED  BY <2>1, <2>2, <2>3, BitsOf
<1> HIDE DEF w
<1>7. /\ Num(x) \in Int /\ -Half <= Num(x) /\ Num(x) < Half /\ (31 \in x <=> Num(x) < 0)
      /\ Num(y) \in Int /\ -Half <= Num(y) /\ Num(y) < Half /\ (31 \in y <=> Num(y) < 0)
      /\ Num(z) \in Int /\ -Half <= Num(z) /\ Num(z) < Half /\ (31 \in z <=> Num(z) < 0)
      /\ Half \in Nat \ {0}
  BY <1>4, NumIs
<1>8. Num(z) \in {Num(x) + Num(y), (Num(x) + Num(y)) + 2 * Half, (Num(x) + Num(y)) - 2 * Half}
  BY <1>4 DEF Wraps
<1>9. /\ 31 \in w <=> ~fits
      /\ fits => Num(z) = Num(x) + Num(y)
      /\ ~fits => (31 \in z <=> Num(x) + Num(y) >= Half) /\ (31 \notin z <=> Num(x) + Num(y) < 0)
  BY <1>6, <1>7, <1>8
<1>10. o = IF fits THEN {} ELSE Positions  BY <1>6, <1>9, SignCopies
<1>11. e = IF 31 \in z THEN Positions \ {MSB} ELSE {MSB}
  <2>1. Sar(z, 31) = IF 31 \in z THEN Positions ELSE {}  BY <1>4, SignCopies
  <2>2. Shl(One, 31) = {MSB} /\ MSB \in Positions  BY DEF Shl, One, Positions, MSB
  <2> QED  BY <2>1, <2>2 DEF Xor
<1> HIDE DEF o, e
<1>12. /\ InRange(Digits(h, l)) <=> -Half <= 65536 * h + l /\ 65536 * h + l < Half
       /\ 65536 * h + l >= Half => Digits(h, l)[1] > 0
       /\ 65536 * h + l < 0 => ~(Digits(h, l)[1] > 0)
       /\ \A v \in Word : Num(v) = 65536 * h + l => <<High(v), Low(v)>> = Digits(h, l)
  BY <1>3, DigitsAre, SMT
<1>13. InRange(Digits(h, l)) <=> fits  BY <1>3, <1>12, SMT
<1>14. CASE fits
  <2>1. And(e, o) = {} /\ And(z, Not(o)) = z  BY <1>4, <1>10, <1>14 DEF And, Not, Word
  <2>2. satAdd(x, y) = z  BY <1>4, <1>5, <2>1, AddZero
  <2>3. <<High(z), Low(z)>> = Digits(h, l)  BY <1>3, <1>4, <1>9, <1>12, <1>14, SMT
  <2> QED  BY <1>13, <1>14, <2>2, <2>3 DEF h, l
<1>15. CASE ~fits
  <2>1. e \in Word  BY <1>11 DEF Word, Positions, MSB
  <2>2. And(e, o) = e /\ And(z, Not(o)) = {}  BY <1>4, <1>10, <1>15, <2>1 DEF And, Not, Word
  <2>3. satAdd(x, y) = e  BY <1>5, <2>1, <2>2, AddZero
  <2>4. Digits(h, l)[1] > 0 <=> 31 \in z  BY <1>3, <1>9, <1>12, <1>15, SMT
  <2> HIDE DEF fits
  <2> QED  BY <1>11, <1>13, <1>15, <2>3, <2>4 DEF h, l
<1> QED  BY <1>14, <1>15

\* tmax is the largest number.
LEMMA tmaxRight == ASSUME NEW x \in Word PROVE ~Less(tmax, x)
<1>1. tmax = 0 .. 30 /\ tmax \in Word  BY Masks DEF Word, Positions, MSB
<1>2. Not(tmax) = {31}  BY <1>1 DEF Not, Positions, MSB
<1>3. Below({31}, 31) = 0
  <2>1. {31} \cap 0 .. 31 - 1 = {}  OBVIOUS
  <2> QED  BY <2>1, ValTakes DEF Below
<1>4. Below(tmax, 31) + Below({31}, 31) = Half - 1  BY <1>1, <1>2, BelowNot DEF Half
<1>5. 31 \notin tmax  BY <1>1
<1>6. Num(tmax) = Half - 1  BY <1>1, <1>3, <1>4, <1>5, NumIs
<1>7. Num(x) < Half /\ Num(x) \in Int /\ Half \in Nat  BY NumIs
<1> QED  BY <1>1, <1>6, <1>7, LessIs

---------------------------------------------------------------------------
(* The search for the highest one. *)

IsTop(w, h) == h \in w /\ \A p \in w : p <= h

\* One step of the search: the part with the highest one is kept.
LEMMA Halving ==
    ASSUME NEW w \in Word, 31 \notin w, NEW k \in {1, 2, 4, 8, 16}, w \in SUBSET (0 .. 2 * k - 1),
           NEW mask, And(w, mask) = {p \in w : p >= k}
    PROVE  LET s == HalfWithTop(w, mask, k)
               d == Sar(w, s)
           IN /\ s \in {0, k} /\ d \in Word /\ 31 \notin d /\ d \in SUBSET (0 .. k - 1)
              /\ w = {} => s = 0 /\ d = {}
              /\ \A h \in Positions : IsTop(w, h) => IsTop(d, h - s)
<1> DEFINE s == HalfWithTop(w, mask, k)
           d == Sar(w, s)
<1>1. s = IF \E p \in w : p >= k THEN k ELSE 0  BY DEF HalfWithTop, Zero
<1>2. s \in {0, k} /\ s \in Nat  BY <1>1
<1> HIDE DEF s
<1>3. d \in Word /\ \A p \in Positions : p \in d <=> p + s \in w
  <2>1. d \in Word /\ \A p \in Positions : p \in d <=> IF p + s <= 31 THEN p + s \in w ELSE 31 \in w
    BY <1>2, SarIs
  <2>2. w \in SUBSET (0 .. 31) /\ Positions = 0 .. 31  BY DEF Word, Positions, MSB
  <2>3. ASSUME NEW p \in Positions PROVE p \in d <=> p + s \in w
    <3>1. p \in Nat /\ (p + s > 31 => p + s \notin w)  BY <1>2, <2>2
    <3>2. CASE p + s <= 31  BY <2>1, <3>2
    <3>3. CASE p + s > 31
      <4>1. ~(p + s <= 31)  BY <1>2, <3>1, <3>3
      <4> QED  BY <2>1, <3>1, <3>3, <4>1
    <3> QED  BY <1>2, <3>1, <3>2, <3>3
  <2> QED  BY <2>1, <2>3
<1> HIDE DEF d
<1>4. w \in SUBSET (0 .. 31) /\ d \in SUBSET (0 .. 31) /\ Positions = 0 .. 31  BY <1>3 DEF Word, Positions, MSB
<1>5. ASSUME NEW p \in d PROVE p \in 0 .. k - 1
  <2>1. p \in Nat /\ p + s \in w  BY <1>3, <1>4
  <2>2. CASE s = 0  BY <1>1, <2>1, <2>2
  <2>3. CASE s = k  BY <2>1, <2>3
  <2> QED  BY <1>2, <2>2, <2>3
<1>6. w = {} => s = 0 /\ d = {}  BY <1>1, <1>3, <1>4
<1>7. ASSUME NEW h \in Positions, IsTop(w, h) PROVE IsTop(d, h - s)
  <2>1. h \in w /\ h \in 0 .. 31 /\ \A p \in w : p <= h  BY <1>4, <1>7 DEF IsTop
  <2>2. s <= h
    <3>1. CASE s = 0  BY <2>1, <3>1
    <3>2. CASE s # 0
      <4>1. PICK p \in w : p >= k  BY <1>1, <3>2
      <4> QED  BY <1>2, <1>4, <2>1, <4>1
    <3> QED  BY <3>1, <3>2
  <2>3. h - s \in Positions /\ (h - s) + s = h  BY <1>2, <1>4, <2>1, <2>2
  <2>4. \A p \in d : p <= h - s
    <3> TAKE p \in d
    <3>1. p \in Nat /\ p + s \in w  BY <1>3, <1>4
    <3>2. p + s <= h  BY <2>1, <3>1
    <3> QED  BY <1>2, <2>1, <3>1, <3>2
  <2> QED  BY <1>3, <2>1, <2>3, <2>4 DEF IsTop
<1>8. 31 \notin d  BY <1>5
<1> QED  BY <1>2, <1>3, <1>5, <1>6, <1>7, <1>8 DEF s, d

\* x with its sign taken away has a one where x differs from its sign.
LEMMA PsuedoAbsIs ==
    ASSUME NEW x \in Word
    PROVE  /\ PsuedoAbs(x) \in Word /\ 31 \notin PsuedoAbs(x)
           /\ \A p \in Positions : p \in PsuedoAbs(x) <=> ~(p \in x <=> 31 \in x)
<1>1. Sar(x, 31) \in Word /\ \A p \in Positions : p \in Sar(x, 31) <=> 31 \in x
  BY SignCopies, SarIs
<1>2. 31 \in Positions  BY DEF Positions, MSB
<1>3. PsuedoAbs(x) \in Word /\ \A p \in Positions : p \in PsuedoAbs(x) <=> ~(p \in x <=> p \in Sar(x, 31))
  BY <1>1, BitsOf DEF PsuedoAbs
<1> QED  BY <1>1, <1>2, <1>3

\* The bits a number needs.
Enough(x) == {n \in 1 .. 32 : n - 1 .. MSB \subseteq x \/ (n - 1 .. MSB) \cap x = {}}

\* n bits are enough when no one of PsuedoAbs is left above their sign.
LEMMA EnoughIs ==
    ASSUME NEW x \in Word, NEW n \in 1 .. 32
    PROVE  n \in Enough(x) <=> \A p \in PsuedoAbs(x) : p < n - 1
<1> DEFINE a == PsuedoAbs(x)
<1>1. a \in Word /\ 31 \notin a /\ \A p \in Positions : p \in a <=> ~(p \in x <=> 31 \in x)  BY PsuedoAbsIs
<1> HIDE DEF a
<1>2. Positions = 0 .. 31 /\ a \in SUBSET (0 .. 31) /\ x \in SUBSET (0 .. 31) /\ 31 \in n - 1 .. 31
      /\ n - 1 .. 31 \in SUBSET (0 .. 31)
  BY <1>1 DEF Word, Positions, MSB
<1>3. (\A p \in a : p < n - 1) <=> \A p \in n - 1 .. 31 : p \notin a  BY <1>2
<1>4. (\A p \in n - 1 .. 31 : p \notin a) <=> \A p \in n - 1 .. 31 : (p \in x <=> 31 \in x)
  BY <1>1, <1>2
<1>5. (\A p \in n - 1 .. 31 : (p \in x <=> 31 \in x)) <=> n - 1 .. 31 \subseteq x \/ (n - 1 .. 31) \cap x = {}
  BY <1>2
<1> QED  BY <1>3, <1>4, <1>5, Zenon DEF Enough, MSB, a

\* howManyBits is the least number of bits that are enough.
LEMMA howManyBitsRight == ASSUME NEW x \in Word PROVE Val(howManyBits(x)) = Min(Enough(x))
<1> DEFINE a == PsuedoAbs(x)
           m16 == Shl(Not(Zero), 16)
           m8 == Shl(Not(Zero), 8)
           s16 == HalfWithTop(a, m16, 16)
           b16 == Sar(a, s16)
           s8 == HalfWithTop(b16, m8, 8)
           b8 == Sar(b16, s8)
           m4 == Lit(240)
           s4 == HalfWithTop(b8, m4, 4)
           b4 == Sar(b8, s4)
           s2 == HalfWithTop(b4, Lit(12), 2)
           b2 == Sar(b4, s2)
           s1 == HalfWithTop(b2, Lit(2), 1)
           b1 == Sar(b2, s1)
           n == s1 + s2 + s4 + s8 + s16 + Val(b1) + 1
<1>1. howManyBits(x) = Lit(n)  BY Zenon DEF howManyBits
<1>2. a \in Word /\ 31 \notin a /\ a \in SUBSET (0 .. 2 * 16 - 1)  BY PsuedoAbsIs DEF Word, Positions, MSB
<1>3. \A p \in Positions : (p \in m16 <=> p >= 16) /\ (p \in m8 <=> p >= 8)
  <2>1. Not(Zero) \in Word /\ \A p \in Positions : p \in Not(Zero)  BY BitsOf DEF Zero
  <2>2. Not(Zero) = 0 .. 31 /\ Positions = 0 .. 31  BY <2>1 DEF Word, Positions, MSB
  <2>3. \A p \in Positions : (p \in m16 <=> p - 16 \in Not(Zero)) /\ (p \in m8 <=> p - 8 \in Not(Zero))
    BY <2>1, ShlIs
  <2>4. \A p \in 0 .. 31 : (p - 16 \in 0 .. 31 <=> p >= 16) /\ (p - 8 \in 0 .. 31 <=> p >= 8)  OBVIOUS
  <2> QED  BY <2>2, <2>3, <2>4
<1>4. /\ \A p \in 0 .. 2 * 4 - 1 : p \in m4 <=> p >= 4
      /\ \A p \in 0 .. 2 * 2 - 1 : p \in Lit(12) <=> p >= 2
      /\ \A p \in 0 .. 2 * 1 - 1 : p \in Lit(2) <=> p >= 1
  BY Masks
<1> HIDE DEF a, m16, m8, m4, b16, b8, b4, b2, b1
<1>5. /\ s16 \in {0, 16} /\ b16 \in Word /\ 31 \notin b16 /\ b16 \in SUBSET (0 .. 2 * 8 - 1)
      /\ a = {} => s16 = 0 /\ b16 = {}
      /\ \A h \in Positions : IsTop(a, h) => IsTop(b16, h - s16)
  <2>1. And(a, m16) = {p \in a : p >= 16}  BY <1>2, <1>3 DEF And, Word
  <2>2. 16 - 1 = 2 * 8 - 1  OBVIOUS
  <2> QED  BY <1>2, <2>1, <2>2, Halving DEF b16
<1> HIDE DEF s16
<1>6. /\ s8 \in {0, 8} /\ b8 \in Word /\ 31 \notin b8 /\ b8 \in SUBSET (0 .. 2 * 4 - 1)
      /\ b16 = {} => s8 = 0 /\ b8 = {}
      /\ \A h \in Positions : IsTop(b16, h) => IsTop(b8, h - s8)
  <2>1. And(b16, m8) = {p \in b16 : p >= 8}  BY <1>3, <1>5 DEF And, Word
  <2>2. 8 - 1 = 2 * 4 - 1  OBVIOUS
  <2> QED  BY <1>5, <2>1, <2>2, Halving DEF b8
<1> HIDE DEF s8
<1>7. /\ s4 \in {0, 4} /\ b4 \in Word /\ 31 \notin b4 /\ b4 \in SUBSET (0 .. 2 * 2 - 1)
      /\ b8 = {} => s4 = 0 /\ b4 = {}
      /\ \A h \in Positions : IsTop(b8, h) => IsTop(b4, h - s4)
  <2>1. And(b8, m4) = {p \in b8 : p >= 4}  BY <1>4, <1>6 DEF And
  <2>2. 4 - 1 = 2 * 2 - 1 /\ 4 \in {1, 2, 4, 8, 16}  OBVIOUS
  <2>3. b8 \in Word /\ 31 \notin b8 /\ b8 \in SUBSET (0 .. 2 * 4 - 1)  BY <1>6
  <2> QED  BY <2>1, <2>2, <2>3, Halving DEF b4
<1> HIDE DEF s4
<1>8. /\ s2 \in {0, 2} /\ b2 \in Word /\ 31 \notin b2 /\ b2 \in SUBSET (0 .. 2 * 1 - 1)
      /\ b4 = {} => s2 = 0 /\ b2 = {}
      /\ \A h \in Positions : IsTop(b4, h) => IsTop(b2, h - s2)
  <2>1. And(b4, Lit(12)) = {p \in b4 : p >= 2}  BY <1>4, <1>7 DEF And
  <2>2. 2 - 1 = 2 * 1 - 1  OBVIOUS
  <2> QED  BY <1>7, <2>1, <2>2, Halving DEF b2
<1> HIDE DEF s2
<1>9. /\ s1 \in {0, 1} /\ b1 \in Word /\ b1 \in SUBSET {0}
      /\ b2 = {} => s1 = 0 /\ b1 = {}
      /\ \A h \in Positions : IsTop(b2, h) => IsTop(b1, h - s1)
  <2>1. And(b2, Lit(2)) = {p \in b2 : p >= 1}  BY <1>4, <1>8 DEF And
  <2>2. 0 .. 1 - 1 = {0}  OBVIOUS
  <2> QED  BY <1>8, <2>1, <2>2, Halving DEF b1
<1> HIDE DEF s1
<1>10. Val(b1) = (IF b1 = {} THEN 0 ELSE 1)
  <2>1. Val({}) = 0  BY ValTakes
  <2>2. Val({0}) = 1  BY ValPower, PowStep DEF Positions, MSB
  <2> QED  BY <1>9, <2>1, <2>2
<1>11. n \in 1 .. 33 /\ n \in Nat  BY <1>5, <1>6, <1>7, <1>8, <1>9, <1>10
<1>12. Val(howManyBits(x)) = n
  <2>1. n < Pow2[6]
    <3>1. Pow2[6] = 64  BY PowTable, SMT
    <3> QED  BY <1>11, <3>1
  <2> HIDE DEF n
  <2> QED  BY <1>1, <1>11, <2>1, ValLit
<1>13. n \in Enough(x) /\ \A i \in Enough(x) : n <= i
  <2>1. CASE a = {}
    <3>1. n = 1  BY <1>5, <1>6, <1>7, <1>8, <1>9, <1>10, <2>1
    <3>2. 1 \in Enough(x)  BY <2>1, EnoughIs DEF a
    <3>3. Enough(x) \in SUBSET (1 .. 32)  BY DEF Enough
    <3> QED  BY <3>1, <3>2, <3>3
  <2>2. CASE a # {}
    <3>1. PICK h \in a : IsTop(a, h)
      <4>1. a \in SUBSET (0 .. 31)  BY <1>2
      <4>2. Max(a) \in a /\ \A p \in a : p <= Max(a)  BY <2>2, <4>1, MaxIsMember
      <4> QED  BY <4>2 DEF IsTop
    <3>2. h \in 0 .. 30 /\ h \in Positions
      <4>1. h \in 0 .. 31 /\ h # 31  BY <1>2
      <4> QED  BY <4>1 DEF Positions, MSB
    <3> DEFINE h16 == h - s16
               h8 == h16 - s8
               h4 == h8 - s4
               h2 == h4 - s2
               h1 == h2 - s1
    <3>3. \A w \in Word : \A i : IsTop(w, i) => i \in Positions  BY DEF IsTop, Word
    <3>4. IsTop(b16, h16) /\ h16 \in Positions  BY <1>5, <3>1, <3>2, <3>3
    <3> HIDE DEF h16
    <3>5. IsTop(b8, h8) /\ h8 \in Positions  BY <1>6, <3>3, <3>4
    <3> HIDE DEF h8
    <3>6. IsTop(b4, h4) /\ h4 \in Positions  BY <1>7, <3>3, <3>5
    <3> HIDE DEF h4
    <3>7. IsTop(b2, h2) /\ h2 \in Positions  BY <1>8, <3>3, <3>6
    <3> HIDE DEF h2
    <3>8. IsTop(b1, h1)  BY <1>9, <3>7
    <3>9. h1 = 0 /\ b1 # {}  BY <1>9, <3>8 DEF IsTop
    <3>10. h = s1 + s2 + s4 + s8 + s16
      <4>1. h2 = s1  BY <1>9, <3>7, <3>9 DEF Positions, MSB
      <4>2. h4 = s1 + s2  BY <1>8, <1>9, <3>6, <4>1 DEF h2, Positions, MSB
      <4>3. h8 = s1 + s2 + s4  BY <1>7, <1>8, <1>9, <3>5, <4>2 DEF h4, Positions, MSB
      <4>4. h16 = s1 + s2 + s4 + s8  BY <1>6, <1>7, <1>8, <1>9, <3>4, <4>3 DEF h8, Positions, MSB
      <4> QED  BY <1>5, <1>6, <1>7, <1>8, <1>9, <3>2, <4>4 DEF h16, Positions, MSB
    <3>11. n = h + 2
      <4>1. s1 \in Nat /\ s2 \in Nat /\ s4 \in Nat /\ s8 \in Nat /\ s16 \in Nat  BY <1>5, <1>6, <1>7, <1>8, <1>9
      <4>2. Val(b1) = 1  BY <1>10, <3>9
      <4> QED  BY <3>10, <4>1, <4>2
    <3>12. n \in 1 .. 32 /\ \A p \in a : p < n - 1
      <4>1. a \in SUBSET (0 .. 31)  BY <1>2
      <4> QED  BY <3>1, <3>2, <3>11, <4>1 DEF IsTop
    <3>13. n \in Enough(x)  BY <3>12, EnoughIs DEF a
    <3>14. ASSUME NEW i \in Enough(x) PROVE n <= i
      <4>1. i \in 1 .. 32  BY DEF Enough
      <4>2. \A p \in a : p < i - 1  BY <4>1, EnoughIs DEF a
      <4>3. h < i - 1  BY <4>2
      <4> QED  BY <3>2, <3>11, <4>1, <4>3
    <3> QED  BY <3>13, <3>14
  <2> QED  BY <2>1, <2>2
<1>14. Enough(x) \in SUBSET Nat /\ Enough(x) # {}
  <2>1. Enough(x) \in SUBSET (1 .. 32)  BY DEF Enough
  <2> QED  BY <1>13, <2>1
<1> HIDE DEF n
<1>15. Min(Enough(x)) \in Enough(x) /\ \A i \in Enough(x) : Min(Enough(x)) <= i  BY <1>14, MinIsMember
<1>16. Min(Enough(x)) = n
  <2>1. Min(Enough(x)) <= n /\ n <= Min(Enough(x)) /\ Min(Enough(x)) \in Nat  BY <1>13, <1>14, <1>15
  <2> QED  BY <1>11, <2>1
<1> QED  BY <1>12, <1>16

---------------------------------------------------------------------------
(* The parts of a float. *)

\* Without a sign the two numbers of a word are one.
LEMMA ValOfPositive == ASSUME NEW x \in Word, 31 \notin x PROVE Val(x) = Below(x, 31) /\ Num(x) = Val(x)
<1>1. x \in SUBSET (0 .. 31 - 1)
  <2>1. \A p \in 0 .. 31 : p # 31 => p \in 0 .. 31 - 1  OBVIOUS
  <2>2. x \in SUBSET (0 .. 31)  BY DEF Word, Positions, MSB
  <2> QED  BY <2>1, <2>2
<1>2. 31 \in 0 .. 32  OBVIOUS
<1>3. Val(x) = Below(x, 31)  BY <1>1, <1>2, ValIsBelow
<1> QED  BY <1>3, NumIs

\* A positive number shifted to the right loses its lowest bits.
LEMMA ValSar ==
    ASSUME NEW x \in Word, 31 \notin x, NEW k \in 0 .. 30
    PROVE  /\ Sar(x, k) \in Word /\ 31 \notin Sar(x, k)
           /\ Sar(x, k) = Down(x, k)
           /\ Val(Sar(x, k)) = Below(Down(x, k), 31 - k)
           /\ Val(x) = Below(x, k) + Pow2[k] * Val(Sar(x, k))
<1> DEFINE d == Down(x, k)
<1>0. k \in Nat /\ 31 - k \in 0 .. 32 /\ 31 \in 0 .. 32 /\ k \in 0 .. 31 /\ Positions = 0 .. 31 /\ x \in SUBSET (0 .. 31)
  BY DEF Word, Positions, MSB
<1>1. Sar(x, k) = d /\ d \in Word
  <2>1. d \in Word  BY DEF Down, Word
  <2>2. ASSUME NEW p \in Positions PROVE p \in Sar(x, k) <=> p \in d
    <3>1. p \in Sar(x, k) <=> IF p + k <= 31 THEN p + k \in x ELSE 31 \in x  BY <1>0, SarIs
    <3>2. p \in d <=> p + k \in x  BY DEF Down
    <3>3. CASE p + k <= 31  BY <3>1, <3>2, <3>3
    <3>4. CASE p + k > 31
      <4>1. ~(p + k <= 31) /\ p + k \notin x  BY <1>0, <3>4
      <4> QED  BY <3>1, <3>2, <4>1
    <3> QED  BY <1>0, <3>3, <3>4
  <2>3. Sar(x, k) \in Word  BY <1>0, SarIs
  <2> QED  BY <2>1, <2>2, <2>3 DEF Word
<1>2. d \in SUBSET (0 .. (31 - k) - 1)
  <2>1. ASSUME NEW p \in d PROVE p \in 0 .. (31 - k) - 1
    <3>1. p \in 0 .. 31 /\ p + k \in x  BY <1>0 DEF Down
    <3>2. p + k \in 0 .. 31 /\ p + k # 31  BY <1>0, <3>1
    <3> QED  BY <1>0, <3>1, <3>2
  <2> QED  BY <2>1
<1>3. Below(x, 31) = Below(x, k) + Pow2[k] * Below(d, 31 - k)  BY <1>0, ValSplits
<1> HIDE DEF d
<1>4. Val(d) = Below(d, 31 - k)  BY <1>0, <1>1, <1>2, ValIsBelow
<1>5. Val(x) = Below(x, 31)  BY ValOfPositive
<1>6. 31 \notin d  BY <1>0, <1>2
<1> QED  BY <1>1, <1>3, <1>4, <1>5, <1>6, Zenon DEF d

\* The numbers below the exponent's.
FracSize == 8388608

\* It is the weight of the exponent's lowest bit.
LEMMA FracSizeIs == FracSize \in Nat \ {0} /\ FracSize = Pow2[23]
BY PowTable, SMT DEF FracSize

\* Exponent and fraction, and the number the two make.
LEMMA FloatParts ==
    ASSUME NEW uf \in Word
    PROVE  /\ And(uf, tmax) \in Word /\ 31 \notin And(uf, tmax)
           /\ \A p \in Positions : p \in And(uf, tmax) <=> p \in uf /\ p # 31
           /\ FractionOf(uf) \in Word /\ FractionOf(uf) \in SUBSET (0 .. 22)
           /\ \A p \in 0 .. 22 : p \in FractionOf(uf) <=> p \in uf
           /\ Val(FractionOf(uf)) \in Nat /\ Val(FractionOf(uf)) < FracSize
           /\ ExponentOf(uf) \in Nat /\ ExponentOf(uf) < 256
           /\ Val(And(uf, tmax)) = FracSize * ExponentOf(uf) + Val(FractionOf(uf))
<1> DEFINE a == And(uf, tmax)
           f == FractionOf(uf)
           d == Down(a, 23)
<1>0. Positions = 0 .. 31 /\ uf \in SUBSET (0 .. 31)  BY DEF Word, Positions, MSB
<1>1. a = uf \cap 0 .. 30  BY Masks DEF And
<1>2. f = uf \cap 0 .. 22
  <2>1. Lit(8388607) = 0 .. 22  BY Masks, SMT
  <2> QED  BY <2>1, SMT DEF FractionOf, And
<1>3. a \in Word /\ 31 \notin a /\ \A p \in Positions : p \in a <=> p \in uf /\ p # 31
  <2>1. \A p \in 0 .. 31 : p \in 0 .. 30 <=> p # 31  OBVIOUS
  <2>2. 31 \notin 0 .. 30  OBVIOUS
  <2> QED  BY <1>0, <1>1, <2>1, <2>2 DEF Word
<1>4. f \in Word /\ f \in SUBSET (0 .. 22) /\ \A p \in 0 .. 22 : p \in f <=> p \in uf
  BY <1>0, <1>2 DEF Word
<1>5. f = a \cap 0 .. 23 - 1
  <2>1. 0 .. 23 - 1 = 0 .. 22 /\ 0 .. 22 \in SUBSET (0 .. 30)  OBVIOUS
  <2> QED  BY <1>1, <1>2, <2>1
<1> HIDE DEF a, f
<1>6. /\ Val(Sar(a, 23)) = Below(d, 31 - 23)
      /\ Val(a) = Below(a, 23) + Pow2[23] * Val(Sar(a, 23))
      /\ d \in Word
  <2>1. d \in Word  BY DEF Down, Word
  <2> QED  BY <1>3, <2>1, ValSar
<1> HIDE DEF d
<1>7. Below(d, 8) \in Nat /\ Below(d, 8) < 256
  <2>1. Below(d, 8) \in Nat /\ Below(d, 8) < Pow2[8]  BY <1>6, BelowTakes, BelowBound
  <2>2. Pow2[8] = 256  BY PowTable, SMT
  <2> QED  BY <2>1, <2>2
<1>8. ExponentOf(uf) = Below(d, 8)  BY <1>6 DEF ExponentOf, a
<1>9. Below(a, 23) = Val(f)  BY <1>5 DEF Below
<1>10. Val(f) \in Nat /\ Val(f) < FracSize
  <2>1. Below(a, 23) \in Nat /\ Below(a, 23) < Pow2[23]  BY <1>3, BelowTakes, BelowBound
  <2>2. Pow2[23] = FracSize  BY FracSizeIs
  <2> QED  BY <1>9, <2>1, <2>2, SMT
<1>11. Val(a) = FracSize * ExponentOf(uf) + Val(f)
  <2>1. Pow2[23] = FracSize  BY FracSizeIs
  <2>2. Val(a) = Val(f) + Pow2[23] * ExponentOf(uf)  BY <1>6, <1>9 DEF ExponentOf, a
  <2>3. ExponentOf(uf) \in Nat  BY <1>7, <1>8
  <2>4. FracSize * ExponentOf(uf) \in Nat  BY <2>3, FracSizeIs
  <2> QED  BY <1>10, <2>1, <2>2, <2>4
<1>12. ExponentOf(uf) \in Nat /\ ExponentOf(uf) < 256  BY <1>7, <1>8
<1> QED  BY <1>3, <1>4, <1>10, <1>11, <1>12, SMT DEF a, f

\* The scale of an exponent.
LEMMA ScaleIs == ASSUME NEW uf \in Word PROVE Scale(uf) = IF ExponentOf(uf) >= 1 THEN ExponentOf(uf) ELSE 1
<1> DEFINE e == ExponentOf(uf)
<1>1. e \in Nat /\ e < 256  BY FloatParts, SMT
<1> HIDE DEF e
<1>2. {e, 1} \in SUBSET (0 .. e + 1) /\ {e, 1} # {} /\ e + 1 \in Nat  BY <1>1
<1>3. Max({e, 1}) \in {e, 1} /\ \A i \in {e, 1} : i <= Max({e, 1})  BY <1>2, MaxIsMember
<1>4. Max({e, 1}) = IF e >= 1 THEN e ELSE 1  BY <1>1, <1>3
<1> QED  BY <1>4 DEF Scale, e

\* Half of a number with exponent 0 or 1.
LEMMA ResultZeroExpIs ==
    ASSUME NEW uf \in Word, NEW v \in Nat, v = Val(And(uf, tmax)), v < 2 * FracSize
    PROVE  /\ ResultZeroExp(uf) \in Word /\ 31 \notin ResultZeroExp(uf)
           /\ Val(ResultZeroExp(uf)) = v \div 2 + (IF v % 4 = 3 THEN 1 ELSE 0)
<1> DEFINE a == And(uf, tmax)
           h == Sar(a, 1)
           c == IF And(uf, Lit(3)) = Lit(3) THEN One ELSE Zero
           u == IF v % 4 = 3 THEN 1 ELSE 0
           z == Add(h, c)
<1>0. Positions = 0 .. 31  BY DEF Positions, MSB
<1>1. a \in Word /\ 31 \notin a /\ \A p \in Positions : p \in a <=> p \in uf /\ p # 31  BY FloatParts
<1>2. Lit(3) = {0, 1}
  <2>1. Lit(3) = 0 .. 1  BY Masks, SMT
  <2> QED  BY <2>1
<1> HIDE DEF a
<1>3. h \in Word /\ 31 \notin h /\ v = Below(a, 1) + 2 * Val(h) /\ Val(h) \in Nat
  <2>1. Pow2[1] = 2  BY PowTable, SMT
  <2>2. h \in Word /\ 31 \notin h /\ Val(a) = Below(a, 1) + Pow2[1] * Val(h)  BY <1>1, ValSar
  <2>3. Val(h) \in Nat  BY <2>2, ValTakes
  <2> QED  BY <2>1, <2>2, <2>3 DEF a
<1>4. Below(a, 1) = Bit(a, 0) /\ Below(a, 2) = Bit(a, 0) + 2 * Bit(a, 1)
  <2>1. Pow2[0] = 1 /\ Pow2[1] = 2  BY PowTable, SMT
  <2>2. /\ Below(a, 0) = 0 /\ Below(a, 0 + 1) = Below(a, 0) + Pow2[0] * Bit(a, 0)
        /\ Below(a, 1 + 1) = Below(a, 1) + Pow2[1] * Bit(a, 1)
    BY <1>1, BelowTakes
  <2>3. Bit(a, 0) \in Nat /\ Bit(a, 1) \in Nat  BY DEF Bit
  <2> QED  BY <2>1, <2>2, <2>3
<1>5. v % 4 = Bit(a, 0) + 2 * Bit(a, 1)
  <2>1. Pow2[2] = 4  BY PowTable, SMT
  <2>2. Sar(a, 2) \in Word /\ v = Below(a, 2) + Pow2[2] * Val(Sar(a, 2))  BY <1>1, ValSar DEF a
  <2>3. Val(Sar(a, 2)) \in Nat  BY <2>2, ValTakes
  <2>4. Bit(a, 0) + 2 * Bit(a, 1) \in 0 .. 4 - 1  BY DEF Bit
  <2> DEFINE q == Val(Sar(a, 2))
             r == Bit(a, 0) + 2 * Bit(a, 1)
  <2> HIDE DEF q, r
  <2>5. Splits(v, 4, q, r)  BY <1>4, <2>1, <2>2, <2>3, <2>4 DEF Splits, q, r
  <2> QED  BY <2>5, Division DEF r
<1>6. And(uf, Lit(3)) = Lit(3) <=> v % 4 = 3
  <2>1. And(uf, Lit(3)) = Lit(3) <=> 0 \in a /\ 1 \in a
    <3>1. And(uf, Lit(3)) = Lit(3) <=> 0 \in uf /\ 1 \in uf  BY <1>2 DEF And
    <3> QED  BY <1>0, <1>1, <3>1
  <2> QED  BY <1>5, <2>1 DEF Bit
<1>7. c \in Word /\ 31 \notin c /\ Num(c) = u
  <2>1. 31 \notin One /\ 31 \notin Zero  BY DEF One, Zero
  <2> QED  BY <1>6, <2>1, NumOne, NumZero
<1>8. v \div 2 = Val(h)
  <2>1. Bit(a, 0) \in 0 .. 2 - 1  BY DEF Bit
  <2>2. Splits(v, 2, Val(h), Bit(a, 0))  BY <1>3, <1>4, <2>1 DEF Splits
  <2> QED  BY <2>2, Division
<1> HIDE DEF h, c
<1>9. z \in Word /\ Wraps(z, Num(h) + Num(c))  BY <1>3, <1>7, NumAdd
<1>10. Num(h) = Val(h)  BY <1>3, ValOfPositive
<1>11. u \in {0, 1}  OBVIOUS
<1> HIDE DEF u, z
<1>12. Half = 65536 * 32768 /\ Val(h) < FracSize
  <2>1. Half = 65536 * 32768  BY PowTable, SMT DEF Half
  <2>2. 2 * Val(h) <= v
    <3>1. Bit(a, 0) >= 0 /\ Bit(a, 0) \in Nat  BY DEF Bit
    <3> QED  BY <1>3, <1>4, <3>1
  <2> QED  BY <1>3, <2>1, <2>2, FracSizeIs
<1>13. Num(z) = Val(h) + u /\ Num(z) >= 0
  <2>1. Num(z) \in Int /\ -Half <= Num(z) /\ Num(z) < Half  BY <1>9, NumIs
  <2>2. Num(z) \in {Num(h) + Num(c), Num(h) + Num(c) + 2 * Half, Num(h) + Num(c) - 2 * Half}
    BY <1>3, <1>7, <1>9, NumIs DEF Wraps
  <2>3. FracSize < 65536 * 32768 - 1  BY SMT DEF FracSize
  <2> QED  BY <1>3, <1>7, <1>10, <1>11, <1>12, <2>1, <2>2, <2>3, FracSizeIs, SMT
<1>14. 31 \notin z  BY <1>9, <1>13, NumIs
<1>15. Val(z) = Val(h) + u  BY <1>9, <1>13, <1>14, ValOfPositive
<1>16. ResultZeroExp(uf) = z  BY DEF ResultZeroExp, z, h, a, c
<1> QED  BY <1>8, <1>9, <1>14, <1>15, <1>16 DEF u

\* A sign before a positive number.
LEMMA SignBefore ==
    ASSUME NEW uf \in Word, NEW w \in Word, 31 \notin w
    PROVE  LET r == Or(And(uf, Not(tmax)), w)
           IN /\ r \in Word /\ And(r, tmax) = w
              /\ 31 \in r <=> 31 \in uf
              /\ Or(w, And(uf, Not(tmax))) = r
<1> DEFINE s == And(uf, Not(tmax))
           r == Or(s, w)
<1>1. tmax = 0 .. 30 /\ Positions = 0 .. 31 /\ w \in SUBSET (0 .. 31) /\ uf \in SUBSET (0 .. 31)
  BY Masks, SMT DEF Word, Positions, MSB
<1>2. \A p \in 0 .. 31 : p \in 0 .. 30 <=> p # 31  OBVIOUS
<1>3. s = {p \in uf : p = 31}  BY <1>1, <1>2 DEF And, Not
<1>4. r = {p \in uf : p = 31} \cup w  BY <1>3 DEF Or
<1>5. And(r, tmax) = w  BY <1>1, <1>2, <1>4 DEF And
<1>6. r \in Word  BY <1>1, <1>4 DEF Word
<1>7. Or(w, s) = r  BY DEF Or
<1> QED  BY <1>4, <1>5, <1>6, <1>7 DEF s

\* A float's number and its parts.
LEMMA PartsOfValue ==
    ASSUME NEW uf \in Word, NEW e \in Nat, NEW f \in Nat, f < FracSize, Val(And(uf, tmax)) = FracSize * e + f
    PROVE  ExponentOf(uf) = e /\ Val(FractionOf(uf)) = f
<1>1. /\ Val(FractionOf(uf)) \in Nat /\ Val(FractionOf(uf)) < FracSize /\ ExponentOf(uf) \in Nat
      /\ Val(And(uf, tmax)) = FracSize * ExponentOf(uf) + Val(FractionOf(uf))
  BY FloatParts
<1>2. ASSUME NEW h \in Int, NEW k \in Int, NEW l \in Nat, NEW m \in Nat,
             l < FracSize, m < FracSize, FracSize * h + l = FracSize * k + m
      PROVE  h = k /\ l = m
  BY <1>2, FracSizeIs, SameDigits
<1> QED  BY <1>1, <1>2

\* Half of a float.
LEMMA float_halfRight ==
    ASSUME NEW uf \in Word
    PROVE  LET r == float_half(uf)
               up == Scale(uf) - Scale(r)
               error == 2 * Significand(r) - Significand(uf) * Pow2[up]
           IN IF ExponentOf(uf) = 255 THEN r = uf
              ELSE /\ MSB \in r <=> MSB \in uf
                   /\ up \in {0, 1} /\ error \in -1 .. 1
                   /\ error # 0 => Scale(uf) = 1 /\ Significand(r) % 2 = 0
<1> DEFINE r == float_half(uf)
           e == ExponentOf(uf)
           f == Val(FractionOf(uf))
           up == Scale(uf) - Scale(r)
           error == 2 * Significand(r) - Significand(uf) * Pow2[up]
<1>1. /\ e \in Nat /\ e < 256 /\ f \in Nat /\ f < FracSize
      /\ Val(And(uf, tmax)) = FracSize * e + f
  BY FloatParts
<1>2. Scale(uf) = IF e >= 1 THEN e ELSE 1  BY ScaleIs
<1>3. \A x : Significand(x) = Val(FractionOf(x)) + (IF ExponentOf(x) = 0 THEN 0 ELSE FracSize)
  BY SMT DEF Significand, FracSize
<1>4. CASE e <= 1
  <2> DEFINE v == FracSize * e + f
             w == ResultZeroExp(uf)
             m == v \div 2 + (IF v % 4 = 3 THEN 1 ELSE 0)
  <2>1. v \in Nat /\ v < 2 * FracSize
    <3>1. e = 0 \/ e = 1  BY <1>1, <1>4
    <3>2. FracSize * 0 = 0 /\ FracSize * 1 = FracSize  BY FracSizeIs
    <3> QED  BY <1>1, <3>1, <3>2, FracSizeIs
  <2>2. w \in Word /\ 31 \notin w /\ Val(w) = m  BY <1>1, <2>1, ResultZeroExpIs
  <2>3. r = Or(w, And(uf, Not(tmax)))  BY <1>4, SMT DEF float_half
  <2>4. r \in Word /\ And(r, tmax) = w /\ (31 \in r <=> 31 \in uf)  BY <2>2, <2>3, SignBefore
  <2> HIDE DEF r, w
  <2>5. \E k \in Nat : k < 2 * FracSize /\ v = FracSize * e + f /\ k = v  BY <2>1
  <2>6. FracSize \in Nat /\ FracSize % 2 = 0 /\ FracSize > 0  BY SMT DEF FracSize
  <2>7. m \in Nat /\ m <= FracSize /\ (2 * m - v) \in -1 .. 1 /\ (2 * m - v # 0 => m % 2 = 0)
    <3> HIDE DEF v
    <3>1. PICK q \in Nat, i \in 0 .. 3 : v = 4 * q + i /\ v % 4 = i  BY <2>1
    <3>2. CASE i = 0
      <4>1. m = 2 * q /\ m % 2 = 0  BY <3>1, <3>2
      <4> QED  BY <2>1, <2>6, <3>1, <3>2, <4>1
    <3>3. CASE i = 1
      <4>1. m = 2 * q /\ m % 2 = 0  BY <3>1, <3>3
      <4> QED  BY <2>1, <2>6, <3>1, <3>3, <4>1
    <3>4. CASE i = 2
      <4>1. m = 2 * q + 1  BY <3>1, <3>4
      <4> QED  BY <2>1, <2>6, <3>1, <3>4, <4>1
    <3>5. CASE i = 3
      <4>1. m = 2 * q + 2 /\ m % 2 = 0  BY <3>1, <3>5
      <4> QED  BY <2>1, <2>6, <3>1, <3>5, <4>1
    <3> QED  BY <3>2, <3>3, <3>4, <3>5
  <2> HIDE DEF m
  <2>8. Significand(uf) = v /\ Scale(uf) = 1
    <3>1. CASE e = 0
      <4>1. v = f  BY <1>1, <3>1, FracSizeIs
      <4> QED  BY <1>1, <1>2, <1>3, <3>1, <4>1
    <3>2. CASE e = 1
      <4>1. v = FracSize + f  BY <1>1, <3>2, FracSizeIs
      <4> QED  BY <1>1, <1>2, <1>3, <3>2, <4>1, FracSizeIs
    <3> QED  BY <1>1, <1>4, <3>1, <3>2
  <2>9. Significand(r) = m /\ Scale(r) = 1
    <3>1. CASE m = FracSize
      <4>1. Val(And(r, tmax)) = FracSize * 1 + 0 /\ 0 < FracSize /\ 1 \in Nat /\ 0 \in Nat
        BY <2>2, <2>4, <3>1, FracSizeIs
      <4>2. ExponentOf(r) = 1 /\ Val(FractionOf(r)) = 0  BY <2>4, <4>1, PartsOfValue
      <4> QED  BY <1>3, <2>4, <3>1, <4>2, ScaleIs, FracSizeIs
    <3>2. CASE m # FracSize
      <4>1. Val(And(r, tmax)) = FracSize * 0 + m /\ m < FracSize /\ 0 \in Nat  BY <2>2, <2>4, <2>7, <3>2, FracSizeIs
      <4>2. ExponentOf(r) = 0 /\ Val(FractionOf(r)) = m  BY <2>4, <2>7, <4>1, PartsOfValue
      <4> QED  BY <1>3, <2>4, <2>7, <4>2, ScaleIs
    <3> QED  BY <3>1, <3>2
  <2> HIDE DEF v
  <2>10. up = 0 /\ error = 2 * m - v
    <3>1. Pow2[0] = 1  BY PowStep
    <3>2. up = 0  BY <2>8, <2>9
    <3> QED  BY <2>1, <2>7, <2>8, <2>9, <3>1, <3>2
  <2>11. e # 255 /\ 31 \in r <=> 31 \in uf  BY <1>1, <1>4, <2>4
  <2> HIDE DEF up, error
  <2> QED  BY <1>4, <2>4, <2>7, <2>8, <2>9, <2>10 DEF up, error, MSB, r, e
<1>5. CASE e = 255
  <2>1. r = uf  BY <1>5, SMT DEF float_half
  <2> QED  BY <1>5, <2>1
<1>6. CASE e > 1 /\ e # 255
  <2> DEFINE g == Shl(Lit(e - 1), 23)
             w == Or(g, FractionOf(uf))
  <2>1. r = Or(And(uf, Not(tmax)), w)  BY <1>1, <1>6, SMT DEF float_half
  <2>2. Lit(e - 1) \in Word /\ Lit(e - 1) \in SUBSET (0 .. 7) /\ Val(Lit(e - 1)) = e - 1
    <3>1. e - 1 \in Nat /\ e - 1 < Pow2[8]
      <4>1. Pow2[8] = 256  BY PowTable, SMT
      <4> QED  BY <1>1, <1>6, <4>1
    <3>2. Lit(e - 1) \in SUBSET (0 .. 8 - 1)  BY <3>1, LitIs
    <3> QED  BY <3>1, <3>2, ValLit
  <2>3. Positions = 0 .. 31  BY DEF Positions, MSB
  <2>4. g \in Word /\ \A p \in Positions : p \in g <=> p - 23 \in Lit(e - 1)  BY <2>2, ShlIs
  <2>5. FractionOf(uf) \in Word /\ FractionOf(uf) \in SUBSET (0 .. 22)  BY FloatParts
  <2> HIDE DEF g
  <2>6. w \in Word /\ \A p \in Positions : p \in w <=> p \in g \/ p \in FractionOf(uf)  BY <2>4, <2>5, BitsOf
  <2>7. 31 \notin w
    <3>1. 31 - 23 \notin 0 .. 7 /\ 31 \notin 0 .. 22  OBVIOUS
    <3> QED  BY <2>2, <2>3, <2>4, <2>5, <2>6, <3>1
  <2> HIDE DEF w
  <2>8. r \in Word /\ And(r, tmax) = w /\ (31 \in r <=> 31 \in uf)  BY <2>1, <2>6, <2>7, SignBefore
  <2> HIDE DEF r
  <2>9. FractionOf(r) = FractionOf(uf)
    <3>1. \A p \in 0 .. 22 : p \in FractionOf(r) <=> p \in r  BY <2>8, FloatParts
    <3>2. FractionOf(r) \in SUBSET (0 .. 22)  BY <2>8, FloatParts
    <3>3. \A p \in 0 .. 22 : p \in Positions /\ p # 31 /\ p - 23 \notin 0 .. 7  BY <2>3
    <3>4. \A p \in 0 .. 22 : p \in r <=> p \in w  BY <2>8, <3>3, FloatParts
    <3>5. \A p \in 0 .. 22 : p \in w <=> p \in FractionOf(uf)  BY <2>2, <2>4, <2>6, <3>3
    <3> QED  BY <2>5, <3>1, <3>2, <3>4, <3>5
  <2>10. Sar(w, 23) = Lit(e - 1)
    <3>1. Sar(w, 23) = Down(w, 23)  BY <2>6, <2>7, ValSar
    <3>2. ASSUME NEW p \in Positions PROVE p \in Down(w, 23) <=> p \in Lit(e - 1)
      <4>1. p \in Down(w, 23) <=> p + 23 \in w  BY DEF Down
      <4>2. p + 23 \notin 0 .. 22 /\ (p + 23) - 23 = p  BY <2>3
      <4>3. CASE p <= 7
        <5>1. p + 23 \in Positions  BY <2>3, <4>3
        <5> QED  BY <2>4, <2>5, <2>6, <4>1, <4>2, <5>1
      <4>4. CASE ~(p <= 7)
        <5>1. p \notin 0 .. 7 /\ p + 23 \in Positions => p + 23 = 31  BY <2>3, <4>4
        <5>2. p + 23 \notin w  BY <2>6, <2>7, <5>1, <4>4, <2>3 DEF Word
        <5> QED  BY <2>2, <2>3, <4>1, <4>4, <5>2
      <4> QED  BY <4>3, <4>4
    <3>3. Down(w, 23) \in SUBSET Positions  BY DEF Down
    <3> QED  BY <2>2, <3>1, <3>2, <3>3 DEF Word
  <2>11. ExponentOf(r) = e - 1  BY <2>2, <2>8, <2>10 DEF ExponentOf
  <2>12. e - 1 >= 1 /\ e - 1 \in Nat /\ e # 0 /\ e - 1 # 0 /\ e >= 1  BY <1>1, <1>6
  <2>13. Scale(r) = e - 1 /\ Scale(uf) = e  BY <1>2, <2>8, <2>11, <2>12, ScaleIs
  <2>14. Significand(r) = f + FracSize /\ Significand(uf) = f + FracSize  BY <1>3, <2>9, <2>11, <2>12
  <2>15. up = 1 /\ error = 0
    <3>1. Pow2[1] = 2  BY PowTable, SMT
    <3>2. up = 1  BY <1>1, <2>13
    <3> QED  BY <1>1, <2>14, <3>1, <3>2, FracSizeIs
  <2> HIDE DEF up, error
  <2> QED  BY <1>6, <2>8, <2>15 DEF up, error, MSB, r, e
<1> QED  BY <1>1, <1>4, <1>5, <1>6

\* A shift to the left that loses nothing multiplies.
LEMMA ValShl ==
    ASSUME NEW x \in Word, NEW k \in 0 .. 30, x \in SUBSET (0 .. 30 - k)
    PROVE  Shl(x, k) \in Word /\ 31 \notin Shl(x, k) /\ Val(Shl(x, k)) = Pow2[k] * Val(x)
<1> DEFINE z == Shl(x, k)
<1>1. Positions = 0 .. 31 /\ k \in Nat /\ k \in 0 .. 31 /\ 31 \in 0 .. 32 /\ k <= 31 /\ 31 - k \in 0 .. 32
      /\ 30 - k = (31 - k) - 1
  BY DEF Positions, MSB
<1>2. z \in Word /\ \A p \in Positions : p \in z <=> p - k \in x  BY <1>1, ShlIs
<1> HIDE DEF z
<1>3. 31 \notin z
  <2>1. 31 - k \notin 0 .. 30 - k  BY <1>1
  <2> QED  BY <1>1, <1>2, <2>1
<1>4. Down(z, k) = x
  <2>1. ASSUME NEW p \in Positions PROVE p \in Down(z, k) <=> p \in x
    <3>1. p \in Down(z, k) <=> p + k \in z  BY DEF Down
    <3>2. CASE p + k <= 31
      <4>1. p + k \in Positions /\ (p + k) - k = p  BY <1>1, <3>2
      <4> QED  BY <1>2, <3>1, <4>1
    <3>3. CASE p + k > 31
      <4>1. p + k \notin Positions /\ p \notin 0 .. 30 - k  BY <1>1, <3>3
      <4> QED  BY <1>2, <3>1, <4>1 DEF Word
    <3> QED  BY <1>1, <3>2, <3>3
  <2> QED  BY <2>1 DEF Down, Word
<1>5. Below(z, k) = 0
  <2>1. ASSUME NEW p \in z PROVE p \notin 0 .. k - 1
    <3>1. p \in Positions /\ p - k \in x  BY <1>2 DEF Word
    <3>2. p - k \in 0 .. 30 - k  BY <3>1
    <3> QED  BY <1>1, <3>1, <3>2
  <2>2. z \cap 0 .. k - 1 = {}  BY <2>1
  <2> QED  BY <2>2, ValTakes DEF Below
<1>6. Below(z, 31) = Below(z, k) + Pow2[k] * Below(Down(z, k), 31 - k)  BY <1>1, <1>2, ValSplits
<1>7. Val(x) = Below(x, 31 - k) /\ Val(x) \in Nat
  <2>1. x \in SUBSET (0 .. (31 - k) - 1)  BY <1>1
  <2> QED  BY <1>1, <2>1, ValIsBelow
<1>8. Pow2[k] * Val(x) \in Nat
  <2>1. Pow2[k] \in Nat  BY <1>1, PowPositive
  <2> QED  BY <1>7, <2>1
<1>9. Val(z) = Below(z, 31)  BY <1>2, <1>3, ValOfPositive
<1> QED  BY <1>2, <1>3, <1>4, <1>5, <1>6, <1>7, <1>8, <1>9 DEF z

\* The negative of a positive number: its size can be read off the word.
LEMMA Negated ==
    ASSUME NEW s \in Word, 31 \notin s
    PROVE  LET z == Sub(Zero, s)
           IN /\ z \in Word
              /\ 31 \in z <=> Val(s) # 0
              /\ Val(s) = IF 31 \in z THEN Val(Not(z)) + 1 ELSE Val(z)
<1> DEFINE z == Sub(Zero, s)
           n == Val(s)
<1>1. z \in Word /\ Wraps(z, Num(Zero) - Num(s))  BY NumZero, NumSub
<1> HIDE DEF z
<1>2. Num(s) = n /\ Num(Zero) = 0 /\ Num(s) \in Int /\ Num(s) < Half /\ Num(s) >= 0 /\ Half \in Nat
  BY ValOfPositive, NumZero, NumIs
<1> HIDE DEF n
<1>3. Num(z) \in {Num(Zero) - Num(s), Num(Zero) - Num(s) + 2 * Half, Num(Zero) - Num(s) - 2 * Half}
  BY <1>1, <1>2 DEF Wraps
<1>4. Num(z) \in Int /\ -Half <= Num(z) /\ Num(z) < Half  BY <1>1, NumIs
<1>5. Num(z) = -n /\ n \in Nat  BY <1>2, <1>3, <1>4
<1>6. 31 \in z <=> n # 0  BY <1>1, <1>5, NumIs
<1>7. CASE n = 0
  <2>1. 31 \notin z /\ Val(z) = 0  BY <1>1, <1>5, <1>6, <1>7, ValOfPositive
  <2> QED  BY <1>1, <1>6, <1>7, <2>1 DEF z, n
<1>8. CASE n # 0
  <2>1. Not(z) \in Word /\ Num(Not(z)) = n - 1 /\ n - 1 >= 0  BY <1>1, <1>5, <1>8, NumNot
  <2>2. 31 \notin Not(z)  BY <1>5, <2>1, NumIs
  <2>3. Val(Not(z)) = n - 1  BY <2>1, <2>2, ValOfPositive
  <2>4. n = Val(Not(z)) + 1 /\ 31 \in z  BY <1>5, <1>6, <1>8, <2>3
  <2> QED  BY <1>1, <1>6, <1>8, <2>4 DEF z, n
<1> QED  BY <1>7, <1>8

\* The smallest number is its own negative.
LEMMA SmallestNegated == Sub(Zero, {31}) = {31}
<1> DEFINE z == Sub(Zero, {31})
<1>1. {31} \in Word /\ 31 \in {31}  BY DEF Word, Positions, MSB
<1>2. Num({31}) = -Half
  <2>1. {31} \cap 0 .. 31 - 1 = {}  OBVIOUS
  <2>2. Below({31}, 31) = 0  BY <2>1, ValTakes DEF Below
  <2>3. Num({31}) = Below({31}, 31) - Half /\ Half \in Nat  BY <1>1, NumIs
  <2> QED  BY <2>2, <2>3
<1>3. z \in Word /\ Wraps(z, Num(Zero) - Num({31}))  BY <1>1, NumZero, NumSub
<1> HIDE DEF z
<1>4. Num(z) \in Int /\ -Half <= Num(z) /\ Num(z) < Half /\ Half \in Nat \ {0}  BY <1>3, NumIs
<1>5. Num(Zero) - Num({31}) = Half  BY <1>2, <1>4, NumZero
<1>6. Num(z) \in {Half, Half + 2 * Half, Half - 2 * Half}  BY <1>3, <1>5 DEF Wraps
<1>7. Num(z) = -Half  BY <1>4, <1>6
<1>8. 31 \in z  BY <1>3, <1>4, <1>7, NumIs
<1>9. Below(z, 31) = 0  BY <1>3, <1>4, <1>7, <1>8, NumIs
<1>10. z \cap 0 .. 31 - 1 = {}
  <2>1. z \cap 0 .. 31 - 1 \in Word  BY <1>3 DEF Word
  <2> QED  BY <1>9, <2>1, OnlyZero DEF Below
<1>11. z \in SUBSET (0 .. 31) /\ \A p \in 0 .. 31 : p # 31 => p \in 0 .. 31 - 1
  <2>1. z \in SUBSET (0 .. 31)  BY <1>3 DEF Word, Positions, MSB
  <2> QED  BY <2>1
<1>12. z = {31}  BY <1>8, <1>10, <1>11
<1> QED  BY <1>12 DEF z

\* A float without its fraction.
LEMMA float_f2iRight ==
    ASSUME NEW uf \in Word
    PROVE  LET r == float_f2i(uf)
               e == ExponentOf(uf)
               whole == IF e < 126 THEN 0
                        ELSE IF e < 150 THEN Significand(uf) \div Pow2[150 - e]
                        ELSE Significand(uf) * Pow2[e - 150]
               magnitude == IF MSB \in r THEN Val(Not(r)) + 1 ELSE Val(r)
           IN IF e >= 158 THEN r = {MSB}
              ELSE magnitude = whole /\ (MSB \in r <=> MSB \in uf /\ whole # 0)
<1> DEFINE r == float_f2i(uf)
           e == ExponentOf(uf)
           f == Val(FractionOf(uf))
           a == Val(And(uf, tmax))
           c == Or(FractionOf(uf), Lit(8388608))
           s == IF e > 149 THEN Shl(c, e - 150) ELSE Sar(c, 150 - e)
           whole == IF e < 126 THEN 0
                    ELSE IF e < 150 THEN Significand(uf) \div Pow2[150 - e]
                    ELSE Significand(uf) * Pow2[e - 150]
           magnitude == IF MSB \in r THEN Val(Not(r)) + 1 ELSE Val(r)
           small == a < 126 * FracSize + 1
           large == a > 158 * FracSize
           Goal == IF e >= 158 THEN r = {MSB}
                   ELSE magnitude = whole /\ (MSB \in r <=> MSB \in uf /\ whole # 0)
<1>1. e \in Nat /\ e < 256 /\ f \in Nat /\ f < FracSize /\ a = FracSize * e + f
  BY FloatParts
<1>2. r = IF small THEN Zero ELSE IF large THEN {MSB}
          ELSE IF MSB \in uf THEN Sub(Zero, s) ELSE s
  <2>1. small <=> a < \h3F000001  BY SMT DEF FracSize
  <2>2. large <=> TooLarge(And(uf, tmax))  BY SMT DEF FracSize, TooLarge
  <2> HIDE DEF small, large
  <2> QED  BY <2>1, <2>2, SMT DEF float_f2i
<1>3. c \in Word /\ c \in SUBSET (0 .. 23) /\ Val(c) = f + FracSize
  <2>1. Lit(8388608) = {23}  BY Masks, SMT
  <2>2. FractionOf(uf) \in Word /\ FractionOf(uf) \in SUBSET (0 .. 22)  BY FloatParts
  <2>3. c = FractionOf(uf) \cup {23}  BY <2>1, SMT DEF Or
  <2>4. 23 \notin 0 .. 22 /\ 23 \in 0 .. 23 /\ 0 .. 22 \in SUBSET (0 .. 23) /\ 0 .. 23 \in SUBSET Positions
    BY DEF Positions, MSB
  <2> HIDE DEF c
  <2>5. c \in Word /\ c \in SUBSET (0 .. 23)  BY <2>2, <2>3, <2>4 DEF Word
  <2>6. 23 \in c /\ c \ {23} = FractionOf(uf)  BY <2>2, <2>3, <2>4
  <2>7. Val(c) = Pow2[23] + Val(FractionOf(uf))  BY <2>5, <2>6, ValTakes
  <2> QED  BY <1>1, <2>5, <2>7, FracSizeIs
<1>4. e > 0 => Significand(uf) = f + FracSize  BY <1>1, SMT DEF Significand, FracSize
<1>5. \A n \in Nat : (e <= n => FracSize * e <= FracSize * n) /\ (e >= n => FracSize * e >= FracSize * n)
  BY <1>1, FracSizeIs
<1>6. FracSize \in Nat \ {0}  BY FracSizeIs
<1> HIDE DEF c
<1>7. 31 \notin c
  <2>1. 31 \notin 0 .. 23  OBVIOUS
  <2> QED  BY <1>3, <2>1
<1>8. CASE small
  <2>1. e < 126 \/ (e = 126 /\ f = 0)
    <3>1. e >= 127 => FracSize * e >= FracSize * 127  BY <1>5
    <3>2. e = 126 => FracSize * e = FracSize * 126  OBVIOUS
    <3> HIDE DEF e, f, a
    <3>3. FracSize * e \in Nat  BY <1>1, <1>6
    <3> QED  BY <1>1, <1>6, <1>8, <3>1, <3>2, <3>3
  <2>2. r = {} /\ MSB \notin r /\ Val(r) = 0  BY <1>2, <1>8, ValTakes DEF Zero
  <2>3. whole = 0
    <3>1. CASE e < 126  BY <3>1
    <3>2. CASE e = 126 /\ f = 0
      <4>1. Significand(uf) = FracSize  BY <1>4, <1>6, <3>2
      <4>2. Pow2[24] = 2 * FracSize  BY FracSizeIs, PowNext
      <4>3. Splits(FracSize, 2 * FracSize, 0, FracSize)  BY <1>6 DEF Splits
      <4>4. FracSize \div (2 * FracSize) = 0  BY <4>3, Division
      <4>5. 150 - e = 24  BY <3>2
      <4> HIDE DEF e
      <4> QED  BY <3>2, <4>1, <4>2, <4>4, <4>5
    <3> QED  BY <2>1, <3>1, <3>2
  <2> HIDE DEF r, whole
  <2>4. ~(e >= 158)  BY <1>1, <2>1
  <2> QED  BY <2>2, <2>3, <2>4 DEF r, whole
<1>9. CASE ~small /\ large
  <2>1. e >= 158
    <3>1. e <= 157 => FracSize * e <= FracSize * 157  BY <1>5
    <3> HIDE DEF e, f, a
    <3>2. FracSize * e \in Nat  BY <1>1, <1>6
    <3> QED  BY <1>1, <1>6, <1>9, <3>1, <3>2
  <2>2. r = {MSB}  BY <1>2, <1>9
  <2> HIDE DEF r
  <2> QED  BY <2>1, <2>2 DEF r
<1>10. CASE ~small /\ ~large
  <2>1. e >= 126 /\ (e <= 157 \/ (e = 158 /\ f = 0))
    <3>1. e <= 125 => FracSize * e <= FracSize * 125  BY <1>5
    <3>2. e >= 159 => FracSize * e >= FracSize * 159  BY <1>5
    <3>3. e = 158 => FracSize * e = FracSize * 158  OBVIOUS
    <3> HIDE DEF e, f, a
    <3>4. FracSize * e \in Nat  BY <1>1, <1>6
    <3> QED  BY <1>1, <1>6, <1>10, <3>1, <3>2, <3>3, <3>4
  <2>2. Significand(uf) = f + FracSize /\ e > 0  BY <1>1, <1>4, <2>1
  <2>3. r = IF MSB \in uf THEN Sub(Zero, s) ELSE s  BY <1>2, <1>10
  <2>4. CASE e = 158
    <3>1. f = 0 /\ e - 150 = 8 /\ e > 149  BY <2>1, <2>4
    <3>2. FractionOf(uf) = {}
      <4>1. FractionOf(uf) \in Word  BY FloatParts
      <4> QED  BY <3>1, <4>1, OnlyZero
    <3>3. c = {23}
      <4>1. Lit(8388608) = {23}  BY Masks, SMT
      <4> QED  BY <3>2, <4>1, SMT DEF c, Or
    <3>4. s = Shl({23}, 8)  BY <3>1, <3>3
    <3>5. Shl({23}, 8) = {31}  BY DEF Shl, Positions, MSB
    <3>6. r = {MSB}  BY <2>3, <3>4, <3>5, SmallestNegated DEF MSB
    <3> HIDE DEF r
    <3> QED  BY <2>4, <3>6 DEF r
  <2>5. CASE e <= 157
    <3>1. s \in Word /\ 31 \notin s /\ Val(s) = whole
      <4>1. CASE e > 149
        <5>1. e - 150 \in 0 .. 7 /\ e - 150 \in 0 .. 30 /\ 23 <= 30 - (e - 150)  BY <1>1, <2>5, <4>1
        <5>2. c \in SUBSET (0 .. 30 - (e - 150))
          <6>1. \A p \in 0 .. 23 : p \in 0 .. 30 - (e - 150)  BY <5>1
          <6> QED  BY <1>3, <6>1
        <5>3. s = Shl(c, e - 150)  BY <4>1
        <5>4. whole = Significand(uf) * Pow2[e - 150]  BY <1>1, <4>1
        <5>5. Shl(c, e - 150) \in Word /\ 31 \notin Shl(c, e - 150) /\ Val(Shl(c, e - 150)) = Pow2[e - 150] * Val(c)
          BY <1>3, <5>1, <5>2, ValShl
        <5>6. Pow2[e - 150] \in Nat  BY <5>1, PowPositive
        <5> HIDE DEF s, whole, e, f
        <5>7. Pow2[e - 150] * Val(c) = Significand(uf) * Pow2[e - 150]  BY <1>1, <1>3, <1>6, <2>2, <5>6
        <5> QED  BY <5>3, <5>4, <5>5, <5>7
      <4>2. CASE ~(e > 149)
        <5>1. 150 - e \in 0 .. 30 /\ 150 - e \in Nat  BY <1>1, <2>1, <4>2
        <5>2. s = Sar(c, 150 - e)  BY <4>2
        <5>3. whole = Significand(uf) \div Pow2[150 - e]  BY <1>1, <2>1, <4>2
        <5>4. /\ Sar(c, 150 - e) \in Word /\ 31 \notin Sar(c, 150 - e)
              /\ Val(c) = Below(c, 150 - e) + Pow2[150 - e] * Val(Sar(c, 150 - e))
          BY <1>3, <1>7, <5>1, ValSar
        <5>5. Below(c, 150 - e) \in Nat /\ Below(c, 150 - e) < Pow2[150 - e]
          <6>1. 150 - e \in 0 .. 32  BY <5>1
          <6> QED  BY <1>3, <6>1, BelowTakes, BelowBound
        <5>6. Pow2[150 - e] \in Nat \ {0} /\ Val(Sar(c, 150 - e)) \in Nat /\ Val(c) \in Nat
          BY <1>3, <5>1, <5>4, PowPositive, ValTakes
        <5>7. Val(c) = Significand(uf)  BY <1>3, <2>2
        <5> HIDE DEF s, whole, e, f
        <5>8. Splits(Val(c), Pow2[150 - e], Val(Sar(c, 150 - e)), Below(c, 150 - e))
          BY <5>4, <5>5, <5>6 DEF Splits
        <5>9. Val(c) \div Pow2[150 - e] = Val(Sar(c, 150 - e))  BY <5>8, Division
        <5> QED  BY <5>2, <5>3, <5>4, <5>7, <5>9
      <4> QED  BY <4>1, <4>2
    <3> HIDE DEF s, whole
    <3>2. CASE MSB \in uf
      <4>1. r = Sub(Zero, s)  BY <2>3, <3>2
      <4>2. (31 \in r <=> Val(s) # 0) /\ Val(s) = IF 31 \in r THEN Val(Not(r)) + 1 ELSE Val(r)
        BY <3>1, <4>1, Negated
      <4>3. magnitude = whole /\ (MSB \in r <=> MSB \in uf /\ whole # 0)  BY <3>1, <3>2, <4>2 DEF MSB
      <4>4. ~(e >= 158)  BY <1>1, <2>5
      <4> HIDE DEF magnitude
      <4> QED  BY <4>3, <4>4 DEF magnitude, r, whole
    <3>3. CASE MSB \notin uf
      <4>1. r = s  BY <2>3, <3>3
      <4>2. magnitude = whole /\ (MSB \in r <=> MSB \in uf /\ whole # 0)  BY <3>1, <3>3, <4>1 DEF MSB
      <4>3. ~(e >= 158)  BY <1>1, <2>5
      <4> HIDE DEF magnitude
      <4> QED  BY <4>2, <4>3 DEF magnitude, r, whole
    <3> QED  BY <3>2, <3>3
  <2> QED  BY <2>1, <2>4, <2>5
<1> HIDE DEF Goal
<1> QED  BY <1>8, <1>9, <1>10

---------------------------------------------------------------------------
(* The calls. *)

BitsRight == ComparesRight /\ OverflowSeen /\ BitsMoved /\ FewestBits /\ HalvesToEven /\ TruncatesToZero

\* What is asked of a puzzle is asked of its own calls only.
LEMMA OthersUntouched ==
    /\ call'.fn \notin {"isGreater", "isEqual", "logicalNeg", "sign"} => ComparesRight'
    /\ call'.fn \notin {"subOK", "satAdd"} => OverflowSeen'
    /\ call'.fn \notin {"byteSwap", "rotateRight", "evenBits", "tmax"} => BitsMoved'
    /\ call'.fn # "howManyBits" => FewestBits'
    /\ call'.fn # "float_half" => HalvesToEven'
    /\ call'.fn # "float_f2i" => TruncatesToZero'
<1>1. call'.fn \notin {"isGreater", "isEqual", "logicalNeg", "sign"} => ComparesRight'  BY DEF ComparesRight
<1>2. call'.fn \notin {"subOK", "satAdd"} => OverflowSeen'  BY DEF OverflowSeen
<1>3. call'.fn \notin {"byteSwap", "rotateRight", "evenBits", "tmax"} => BitsMoved'  BY DEF BitsMoved
<1>4. call'.fn # "howManyBits" => FewestBits'  BY DEF FewestBits
<1>5. call'.fn # "float_half" => HalvesToEven'  BY DEF HalvesToEven
<1>6. call'.fn # "float_f2i" => TruncatesToZero'  BY DEF TruncatesToZero
<1> QED  BY <1>1, <1>2, <1>3, <1>4, <1>5, <1>6

\* evenBits and tmax.
LEMMA ConstantsRight == Constants => BitsRight'
<1>1. ASSUME Returns([fn |-> "evenBits"], evenBits) PROVE BitsRight'
  <2>1. call'.fn = "evenBits" /\ result' = evenBits  BY <1>1 DEF Returns
  <2>2. BitsMoved'  BY <2>1, evenBitsRight DEF BitsMoved
  <2> QED  BY <2>1, <2>2, OthersUntouched DEF BitsRight
<1>2. ASSUME Returns([fn |-> "tmax"], tmax) PROVE BitsRight'
  <2>1. call'.fn = "tmax" /\ result' = tmax  BY <1>2 DEF Returns
  <2>2. \A x \in Words : ~Less(result', x)  BY <2>1, WordsAssumption, tmaxRight DEF Word
  <2>3. BitsMoved'  BY <2>1, <2>2 DEF BitsMoved
  <2> QED  BY <2>1, <2>3, OthersUntouched DEF BitsRight
<1> QED  BY <1>1, <1>2 DEF Constants

\* Puzzles on one word.
LEMMA OneWordRight == OneWord => BitsRight'
<1> SUFFICES ASSUME NEW x \in Words, OneWord!(x) PROVE BitsRight'
  BY DEF OneWord
<1>0. x \in Word  BY WordsAssumption DEF Word
<1>1. CASE Returns([fn |-> "logicalNeg", x |-> x], logicalNeg(x))
  <2>1. call'.fn = "logicalNeg" /\ call'.x = x /\ result' = logicalNeg(x)  BY <1>1 DEF Returns
  <2>2. ComparesRight'  BY <1>0, <2>1, logicalNegRight DEF ComparesRight
  <2> QED  BY <2>1, <2>2, OthersUntouched DEF BitsRight
<1>2. CASE Returns([fn |-> "sign", x |-> x], sign(x))
  <2>1. call'.fn = "sign" /\ call'.x = x /\ result' = sign(x)  BY <1>2 DEF Returns
  <2>2. ComparesRight'  BY <1>0, <2>1, signRight DEF ComparesRight
  <2> QED  BY <2>1, <2>2, OthersUntouched DEF BitsRight
<1>3. CASE Returns([fn |-> "howManyBits", x |-> x], howManyBits(x))
  <2>1. call'.fn = "howManyBits" /\ call'.x = x /\ result' = howManyBits(x)  BY <1>3 DEF Returns
  <2>2. Val(howManyBits(x)) = Min(Enough(x))  BY <1>0, howManyBitsRight
  <2>3. FewestBits'  BY <2>1, <2>2, Zenon DEF FewestBits, Enough
  <2> QED  BY <2>1, <2>3, OthersUntouched DEF BitsRight
<1>4. ASSUME NEW n \in 0 .. 3, NEW m \in 0 .. 3,
             Returns([fn |-> "byteSwap", x |-> x, n |-> n, m |-> m], byteSwap(x, n, m))
      PROVE  BitsRight'
  <2>1. call'.fn = "byteSwap" /\ call'.x = x /\ call'.n = n /\ call'.m = m /\ result' = byteSwap(x, n, m)
    BY <1>4 DEF Returns
  <2>2. BitsMoved'  BY <1>0, <2>1, byteSwapRight DEF BitsMoved
  <2> QED  BY <2>1, <2>2, OthersUntouched DEF BitsRight
<1>5. ASSUME NEW n \in 0 .. 31, NEW modulo \in BOOLEAN,
             Returns([fn |-> "rotateRight", x |-> x, n |-> n], rotateRight(x, n, modulo))
      PROVE  BitsRight'
  <2>1. call'.fn = "rotateRight" /\ call'.x = x /\ call'.n = n /\ result' = rotateRight(x, n, modulo)
    BY <1>5 DEF Returns
  <2>2. BitsMoved'  BY <1>0, <2>1, rotateRightRight DEF BitsMoved
  <2> QED  BY <2>1, <2>2, OthersUntouched DEF BitsRight
<1> QED  BY <1>1, <1>2, <1>3, <1>4, <1>5

\* Puzzles on two words.
LEMMA TwoWordsRight == TwoWords => BitsRight'
<1> SUFFICES ASSUME NEW x \in Words, NEW y \in Words, TwoWords!(x, y) PROVE BitsRight'
  BY DEF TwoWords
<1>0. x \in Word /\ y \in Word  BY WordsAssumption DEF Word
<1>1. CASE Returns([fn |-> "isEqual", x |-> x, y |-> y], isEqual(x, y))
  <2>1. call'.fn = "isEqual" /\ call'.x = x /\ call'.y = y /\ result' = isEqual(x, y)  BY <1>1 DEF Returns
  <2>2. ComparesRight'  BY <1>0, <2>1, isEqualRight DEF ComparesRight
  <2> QED  BY <2>1, <2>2, OthersUntouched DEF BitsRight
<1>2. CASE Returns([fn |-> "isGreater", x |-> x, y |-> y], isGreater(x, y))
  <2>1. call'.fn = "isGreater" /\ call'.x = x /\ call'.y = y /\ result' = isGreater(x, y)  BY <1>2 DEF Returns
  <2>2. ComparesRight'  BY <1>0, <2>1, isGreaterRight DEF ComparesRight
  <2> QED  BY <2>1, <2>2, OthersUntouched DEF BitsRight
<1>3. CASE Returns([fn |-> "subOK", x |-> x, y |-> y], subOK(x, y))
  <2>1. call'.fn = "subOK" /\ call'.x = x /\ call'.y = y /\ result' = subOK(x, y)  BY <1>3 DEF Returns
  <2>2. OverflowSeen'  BY <1>0, <2>1, subOKRight DEF OverflowSeen
  <2> QED  BY <2>1, <2>2, OthersUntouched DEF BitsRight
<1>4. CASE Returns([fn |-> "satAdd", x |-> x, y |-> y], satAdd(x, y))
  <2>1. call'.fn = "satAdd" /\ call'.x = x /\ call'.y = y /\ result' = satAdd(x, y)  BY <1>4 DEF Returns
  <2>2. OverflowSeen'  BY <1>0, <2>1, satAddRight DEF OverflowSeen
  <2> QED  BY <2>1, <2>2, OthersUntouched DEF BitsRight
<1> QED  BY <1>1, <1>2, <1>3, <1>4

\* Puzzles on floats.
LEMMA FloatingPointRight == FloatingPoint => BitsRight'
<1> SUFFICES ASSUME NEW uf \in Floats, FloatingPoint!(uf) PROVE BitsRight'
  BY DEF FloatingPoint
<1>0. uf \in Word  BY WordsAssumption DEF Word
<1>1. CASE Returns([fn |-> "float_half", x |-> uf], float_half(uf))
  <2>1. call'.fn = "float_half" /\ call'.x = uf /\ result' = float_half(uf)  BY <1>1 DEF Returns
  <2>2. HalvesToEven'  BY <1>0, <2>1, float_halfRight DEF HalvesToEven
  <2> QED  BY <2>1, <2>2, OthersUntouched DEF BitsRight
<1>2. CASE Returns([fn |-> "float_f2i", x |-> uf], float_f2i(uf))
  <2>1. call'.fn = "float_f2i" /\ call'.x = uf /\ result' = float_f2i(uf)  BY <1>2 DEF Returns
  <2>2. TruncatesToZero'  BY <1>0, <2>1, float_f2iRight DEF TruncatesToZero
  <2> QED  BY <2>1, <2>2, OthersUntouched DEF BitsRight
<1> QED  BY <1>1, <1>2

\* Before the first call nothing is asked.
LEMMA BitsBegin == BitsInit => BitsRight
<1> SUFFICES ASSUME BitsInit PROVE BitsRight
  OBVIOUS
<1>1. call.fn = "none"  BY DEF BitsInit, NoCall
<1> QED
  BY <1>1 DEF BitsRight, ComparesRight, OverflowSeen, BitsMoved, FewestBits, HalvesToEven, TruncatesToZero

\* Every call returns what is asked of it.
LEMMA BitsGoOn == BitsRight /\ [BitsNext]_bitsVars => BitsRight'
<1> SUFFICES ASSUME BitsRight, [BitsNext]_bitsVars PROVE BitsRight'
  OBVIOUS
<1>1. CASE Done
  <2>1. call'.fn = "none"  BY <1>1 DEF Done, NoCall
  <2> QED  BY <2>1, OthersUntouched DEF BitsRight
<1>2. CASE UNCHANGED bitsVars
  BY <1>2 DEF bitsVars, BitsRight, ComparesRight, OverflowSeen, BitsMoved, FewestBits, HalvesToEven, TruncatesToZero
<1> QED  BY <1>1, <1>2, ConstantsRight, OneWordRight, TwoWordsRight, FloatingPointRight DEF BitsNext

\* Comparisons are those of the numbers, and overflows are seen where the
\* number is out of range, whatever the words: overflowing differences and
\* the smallest number, which has no negative, included.
THEOREM PuzzlesCompareAndAdd == BitsSpec => []NumbersRight
<1>1. BitsRight => NumbersRight  BY DEF BitsRight, NumbersRight
<1> QED  BY <1>1, BitsBegin, BitsGoOn, PTL DEF BitsSpec

\* howManyBits finds the fewest bits a number can be written in.
THEOREM PuzzlesCountBits == BitsSpec => []FewestBits
<1>1. BitsRight => FewestBits  BY DEF BitsRight
<1> QED  BY <1>1, BitsBegin, BitsGoOn, PTL DEF BitsSpec

\* Bytes are swapped and bits rotated without losing one or copying the sign,
\* on machines that reduce a shift's count and on those that do not.
THEOREM PuzzlesMoveBits == BitsSpec => []BitsMoved
<1>1. BitsRight => BitsMoved  BY DEF BitsRight
<1> QED  BY <1>1, BitsBegin, BitsGoOn, PTL DEF BitsSpec

\* float_half rounds to even and float_f2i to zero, for every float: the
\* denormal and the infinite, and those next to a limit, included.
THEOREM PuzzlesOnFloats == BitsSpec => []FloatsRight
<1>1. BitsRight => FloatsRight  BY DEF BitsRight, FloatsRight
<1> QED  BY <1>1, BitsBegin, BitsGoOn, PTL DEF BitsSpec
=============================================================================
