-------------------------- MODULE RioReaderProofs --------------------------
(***************************************************************************)
(* What RioReader relays, for answers and buffers of every size and every  *)
(* way in which read() may cut an answer up or fail.                       *)
(***************************************************************************)
EXTENDS RioReader, Foundations, SequenceTheorems

Text == Bytes \cup {Nul}

---------------------------------------------------------------------------
(* The bytes that are not NULs *)

\* Kept computes what its definition says: the recursion ends.
LEMMA KeptRecursion ==
    ASSUME NEW s \in Seq(Text)
    PROVE  /\ Kept(s) \in [0 .. Len(s) -> Seq(Bytes)]
           /\ Kept(s)[0] = <<>>
           /\ \A i \in 1 .. Len(s) :
                Kept(s)[i] = IF s[i] = Nul THEN Kept(s)[i - 1] ELSE Append(Kept(s)[i - 1], s[i])
<1> DEFINE V == Seq(Bytes)
           n == Len(s)
           step == [p \in (1 .. n) \X V |-> IF s[p[1]] = Nul THEN p[2] ELSE Append(p[2], s[p[1]])]
           Body(f) == [i \in 0 .. n |-> IF i = 0 THEN <<>> ELSE IF s[i] = Nul THEN f[i - 1] ELSE Append(f[i - 1], s[i])]
<1>0. n \in Nat /\ <<>> \in V
  OBVIOUS
<1>1. step \in [(1 .. n) \X V -> V]
  <2>1. ASSUME NEW p \in (1 .. n) \X V PROVE step[p] \in V
    <3>1. p[1] \in 1 .. n /\ p[2] \in V  OBVIOUS
    <3>2. s[p[1]] \in Text
      <4>1. s \in [1 .. n -> Text]  OBVIOUS
      <4> HIDE DEF n
      <4> QED  BY <3>1, <4>1
    <3> QED  BY <3>1, <3>2, AppendProperties DEF Text
  <2> QED  BY <2>1
<1>2. PICK f \in [0 .. n -> V] : f[0] = <<>> /\ \A i \in 1 .. n : f[i] = step[<<i, f[i - 1]>>]
  <2>1. step \in Steps(V, n)  BY <1>1 DEF Steps
  <2>2. PICK f : Follows(f, V, <<>>, n, step)
    <3> HIDE DEF V, n, step, Body
    <3> QED  BY <1>0, <2>1, RecursionExists
  <2> QED  BY <2>2, Zenon DEF Follows
<1>3. ASSUME NEW i \in 1 .. n
      PROVE  f[i] = IF s[i] = Nul THEN f[i - 1] ELSE Append(f[i - 1], s[i])
  <2>1. <<i, f[i - 1]>> \in (1 .. n) \X V
    <3>1. i - 1 \in 0 .. n  BY <1>0
    <3> QED  BY <3>1
  <2>2. step[<<i, f[i - 1]>>] = IF s[i] = Nul THEN f[i - 1] ELSE Append(f[i - 1], s[i])
    BY <2>1
  <2> QED  BY <1>2, <2>2
<1>4. f = Body(f)
  <2>1. ASSUME NEW i \in 0 .. n PROVE f[i] = Body(f)[i]
    <3>1. CASE i = 0  BY <3>1, <1>2
    <3>2. CASE i # 0
      <4>1. i \in 1 .. n  BY <3>2, <1>0
      <4>2. f[i] = IF s[i] = Nul THEN f[i - 1] ELSE Append(f[i - 1], s[i])  BY <4>1, <1>3
      <4> HIDE DEF n, V, step
      <4> QED  BY <4>2, <3>2
    <3> QED  BY <3>1, <3>2
  <2> QED  BY <2>1
<1>5. Kept(s) = Body(Kept(s))
  <2>1. Kept(s) = CHOOSE g : g = Body(g)
    BY DEF Kept
  <2> HIDE DEF Body
  <2> QED  BY <1>4, <2>1
<1>6. ASSUME NEW i \in 1 .. n
      PROVE  Kept(s)[i] = IF s[i] = Nul THEN Kept(s)[i - 1] ELSE Append(Kept(s)[i - 1], s[i])
  <2>1. i \in 0 .. n /\ i # 0  BY <1>0
  <2>2. Body(Kept(s))[i] = IF s[i] = Nul THEN Kept(s)[i - 1] ELSE Append(Kept(s)[i - 1], s[i])
    <3> HIDE DEF n
    <3> QED  BY <2>1
  <2> HIDE DEF Body
  <2> QED  BY <1>5, <2>2
<1>7. Kept(s)[0] = <<>>
  <2>1. Body(Kept(s))[0] = <<>>  BY <1>0
  <2> HIDE DEF Body
  <2> QED  BY <1>5, <2>1
<1>8. {i \in 0 .. n : Kept(s)[i] \in V} = 0 .. n
  <2> DEFINE Typed == {i \in 0 .. n : Kept(s)[i] \in V}
  <2>1. Typed \in SUBSET (0 .. n) /\ 0 \in Typed
    <3> HIDE DEF n, V
    <3> QED  BY <1>0, <1>7
  <2>2. ASSUME NEW i \in 0 .. n - 1, i \in Typed PROVE i + 1 \in Typed
    <3>1. i + 1 \in 1 .. n /\ (i + 1) - 1 = i /\ i + 1 \in 0 .. n  BY <1>0
    <3>2. Kept(s)[i + 1] = IF s[i + 1] = Nul THEN Kept(s)[i] ELSE Append(Kept(s)[i], s[i + 1])
      BY <3>1, <1>6
    <3>3. s[i + 1] \in Text
      <4>1. s \in [1 .. n -> Text]  BY SeqDef
      <4> QED  BY <3>1, <4>1
    <3>4. Kept(s)[i + 1] \in V
      BY <2>2, <3>2, <3>3, AppendProperties DEF Text
    <3> QED  BY <3>1, <3>4
  <2> HIDE DEF Typed
  <2>3. Typed = 0 .. n
    <3> HIDE DEF n
    <3> QED  BY <1>0, <2>1, <2>2, BoundedInd
  <2> QED  BY <2>3 DEF Typed
<1>9. Kept(s) \in [0 .. n -> V]
  <2>1. Kept(s) = [i \in 0 .. n |-> Kept(s)[i]]
    <3> HIDE DEF n
    <3> QED  BY <1>5
  <2>2. \A i \in 0 .. n : Kept(s)[i] \in V  BY <1>8
  <2> HIDE DEF n, V
  <2> QED  BY <2>1, <2>2
<1> QED  BY <1>6, <1>7, <1>9

\* What is kept of the first k bytes depends on those alone.
LEMMA KeptOfPrefix ==
    ASSUME NEW s \in Seq(Text), NEW t \in Seq(Text), NEW n \in Nat,
           n <= Len(s), n <= Len(t), \A i \in 1 .. n : s[i] = t[i]
    PROVE  Kept(s)[n] = Kept(t)[n]
<1> DEFINE Same == {i \in 0 .. n : Kept(s)[i] = Kept(t)[i]}
<1>1. Len(s) \in Nat /\ Len(t) \in Nat  OBVIOUS
<1>2. Same \in SUBSET (0 .. n) /\ 0 \in Same
  BY KeptRecursion
<1>3. ASSUME NEW i \in 0 .. n - 1, i \in Same PROVE i + 1 \in Same
  <2>1. i + 1 \in 1 .. Len(s) /\ i + 1 \in 1 .. Len(t) /\ i + 1 \in 1 .. n /\ (i + 1) - 1 = i
    BY <1>1
  <2>2. Kept(s)[i + 1] = IF s[i + 1] = Nul THEN Kept(s)[i] ELSE Append(Kept(s)[i], s[i + 1])
    BY <2>1, KeptRecursion
  <2>3. Kept(t)[i + 1] = IF t[i + 1] = Nul THEN Kept(t)[i] ELSE Append(Kept(t)[i], t[i + 1])
    BY <2>1, KeptRecursion
  <2> QED  BY <1>3, <2>1, <2>2, <2>3
<1>4. Same = 0 .. n
  <2> HIDE DEF Same
  <2> QED  BY <1>2, <1>3, BoundedInd
<1>5. n \in Same
  <2> HIDE DEF Same
  <2> QED  BY <1>4
<1> QED  BY <1>5

\* What is kept is without NULs, and nothing is kept of nothing.
LEMMA FromServerType ==
    /\ \A s \in Seq(Text) : FromServer(s) \in Seq(Bytes)
    /\ FromServer(<<>>) = <<>>
<1>1. ASSUME NEW s \in Seq(Text) PROVE FromServer(s) \in Seq(Bytes)
  <2>1. Len(s) \in 0 .. Len(s)  BY LenProperties
  <2> QED  BY <2>1, KeptRecursion DEF FromServer
<1>2. FromServer(<<>>) = <<>>
  <2>1. <<>> \in Seq(Text) /\ Len(<<>>) = 0  BY EmptySeq
  <2> QED  BY <2>1, KeptRecursion DEF FromServer
<1> QED  BY <1>1, <1>2

\* One byte more.
LEMMA FromServerAppend ==
    ASSUME NEW s \in Seq(Text), NEW b \in Text
    PROVE  FromServer(Append(s, b)) = IF b = Nul THEN FromServer(s) ELSE Append(FromServer(s), b)
<1> DEFINE t == Append(s, b)
           n == Len(s)
<1>1. t \in Seq(Text) /\ Len(t) = n + 1 /\ n \in Nat /\ t[n + 1] = b /\ \A i \in 1 .. n : t[i] = s[i]
  BY AppendProperties, LenProperties
<1> HIDE DEF t
<1>2. Kept(s)[n] = Kept(t)[n]
  <2>1. n <= Len(s) /\ n <= Len(t) /\ \A i \in 1 .. n : s[i] = t[i]  BY <1>1
  <2> HIDE DEF n
  <2> QED  BY <1>1, <2>1, KeptOfPrefix
<1>3. Kept(t)[n + 1] = IF t[n + 1] = Nul THEN Kept(t)[n] ELSE Append(Kept(t)[n], t[n + 1])
  <2>1. n + 1 \in 1 .. Len(t) /\ (n + 1) - 1 = n  BY <1>1
  <2> HIDE DEF n
  <2> QED  BY <1>1, <2>1, KeptRecursion
<1>4. FromServer(t) = Kept(t)[n + 1] /\ FromServer(s) = Kept(s)[n]
  BY <1>1 DEF FromServer
<1> QED  BY <1>1, <1>2, <1>3, <1>4 DEF t

\* ConcatAssociative, with the sets named.
LEMMA ThreeParts ==
    /\ \A s, t, u \in Seq(Text) : (s \o t) \o u = s \o (t \o u)
    /\ \A s, t, u \in Seq(Bytes) : (s \o t) \o u = s \o (t \o u)
<1>1. ASSUME NEW s \in Seq(Text), NEW t \in Seq(Text), NEW u \in Seq(Text)
      PROVE  (s \o t) \o u = s \o (t \o u)
  BY ConcatAssociative
<1>2. ASSUME NEW s \in Seq(Bytes), NEW t \in Seq(Bytes), NEW u \in Seq(Bytes)
      PROVE  (s \o t) \o u = s \o (t \o u)
  BY ConcatAssociative
<1> QED  BY <1>1, <1>2

\* Bytes of the answer are all kept.
LEMMA FromServerConcat ==
    ASSUME NEW s \in Seq(Text), NEW t \in Seq(Bytes)
    PROVE  FromServer(s \o t) = FromServer(s) \o t
<1> DEFINE n == Len(t)
           first(i) == SubSeq(t, 1, i)
           Done == {i \in 0 .. n : FromServer(s \o first(i)) = FromServer(s) \o first(i)}
<1>1. n \in Nat /\ t \in Seq(Text) /\ FromServer(s) \in Seq(Bytes)
  BY FromServerType DEF Text
<1>2. ASSUME NEW i \in 0 .. n PROVE first(i) \in Seq(Bytes) /\ first(i) \in Seq(Text)
  <2>1. \A j \in 1 .. i : t[j] \in Bytes  BY ElementOfSeq
  <2>2. first(i) \in Seq(Bytes)  BY <2>1, SubSeqProperties
  <2> HIDE DEF first
  <2> QED  BY <2>2 DEF Text
<1>3. 0 \in Done
  <2>1. first(0) = <<>>  OBVIOUS
  <2> HIDE DEF first
  <2>2. s \o <<>> = s /\ FromServer(s) \o <<>> = FromServer(s)  BY <1>1, ConcatEmptySeq
  <2>3. FromServer(s \o first(0)) = FromServer(s) \o first(0)
    BY <2>1, <2>2, Zenon
  <2> QED  BY <1>1, <2>3
<1>4. ASSUME NEW i \in 0 .. n - 1, i \in Done PROVE i + 1 \in Done
  <2>1. i + 1 \in 1 .. Len(t) /\ i \in 0 .. n /\ i + 1 \in 0 .. n /\ 1 \in 1 .. Len(t)  BY <1>1
  <2>2. t[i + 1] \in Bytes /\ t[i + 1] # Nul /\ t[i + 1] \in Text
    BY <2>1, ElementOfSeq DEF Bytes, Newline, Nul, Text
  <2>3. first(i + 1) = first(i) \o <<t[i + 1]>>
    <3>1. i + 1 \in 1 .. Len(t) /\ (i + 1) - 1 = i  BY <2>1
    <3> QED  BY <2>1, <3>1, SubSeqRecursiveSecond
  <2> HIDE DEF first
  <2>8. first(i) \in Seq(Text) /\ first(i) \in Seq(Bytes)  BY <1>2, <2>1
  <2>4. s \o first(i + 1) = Append(s \o first(i), t[i + 1])
    <3>1. <<t[i + 1]>> \in Seq(Text)  BY <2>2
    <3>2. s \o first(i + 1) = (s \o first(i)) \o <<t[i + 1]>>
      <4> DEFINE u == first(i)
                 v == <<t[i + 1]>>
      <4>1. u \in Seq(Text) /\ v \in Seq(Text) /\ first(i + 1) = u \o v  BY <2>3, <2>8, <3>1
      <4> HIDE DEF u, v
      <4>2. (s \o u) \o v = s \o (u \o v)  BY <4>1, ThreeParts
      <4> QED  BY <4>1, <4>2 DEF u, v
    <3>3. s \o first(i) \in Seq(Text)  BY <1>2, <2>1, ConcatProperties
    <3> QED  BY <2>2, <3>2, <3>3, AppendIsConcat
  <2>5. FromServer(s) \o first(i + 1) = Append(FromServer(s) \o first(i), t[i + 1])
    <3>1. <<t[i + 1]>> \in Seq(Bytes)  BY <2>2
    <3>2. FromServer(s) \o first(i + 1) = (FromServer(s) \o first(i)) \o <<t[i + 1]>>
      <4> DEFINE u == first(i)
                 v == <<t[i + 1]>>
                 w == FromServer(s)
      <4>1. u \in Seq(Bytes) /\ v \in Seq(Bytes) /\ w \in Seq(Bytes) /\ first(i + 1) = u \o v
        BY <1>1, <2>3, <2>8, <3>1
      <4> HIDE DEF u, v, w
      <4>2. (w \o u) \o v = w \o (u \o v)  BY ONLY <4>1, ThreeParts
      <4> QED  BY <4>1, <4>2 DEF u, v, w
    <3>3. FromServer(s) \o first(i) \in Seq(Bytes)  BY <1>1, <1>2, <2>1, ConcatProperties
    <3> QED  BY <2>2, <3>2, <3>3, AppendIsConcat
  <2>6. s \o first(i) \in Seq(Text)  BY <1>2, <2>1, ConcatProperties
  <2>7. FromServer(s \o first(i + 1)) = Append(FromServer(s \o first(i)), t[i + 1])
    BY <2>2, <2>4, <2>6, FromServerAppend
  <2> QED  BY <1>4, <2>1, <2>5, <2>7
<1>5. Done = 0 .. n
  <2>1. Done \in SUBSET (0 .. n)  OBVIOUS
  <2> HIDE DEF Done, n
  <2> QED  BY <1>1, <1>3, <1>4, <2>1, BoundedInd
<1>6. n \in Done
  <2> HIDE DEF Done
  <2> QED  BY <1>1, <1>5
<1>7. first(n) = t
  BY SubSeqFull
<1> HIDE DEF first
<1> QED  BY <1>6, <1>7

---------------------------------------------------------------------------
(* The relay *)

TypeOK == /\ answer \in Seq(Bytes) /\ unread \in 0 .. Len(answer)
          /\ rio_buf \in Seq(Bytes) /\ line \in Seq(Bytes) /\ relayed \in Seq(Text)
          /\ over \in {"no"} \cup Endings

IInv == TypeOK /\ LineFits /\ BytesOnce

\* Nothing has been read or relayed at first.
LEMMA InitInv == Init => IInv
<1> SUFFICES ASSUME Init PROVE IInv
  OBVIOUS
<1>1. answer \in Seq(Bytes) /\ Len(answer) \in Nat
  <2>1. PICK k \in 0 .. MaxBytes : answer \in [1 .. k -> Bytes]  BY DEF Init
  <2>2. k \in Nat  BY SizesAssumption
  <2>3. answer \in Seq(Bytes)  BY <2>1, <2>2
  <2> QED  BY <2>3, LenProperties
<1>2. TypeOK
  <2>1. <<>> \in Seq(Bytes) /\ <<>> \in Seq(Text)  OBVIOUS
  <2>2. Len(answer) \in 0 .. Len(answer)  BY <1>1
  <2> QED  BY <1>1, <2>1, <2>2, Zenon DEF Init, TypeOK
<1>3. LineFits
  BY EmptySeq, SizesAssumption DEF Init, LineFits
<1>4. BytesOnce
  <2>1. Taken = 0  BY <1>1 DEF Init, Taken
  <2>2. SubSeq(answer, 1, 0) = <<>>  BY SubSeqEmpty
  <2>3. FromServer(relayed) = <<>>  BY FromServerType DEF Init
  <2>4. <<>> \o <<>> \o <<>> = <<>>  OBVIOUS
  <2> QED  BY <2>1, <2>2, <2>3, <2>4 DEF Init, BytesOnce
<1> QED  BY <1>2, <1>3, <1>4 DEF IInv

\* A refill continues where the last one stopped.
LEMMA RefillKeeps == IInv /\ Refill => IInv'
<1> SUFFICES ASSUME IInv, Refill PROVE IInv'
  OBVIOUS
<1> USE DEF IInv, TypeOK
<1>1. PICK k \in 1 .. RioBufSize : /\ k <= unread
                                   /\ rio_buf' = SubSeq(answer, Taken + 1, Taken + k)
                                   /\ unread' = unread - k
  BY DEF Refill
<1>2. k \in Nat \ {0} /\ Len(answer) \in Nat
  BY SizesAssumption, LenProperties
<1>3. Taken \in 0 .. Len(answer) /\ Taken' = Taken + k /\ Taken + k \in 0 .. Len(answer)
  <2> DEFINE n == Len(answer)
  <2>1. answer' = answer /\ unread \in 0 .. n /\ n \in Nat  BY <1>2 DEF Refill
  <2>2. Taken = n - unread /\ Taken' = n - unread'  BY <2>1 DEF Taken
  <2> HIDE DEF n
  <2>3. n - unread \in 0 .. n /\ n - unread' = (n - unread) + k /\ (n - unread) + k \in 0 .. n
    BY <1>1, <1>2, <2>1
  <2> QED  BY <2>2, <2>3 DEF n
<1>4. SubSeq(answer, Taken + 1, Taken + k) \in Seq(Bytes)
  <2>1. \A i \in Taken + 1 .. Taken + k : answer[i] \in Bytes
    BY <1>2, <1>3, ElementOfSeq
  <2>2. Taken + 1 \in Int /\ Taken + k \in Int  BY <1>2, <1>3
  <2> HIDE DEF TypeOK
  <2> QED  BY <2>1, <2>2, SubSeqProperties
<1>5. TypeOK'
  BY <1>1, <1>2, <1>4 DEF Refill
<1>6. LineFits'
  BY DEF LineFits, Refill
<1>7. BytesOnce'
  <2>1. SubSeq(answer, 1, Taken) \o SubSeq(answer, Taken + 1, Taken + k) = SubSeq(answer, 1, Taken + k)
    <3>1. 1 \in 1 .. Len(answer) + 1 /\ Taken \in 1 - 1 .. Len(answer) /\ Taken + k \in Taken .. Len(answer)
      BY <1>2, <1>3
    <3>2. answer \in Seq(Bytes)  OBVIOUS
    <3> HIDE DEF TypeOK, Taken
    <3> QED  BY <3>1, <3>2, ConcatAdjacentSubSeq
  <2>2. FromServer(relayed) \o line = SubSeq(answer, 1, Taken)
    <3> DEFINE r == FromServer(relayed)
    <3>1. r \in Seq(Bytes)  BY FromServerType
    <3> HIDE DEF r
    <3>2. r \o line \o <<>> = r \o line  BY <3>1
    <3> QED  BY <3>2 DEF BytesOnce, Refill, Reads, r
  <2>3. answer' = answer /\ line' = line /\ relayed' = relayed  BY DEF Refill
  <2> HIDE DEF IInv, TypeOK, Taken
  <2> QED  BY <1>1, <1>3, <2>1, <2>2, <2>3, Zenon DEF BytesOnce
<1> QED  BY <1>5, <1>6, <1>7

\* Appending the head of what follows moves it across.
LEMMA AppendShifts ==
    ASSUME NEW r \in Seq(Bytes), NEW l \in Seq(Bytes), NEW h \in Bytes, NEW t \in Seq(Bytes)
    PROVE  r \o Append(l, h) \o t = r \o l \o (<<h>> \o t)
<1> DEFINE b == <<h>>
           x == r \o l
<1>1. Append(l, h) = l \o b /\ b \in Seq(Bytes)  OBVIOUS
<1>2. x \in Seq(Bytes)  OBVIOUS
<1> HIDE DEF b
<1>3. r \o (l \o b) = x \o b  BY <1>1
<1> HIDE DEF x
<1>4. (x \o b) \o t = x \o (b \o t)  BY <1>1, <1>2
<1> QED  BY <1>1, <1>3, <1>4 DEF b, x

\* The byte that leaves the buffer is the next of the line, and there is room
\* for it because the line has not ended.
LEMMA TakeByteKeeps == IInv /\ TakeByte => IInv'
<1> SUFFICES ASSUME IInv, TakeByte PROVE IInv'
  OBVIOUS
<1> USE DEF IInv, TypeOK
<1>1. Head(rio_buf) \in Bytes /\ Tail(rio_buf) \in Seq(Bytes)
  BY HeadTailProperties DEF TakeByte
<1>2. /\ line' \in Seq(Bytes) /\ Len(line') = Len(line) + 1 /\ Len(line) \in Nat
      /\ \A i \in 1 .. Len(line) : line'[i] = line[i]
  BY <1>1, AppendProperties, LenProperties DEF TakeByte
<1>3. TypeOK'
  BY <1>1, <1>2 DEF TakeByte
<1>4. LineFits'
  <2>1. line = <<>> \/ (Len(line) # MaxLine - 1 /\ line[Len(line)] # Newline)
    BY DEF TakeByte, LineEnds, Last
  <2>2. line = <<>> \/ (Len(line) < MaxLine - 1 /\ \A i \in 1 .. Len(line) : line[i] # Newline)
    BY <1>2, <2>1, SizesAssumption DEF LineFits
  <2>3. CASE line = <<>>
    BY <1>2, <2>3, EmptySeq, SizesAssumption DEF LineFits
  <2>4. CASE line # <<>>
    BY <1>2, <2>2, <2>4, SizesAssumption DEF LineFits
  <2> QED  BY <2>3, <2>4
<1>5. BytesOnce'
  <2> DEFINE r == FromServer(relayed)
             h == Head(rio_buf)
             t == Tail(rio_buf)
  <2>1. r \in Seq(Bytes) /\ h \in Bytes /\ t \in Seq(Bytes) /\ line \in Seq(Bytes)
    BY <1>1, FromServerType
  <2>2. rio_buf = <<h>> \o t
    BY DEF TakeByte
  <2>3. line' = Append(line, h) /\ rio_buf' = t /\ relayed' = relayed /\ answer' = answer /\ unread' = unread
    BY DEF TakeByte
  <2> HIDE DEF r, h, t
  <2>4. r \o Append(line, h) \o t = r \o line \o (<<h>> \o t)
    <3>1. \A x, l, y \in Seq(Bytes), b \in Bytes : x \o Append(l, b) \o y = x \o l \o (<<b>> \o y)
      BY ONLY AppendShifts, Zenon
    <3> QED  BY ONLY <2>1, <3>1, Zenon
  <2>5. FromServer(relayed') = r
    BY <2>3 DEF r
  <2>6. SubSeq(answer', 1, Taken') = SubSeq(answer, 1, Taken)
    BY <2>3 DEF Taken
  <2> QED  BY <2>2, <2>3, <2>4, <2>5, <2>6, Zenon DEF BytesOnce, r
<1> QED  BY <1>3, <1>4, <1>5

\* What is sent is the line, but for a NUL.
LEMMA ReturnKeeps == IInv /\ line # <<>> /\ ReturnLine /\ over' = over => IInv'
<1> SUFFICES ASSUME IInv, line # <<>>, ReturnLine, over' = over PROVE IInv'
  OBVIOUS
<1> USE DEF IInv, TypeOK
<1>1. line \in Seq(Text) /\ relayed \o line \in Seq(Text) /\ Nul \in Text
  BY ConcatProperties DEF Text
<1>2. FromServer(relayed \o line) = FromServer(relayed) \o line
  BY FromServerConcat
<1>3. relayed' \in Seq(Text) /\ FromServer(relayed') = FromServer(relayed) \o line
  <2>1. CASE Last(line) = Newline
    BY <1>1, <1>2, <2>1 DEF ReturnLine, ReturnedBytes
  <2>2. CASE Last(line) # Newline
    <3>1. relayed' = relayed \o Append(line, Nul)
      BY <2>2 DEF ReturnLine, ReturnedBytes
    <3>2. relayed \o Append(line, Nul) = Append(relayed \o line, Nul)
      BY <1>1
    <3>3. Append(relayed \o line, Nul) \in Seq(Text)
      BY <1>1, AppendProperties
    <3>4. FromServer(Append(relayed \o line, Nul)) = FromServer(relayed \o line)
      BY <1>1, FromServerAppend
    <3> QED  BY <1>2, <3>1, <3>2, <3>3, <3>4
  <2> QED  BY <2>1, <2>2
<1>4. TypeOK'
  BY <1>3, EmptySeq DEF ReturnLine
<1>5. LineFits'
  BY EmptySeq, SizesAssumption DEF ReturnLine, LineFits
<1>6. BytesOnce'
  <2> DEFINE r == FromServer(relayed)
  <2>1. r \in Seq(Bytes)  BY FromServerType
  <2>2. FromServer(relayed') = r \o line  BY <1>3
  <2> HIDE DEF r
  <2>3. (r \o line) \o <<>> \o rio_buf = r \o line \o rio_buf
    BY <2>1
  <2>4. line' = <<>> /\ rio_buf' = rio_buf /\ answer' = answer /\ unread' = unread
    BY DEF ReturnLine
  <2>5. SubSeq(answer', 1, Taken') = SubSeq(answer, 1, Taken)
    BY <2>4 DEF Taken
  <2> QED  BY <2>2, <2>3, <2>4, <2>5, Zenon DEF BytesOnce, r
<1> QED  BY <1>4, <1>5, <1>6

\* Every step keeps IInv.
LEMMA StepInv == IInv /\ [Next]_vars => IInv'
<1> SUFFICES ASSUME IInv, [Next]_vars PROVE IInv'
  OBVIOUS
<1>1. CASE Refill  BY <1>1, RefillKeeps
<1>2. CASE TakeByte  BY <1>2, TakeByteKeeps
<1>3. CASE ReturnFullLine  BY <1>3, ReturnKeeps DEF ReturnFullLine, LineEnds
<1>4. CASE ReturnLastLine  BY <1>4, ReturnKeeps DEF ReturnLastLine
<1>5. CASE ReturnEof \/ ReadFails
  <2>1. UNCHANGED <<answer, unread, rio_buf, line, relayed>> /\ over' \in Endings
    BY <1>5 DEF ReturnEof, ReadFails, Endings
  <2> QED  BY <2>1 DEF IInv, TypeOK, LineFits, BytesOnce, Taken
<1>6. CASE UNCHANGED vars
  BY <1>6 DEF vars, IInv, TypeOK, LineFits, BytesOnce, Taken
<1> QED  BY <1>1, <1>2, <1>3, <1>4, <1>5, <1>6 DEF Next, Over

\* IInv is an invariant of the relay.
THEOREM Inductive == Spec => []IInv
BY InitInv, StepInv, PTL DEF Spec

\* rio_readlineb never stores past the line buffer it is given, NUL included,
\* and no line holds a newline but its last byte.
THEOREM LinesFit == Spec => []LineFits
<1>1. IInv => LineFits  BY DEF IInv
<1> QED  BY <1>1, Inductive, PTL

\* What has been relayed, the line and the buffer are what has been read of
\* the answer: no byte of it is lost, repeated or moved.
THEOREM NoByteLost == Spec => []BytesOnce
<1>1. IInv => BytesOnce  BY DEF IInv
<1> QED  BY <1>1, Inductive, PTL

=============================================================================
