----------------------------- MODULE PipeProofs -----------------------------
(***************************************************************************)
(* Proofs about ValidationPipe, for any miner threads and validators and   *)
(* for every TRANSACTIONS_PER_BLOCK with which a frame is not longer than  *)
(* PIPE_BUF: the frames are whole in the pipe, and so they are read.       *)
(***************************************************************************)
EXTENDS ValidationPipe, NaturalLemmas

Piece == [frame : Writers \X Nat, from : Nat, len : Nat \ {0}]

Whole(pieces, size) ==
  \A i \in 1..Len(pieces) : pieces[i].from = 0 /\ pieces[i].len = size

-----------------------------------------------------------------------------
(* What the operators on pieces return when all of them are whole.         *)

LEMMA Times ==
  ASSUME NEW n \in Nat, NEW size \in Nat
  PROVE  /\ 0 * size = 0 /\ 1 * size = size
         /\ n * size \in Nat
         /\ (n + 1) * size = n * size + size
         /\ n >= 1 => n * size >= size
OBVIOUS

LEMMA TimesBefore ==
  ASSUME NEW n \in Nat, n # 0, NEW size \in Nat
  PROVE  /\ n - 1 \in Nat
         /\ n * size = (n - 1) * size + size
<1>1. n - 1 \in Nat /\ (n - 1) + 1 = n
  OBVIOUS
<1>2. ((n - 1) + 1) * size = (n - 1) * size + size
  BY <1>1, Times
<1>3. QED
  BY <1>1, <1>2

(* Whole pieces have as many bytes as their number times their size.       *)
LEMMA WholeBytes ==
  ASSUME NEW pieces, NEW k \in Nat, NEW size \in Nat,
         \A i \in 1..k : pieces[i].len = size
  PROVE  BytesUpTo(pieces, k) = k * size
<1> DEFINE IsSum(f) == f = [i \in 0..k |-> IF i = 0 THEN 0 ELSE f[i - 1] + pieces[i].len]
           sum == CHOOSE f : IsSum(f)
           g == [i \in 0..k |-> i * size]
<1>1. BytesUpTo(pieces, k) = sum[k]
  BY DEF BytesUpTo
<1>2. IsSum(g)
  <2>1. ASSUME NEW i \in 0..k
        PROVE  g[i] = IF i = 0 THEN 0 ELSE g[i - 1] + pieces[i].len
    <3>1. CASE i = 0
      BY <3>1, Times
    <3>2. CASE i # 0
      <4>1. i \in Nat /\ i * size = (i - 1) * size + size
        BY <3>2, TimesBefore
      <4>2. i - 1 \in 0..k /\ i \in 1..k /\ g[i - 1] = (i - 1) * size
        BY <3>2
      <4>3. QED
        BY <3>2, <4>1, <4>2
    <3>3. QED
      BY <3>1, <3>2
  <2>2. QED
    BY <2>1
<1>3. IsSum(sum)
  BY <1>2
<1>4. \A i \in 0..k : sum[i] = IF i = 0 THEN 0 ELSE sum[i - 1] + pieces[i].len
  BY <1>3
<1> HIDE DEF sum
<1> DEFINE Bad == {i \in Nat : i <= k /\ sum[i] # i * size}
<1>5. Bad = {}
  <2>1. SUFFICES ASSUME Bad # {} PROVE FALSE
    OBVIOUS
  <2>2. PICK z \in Bad : \A i \in Bad : z <= i
    BY <2>1, LeastNatural
  <2>3. z \in Nat /\ z \in 0..k /\ sum[z] # z * size
    BY <2>2
  <2>4. z # 0
    BY <1>4, <2>3, Times
  <2>5. z - 1 \in Nat /\ z - 1 <= k /\ z \in 1..k /\ z - 1 \notin Bad
    BY <2>2, <2>3, <2>4
  <2>6. sum[z - 1] = (z - 1) * size
    BY <2>5
  <2>7. sum[z] = sum[z - 1] + size
    BY <1>4, <2>3, <2>4, <2>5
  <2>8. z * size = (z - 1) * size + size
    BY <2>3, <2>4, TimesBefore
  <2>9. QED
    BY <2>3, <2>6, <2>7, <2>8
<1>6. k \notin Bad
  BY <1>5
<1>7. QED
  BY <1>1, <1>6

(* In whole pieces every frame begins.                                     *)
LEMMA WholeFrames ==
  ASSUME NEW pieces \in Seq(Piece), \A i \in 1..Len(pieces) : pieces[i].from = 0
  PROVE  FramesBegun(pieces) = [i \in 1..Len(pieces) |-> pieces[i].frame]
<1> DEFINE n == Len(pieces)
           IsBegun(f) == f = [i \in 0..n |->
                               IF i = 0 THEN <<>>
                               ELSE IF pieces[i].from = 0
                                      THEN Append(f[i - 1], pieces[i].frame)
                               ELSE f[i - 1]]
           begun == CHOOSE f : IsBegun(f)
           First(i) == [j \in 1..i |-> pieces[j].frame]
           g == [i \in 0..n |-> First(i)]
<1>0. n \in Nat
  OBVIOUS
<1>1. FramesBegun(pieces) = begun[n]
  BY DEF FramesBegun
<1> HIDE DEF n
<1>2. ASSUME NEW i \in 1..n PROVE First(i) = Append(First(i - 1), pieces[i].frame)
  <2>1. First(i - 1) \in Seq(Writers \X Nat) /\ Len(First(i - 1)) = i - 1
    <3>1. \A j \in 1..n : pieces[j].frame \in Writers \X Nat
      <4>1. \A j \in 1..n : pieces[j] \in Piece
        BY DEF n
      <4> HIDE DEF n
      <4>2. QED
        BY <4>1 DEF Piece
    <3>2. i - 1 \in Nat /\ \A j \in 1..(i - 1) : j \in 1..n
      BY <1>0
    <3>3. First(i - 1) \in [1..(i - 1) -> Writers \X Nat]
      BY <3>1, <3>2
    <3>4. QED
      BY <3>2, <3>3
  <2>2. QED
    BY <1>0, <2>1
<1>3. IsBegun(g)
  <2>1. ASSUME NEW i \in 0..n
        PROVE  g[i] = IF i = 0 THEN <<>>
                      ELSE IF pieces[i].from = 0
                             THEN Append(g[i - 1], pieces[i].frame)
                      ELSE g[i - 1]
    <3>1. CASE i = 0
      BY <3>1
    <3>2. CASE i # 0
      <4>1. i \in 1..n /\ i - 1 \in 0..n /\ pieces[i].from = 0
        BY <1>0, <3>2 DEF n
      <4>2. g[i] = First(i) /\ g[i - 1] = First(i - 1)
        BY <4>1
      <4> HIDE DEF First, g
      <4>3. First(i) = Append(First(i - 1), pieces[i].frame)
        BY <1>2, <4>1
      <4>4. QED
        BY <3>2, <4>1, <4>2, <4>3
    <3>3. QED
      BY <3>1, <3>2
  <2> HIDE DEF First
  <2>2. QED
    BY <2>1
<1>4. IsBegun(begun)
  <2> HIDE DEF First, g
  <2>1. QED
    BY <1>3
<1>5. \A i \in 0..n : begun[i] = IF i = 0 THEN <<>>
                                 ELSE IF pieces[i].from = 0
                                        THEN Append(begun[i - 1], pieces[i].frame)
                                 ELSE begun[i - 1]
  BY <1>4
<1> HIDE DEF begun, First
<1> DEFINE Bad == {i \in Nat : i <= n /\ begun[i] # First(i)}
<1>6. Bad = {}
  <2>1. SUFFICES ASSUME Bad # {} PROVE FALSE
    OBVIOUS
  <2>2. PICK z \in Bad : \A i \in Bad : z <= i
    BY <2>1, LeastNatural
  <2>3. z \in Nat /\ z \in 0..n /\ begun[z] # First(z)
    BY <2>2
  <2>4. z # 0
    <3>1. First(0) = <<>>
      BY DEF First
    <3>2. QED
      BY <1>5, <2>3, <3>1
  <2>5. z - 1 \in Nat /\ z - 1 <= n /\ z \in 1..n /\ z - 1 \notin Bad
    BY <1>0, <2>2, <2>3, <2>4
  <2>6. begun[z - 1] = First(z - 1) /\ pieces[z].from = 0
    BY <2>5 DEF n
  <2>7. begun[z] = Append(begun[z - 1], pieces[z].frame)
    BY <1>5, <2>3, <2>4, <2>6
  <2>8. QED
    BY <1>2, <2>3, <2>5, <2>6, <2>7
<1>7. begun[n] = First(n)
  BY <1>0, <1>6
<1>8. QED
  BY <1>1, <1>7 DEF First, n

(* A read of the size of the pieces takes the first and leaves the others. *)
LEMMA WholeTaken ==
  ASSUME NEW pieces \in Seq(Piece), pieces # <<>>, NEW size \in Nat \ {0},
         Whole(pieces, size)
  PROVE  /\ Len(Taken(pieces, size)) = 1 /\ DOMAIN Taken(pieces, size) = {1}
         /\ Taken(pieces, size)[1] = pieces[1]
<1> DEFINE n == Len(pieces)
           Reached(k) == \A i \in 1..n : i <= k <=> BytesUpTo(pieces, i - 1) < size
           reached == CHOOSE k \in 0..n : Reached(k)
<1>1. n \in Nat /\ n >= 1 /\ pieces[1] \in Piece
  OBVIOUS
<1>2. \A i \in 1..n : pieces[i].len = size
  BY DEF Whole
<1> HIDE DEF n
<1>3. ASSUME NEW i \in 1..n PROVE BytesUpTo(pieces, i - 1) = (i - 1) * size
  <2>1. i - 1 \in Nat /\ \A j \in 1..(i - 1) : j \in 1..n
    BY <1>1
  <2>2. QED
    BY <1>2, <2>1, WholeBytes
<1>4. ASSUME NEW i \in 1..n PROVE i <= 1 <=> BytesUpTo(pieces, i - 1) < size
  <2>1. CASE i = 1
    BY <1>3, <2>1, Times
  <2>2. CASE i # 1
    <3>1. i - 1 \in Nat /\ i - 1 >= 1
      BY <2>2
    <3>2. (i - 1) * size \in Nat /\ (i - 1) * size >= size
      BY <3>1, Times
    <3>3. QED
      BY <1>3, <2>2, <3>2
  <2>3. QED
    BY <2>1, <2>2
<1>5. 1 \in 0..n /\ Reached(1)
  BY <1>1, <1>4
<1>6. reached \in 0..n /\ Reached(reached)
  <2> HIDE DEF Reached
  <2>1. QED
    BY <1>5
<1>7. reached = 1
  <2> HIDE DEF reached
  <2>1. 1 <= reached
    BY <1>1, <1>4, <1>6
  <2>2. ~(reached >= 2)
    <3>1. SUFFICES ASSUME reached >= 2 PROVE FALSE
      OBVIOUS
    <3>2. 2 \in 1..n /\ 2 <= reached
      BY <1>1, <1>6, <3>1
    <3>3. QED
      BY <1>4, <1>6, <3>2
  <2>3. QED
    BY <1>6, <2>1, <2>2
<1>8. BytesUpTo(pieces, 0) = 0
  <2>1. 1 \in 1..n /\ 1 - 1 = 0
    BY <1>1
  <2>2. BytesUpTo(pieces, 1 - 1) = (1 - 1) * size
    BY <1>3, <2>1
  <2>3. QED
    BY <2>1, <2>2, Times
<1>9. Taken(pieces, size)
        = [i \in 1..reached |->
             [pieces[i] EXCEPT !.len = Smaller(@, size - BytesUpTo(pieces, i - 1))]]
  BY DEF Taken, n
<1> HIDE DEF reached
<1>10. Taken(pieces, size)
        = [i \in 1..1 |->
             [pieces[i] EXCEPT !.len = Smaller(@, size - BytesUpTo(pieces, i - 1))]]
  BY <1>7, <1>9
<1>11. Taken(pieces, size)[1] = [pieces[1] EXCEPT !.len = size]
  <2>1. Taken(pieces, size)[1]
          = [pieces[1] EXCEPT !.len = Smaller(pieces[1].len, size - BytesUpTo(pieces, 0))]
    BY <1>10
  <2>2. Smaller(pieces[1].len, size - BytesUpTo(pieces, 0)) = size
    BY <1>1, <1>2, <1>8 DEF Smaller
  <2>3. QED
    BY <2>1, <2>2
<1>12. Taken(pieces, size)[1] = pieces[1]
  <2>1. pieces[1].len = size
    BY <1>1, <1>2
  <2>2. QED
    BY <1>1, <1>11, <2>1 DEF Piece
<1>13. QED
  BY <1>10, <1>12

LEMMA WholeLeft ==
  ASSUME NEW pieces \in Seq(Piece), pieces # <<>>, NEW size \in Nat \ {0},
         Whole(pieces, size)
  PROVE  Left(pieces, size) = [i \in 1..(Len(pieces) - 1) |-> pieces[i + 1]]
<1> DEFINE n == Len(pieces)
           Gone(k) == \A i \in 1..n : i <= k <=> BytesUpTo(pieces, i) <= size
           gone == CHOOSE k \in 0..n : Gone(k)
           InPart(i) == IF i = 1 THEN size - BytesUpTo(pieces, gone) ELSE 0
<1>1. n \in Nat /\ n >= 1 /\ \A i \in 1..n : pieces[i] \in Piece
  OBVIOUS
<1>2. \A i \in 1..n : pieces[i].len = size
  BY DEF Whole
<1> HIDE DEF n
<1>3. ASSUME NEW i \in 1..n PROVE BytesUpTo(pieces, i) = i * size
  <2>1. i \in Nat /\ \A j \in 1..i : j \in 1..n
    BY <1>1
  <2>2. QED
    BY <1>2, <2>1, WholeBytes
<1>4. ASSUME NEW i \in 1..n PROVE i <= 1 <=> BytesUpTo(pieces, i) <= size
  <2>1. CASE i = 1
    BY <1>3, <2>1, Times
  <2>2. CASE i # 1
    <3>1. i - 1 \in Nat /\ i - 1 >= 1 /\ i \in Nat
      BY <2>2
    <3>2. (i - 1) * size \in Nat /\ (i - 1) * size >= size
      BY <3>1, Times
    <3>3. i * size = (i - 1) * size + size
      BY <2>2, TimesBefore
    <3>4. QED
      BY <1>3, <2>2, <3>2, <3>3
  <2>3. QED
    BY <2>1, <2>2
<1>5. 1 \in 0..n /\ Gone(1)
  BY <1>1, <1>4
<1>6. gone \in 0..n /\ Gone(gone)
  <2> HIDE DEF Gone
  <2>1. QED
    BY <1>5
<1>7. gone = 1
  <2> HIDE DEF gone
  <2>1. 1 <= gone
    BY <1>1, <1>4, <1>6
  <2>2. ~(gone >= 2)
    <3>1. SUFFICES ASSUME gone >= 2 PROVE FALSE
      OBVIOUS
    <3>2. 2 \in 1..n /\ 2 <= gone
      BY <1>1, <1>6, <3>1
    <3>3. QED
      BY <1>4, <1>6, <3>2
  <2>3. QED
    BY <1>6, <2>1, <2>2
<1>8. BytesUpTo(pieces, gone) = size
  <2>1. 1 \in 1..n
    BY <1>1
  <2>2. BytesUpTo(pieces, 1) = 1 * size
    BY <1>3, <2>1
  <2> HIDE DEF gone
  <2>3. QED
    BY <1>7, <2>2, Times
<1>9. Left(pieces, size)
        = [i \in 1..(n - gone) |->
             [pieces[gone + i] EXCEPT !.from = @ + InPart(i), !.len = @ - InPart(i)]]
  BY DEF Left, n
<1>10. \A i : InPart(i) = 0
  BY <1>8
<1> HIDE DEF gone, InPart
<1>11. ASSUME NEW i \in 1..(n - 1)
       PROVE  [pieces[gone + i] EXCEPT !.from = @ + InPart(i), !.len = @ - InPart(i)]
                = pieces[i + 1]
  <2>1. pieces[i + 1] \in Piece /\ gone + i = i + 1
    BY <1>1, <1>7
  <2>2. InPart(i) = 0
    BY <1>10
  <2> DEFINE q == pieces[i + 1]
  <2>3. [q EXCEPT !.from = @ + 0, !.len = @ - 0] = q
    <3> HIDE DEF q
    <3>1. q \in Piece /\ q.from + 0 = q.from /\ q.len - 0 = q.len
      <4>1. q \in Piece
        BY <2>1 DEF q
      <4>2. q.from \in Nat /\ q.len \in Nat
        BY <4>1 DEF Piece
      <4>3. QED
        BY <4>1, <4>2
    <3>2. QED
      BY <3>1 DEF Piece
  <2>4. QED
    BY <2>1, <2>2, <2>3
<1>12. Left(pieces, size) = [i \in 1..(n - 1) |-> pieces[i + 1]]
  BY <1>7, <1>9, <1>11
<1>13. QED
  BY <1>12 DEF n

(* What a validator has parsed and what is left begin where they were cut. *)
LEMMA HeadMoves ==
  ASSUME NEW S, NEW a \in Seq(S), NEW f \in Seq(S), f # <<>>,
         NEW rest, rest = [i \in 1..(Len(f) - 1) |-> f[i + 1]]
  PROVE  Append(a, f[1]) \o rest = a \o f
<1>1. f[1] \in S /\ Len(f) \in Nat /\ Len(f) >= 1
  OBVIOUS
<1>2. rest \in Seq(S) /\ Len(rest) = Len(f) - 1
  <2>1. Len(f) - 1 \in Nat /\ \A i \in 1..(Len(f) - 1) : f[i + 1] \in S
    BY <1>1
  <2>2. rest \in [1..(Len(f) - 1) -> S]
    BY <2>1
  <2>3. QED
    BY <2>1, <2>2
<1> DEFINE l == Append(a, f[1]) \o rest
           r == a \o f
<1>3. l \in Seq(S) /\ r \in Seq(S) /\ Len(l) = Len(a) + Len(f) /\ Len(r) = Len(a) + Len(f)
  BY <1>1, <1>2
<1>4. ASSUME NEW i \in 1..Len(r) PROVE l[i] = r[i]
  <2>1. CASE i <= Len(a)
    BY <1>1, <1>2, <1>3, <2>1
  <2>2. CASE i = Len(a) + 1
    BY <1>1, <1>2, <1>3, <2>2
  <2>3. CASE i > Len(a) + 1
    <3>1. i - (Len(a) + 1) \in 1..(Len(f) - 1)
      BY <1>1, <1>3, <2>3
    <3>2. l[i] = rest[i - (Len(a) + 1)]
      BY <1>1, <1>2, <1>3, <2>3
    <3>3. rest[i - (Len(a) + 1)] = f[i - (Len(a) + 1) + 1]
      BY <3>1
    <3>4. i - (Len(a) + 1) + 1 = i - Len(a)
      BY <1>3
    <3>5. r[i] = f[i - Len(a)]
      BY <1>1, <1>3, <2>3
    <3>6. QED
      BY <3>2, <3>3, <3>4, <3>5
  <2>4. QED
    BY <1>1, <1>3, <2>1, <2>2, <2>3
<1> HIDE DEF l, r
<1>5. l = r
  BY <1>3, <1>4
<1>6. QED
  BY <1>5 DEF l, r

LEMMA ConcatAppend ==
  ASSUME NEW S, NEW a \in Seq(S), NEW f \in Seq(S), NEW x \in S
  PROVE  a \o Append(f, x) = Append(a \o f, x)
OBVIOUS

-----------------------------------------------------------------------------
(* The invariant: the pieces in the pipe are whole frames, and a thread in *)
(* write() has written nothing of its frame yet.                           *)
PipeInv ==
  /\ PipeTypeOK
  /\ Whole(pipe, total_size)
  /\ \A w \in Writers : wstate[w] = "write" => sent[w] = 0
  /\ ReadWhole
  /\ NoReaderBreaks

FrameFits == total_size <= PIPE_BUF

LEMMA Sizes ==
  /\ SizePrefix = 8
  /\ total_payload \in Nat /\ total_payload >= 1
  /\ total_size \in Nat \ {0} /\ total_size >= SizePrefix
  /\ MAX_BLOCK_SIZE = total_size
<1>1. TRANSACTIONS_PER_BLOCK * SizeOfTx \in Nat
  BY PipeAssumption, Times DEF SizeOfTx
<1>2. QED
  BY <1>1 DEF SizePrefix, HeaderSize, total_payload, total_size, MAX_BLOCK_SIZE

LEMMA WholeSeqBytes ==
  ASSUME NEW pieces \in Seq(Piece), Whole(pieces, total_size)
  PROVE  Bytes(pieces) = Len(pieces) * total_size
<1>1. Len(pieces) \in Nat /\ total_size \in Nat
  BY Sizes
<1>2. \A i \in 1..Len(pieces) : pieces[i].len = total_size
  BY DEF Whole
<1>3. BytesUpTo(pieces, Len(pieces)) = Len(pieces) * total_size
  BY <1>1, <1>2, WholeBytes
<1>4. QED
  BY <1>3 DEF Bytes

LEMMA FramesType ==
  ASSUME NEW pieces \in Seq(Piece), Whole(pieces, total_size)
  PROVE  /\ FramesBegun(pieces) = [i \in 1..Len(pieces) |-> pieces[i].frame]
         /\ FramesBegun(pieces) \in Seq(Writers \X Nat)
         /\ Len(FramesBegun(pieces)) = Len(pieces)
<1>1. FramesBegun(pieces) = [i \in 1..Len(pieces) |-> pieces[i].frame]
  BY WholeFrames DEF Whole
<1>2. \A i \in 1..Len(pieces) : pieces[i].frame \in Writers \X Nat
  <2>1. \A i \in 1..Len(pieces) : pieces[i] \in Piece
    OBVIOUS
  <2>2. QED
    BY <2>1 DEF Piece
<1>3. Len(pieces) \in Nat
  OBVIOUS
<1> DEFINE n == Len(pieces)
           f == [i \in 1..n |-> pieces[i].frame]
<1>4. f \in Seq(Writers \X Nat) /\ Len(f) = n
  <2> HIDE DEF n
  <2>1. n \in Nat /\ f \in [1..n -> Writers \X Nat]
    BY <1>2, <1>3 DEF n
  <2> HIDE DEF f
  <2>2. QED
    BY <2>1
<1>5. QED
  BY <1>1, <1>4

LEMMA PipeInit == Init => PipeInv
<1> SUFFICES ASSUME Init PROVE PipeInv
  OBVIOUS
<1>1. pipe \in Seq(Piece) /\ Whole(pipe, total_size) /\ Len(pipe) = 0
  BY DEF Init, Whole
<1>2. Bytes(pipe) = 0
  BY <1>1, WholeSeqBytes, Sizes, Times
<1>3. PipeTypeOK
  BY <1>1, <1>2, PipeAssumption, Sizes DEF Init, PipeTypeOK, Piece
<1>4. ReadWhole
  <2>1. FramesBegun(pipe) \in Seq(Writers \X Nat) /\ Len(FramesBegun(pipe)) = 0
    BY <1>1, FramesType
  <2>2. FramesBegun(pipe) = <<>>
    BY <2>1
  <2>3. QED
    BY <2>2 DEF Init, ReadWhole
<1>5. QED
  BY <1>1, <1>3, <1>4 DEF Init, PipeInv, NoReaderBreaks

(* A frame that fits is written whole, and there was room for it.          *)
LEMMA WrittenWhole ==
  ASSUME PipeInv, FrameFits, NEW w \in Writers, WriteStep(w)
  PROVE  /\ BytesWritten(w) = total_size /\ Room >= total_size /\ sent[w] = 0
         /\ sent' = [sent EXCEPT ![w] = total_size]
         /\ wstate' = [wstate EXCEPT ![w] = "mining"]
         /\ wrote' = Append(wrote, Frame(w))
<1>1. sent[w] = 0 /\ sent \in [Writers -> 0..total_size]
  BY DEF PipeInv, PipeTypeOK, WriteStep
<1>2. BytesWritten(w) = total_size /\ Room >= total_size
  BY Sizes DEF BytesWritten, FrameFits, WriteStep
<1>3. sent[w] + BytesWritten(w) = total_size
  BY <1>1, <1>2, Sizes
<1>4. sent' = [sent EXCEPT ![w] = total_size]
  BY <1>3 DEF WriteStep
<1>5. sent'[w] = total_size
  BY <1>1, <1>4
<1>6. QED
  BY <1>1, <1>2, <1>4, <1>5 DEF WriteStep

LEMMA PipeWriteStep ==
  ASSUME PipeInv, FrameFits, NEW w \in Writers, WriteStep(w)
  PROVE  PipeInv'
<1>0. /\ BytesWritten(w) = total_size /\ Room >= total_size /\ sent[w] = 0
      /\ sent' = [sent EXCEPT ![w] = total_size]
      /\ wstate' = [wstate EXCEPT ![w] = "mining"]
      /\ wrote' = Append(wrote, Frame(w))
  BY WrittenWhole
<1> DEFINE p == [frame |-> Frame(w), from |-> 0, len |-> total_size]
<1>1. /\ pipe \in Seq(Piece) /\ Whole(pipe, total_size)
      /\ frame_no \in [Writers -> 0..MaxFrames]
  BY DEF PipeInv, PipeTypeOK, Piece
<1>2. Frame(w) \in Writers \X Nat
  BY <1>1, PipeAssumption DEF Frame
<1>3. p \in Piece
  BY <1>2, Sizes DEF Piece
<1>4. pipe' = Append(pipe, p)
  BY <1>0 DEF WriteStep
<1>5. /\ pipe' \in Seq(Piece) /\ Len(pipe') = Len(pipe) + 1
      /\ \A i \in 1..Len(pipe) : pipe'[i] = pipe[i]
      /\ pipe'[Len(pipe) + 1] = p
      /\ Len(pipe) \in Nat
  <2> HIDE DEF p
  <2>1. QED
    BY <1>1, <1>3, <1>4
<1>6. Whole(pipe', total_size)
  <2>1. ASSUME NEW i \in 1..Len(pipe')
        PROVE  pipe'[i].from = 0 /\ pipe'[i].len = total_size
    <3>1. CASE i \in 1..Len(pipe)
      BY <1>1, <1>5, <3>1 DEF Whole
    <3>2. CASE i = Len(pipe) + 1
      BY <1>5, <3>2
    <3>3. QED
      BY <1>5, <3>1, <3>2
  <2>2. QED
    BY <2>1 DEF Whole
<1>7. Bytes(pipe)' <= PIPE_SIZE
  <2>1. Bytes(pipe) = Len(pipe) * total_size
    BY <1>1, WholeSeqBytes
  <2>2. Bytes(pipe') = Len(pipe') * total_size
    BY <1>5, <1>6, WholeSeqBytes
  <2>3. (Len(pipe) + 1) * total_size = Len(pipe) * total_size + total_size
    BY <1>5, Sizes, Times
  <2>4. Len(pipe) * total_size \in Nat
    BY <1>5, Sizes, Times
  <2>5. PIPE_SIZE - Bytes(pipe) >= total_size
    BY <1>0 DEF Room
  <2>6. Bytes(pipe') = Bytes(pipe) + total_size
    BY <1>5, <2>1, <2>2, <2>3
  <2>7. Bytes(pipe') <= PIPE_SIZE
    BY <2>1, <2>4, <2>5, <2>6, Sizes, PipeAssumption
  <2>8. QED
    BY <2>7 DEF Bytes, BytesUpTo
<1>8. PipeTypeOK'
  <2>1. /\ wstate' \in [Writers -> {"mining", "write", "ended"}]
        /\ sent' \in [Writers -> 0..total_size]
    BY <1>0, Sizes DEF PipeInv, PipeTypeOK
  <2>2. wrote' \in Seq(Writers \X Nat)
    BY <1>0, <1>2 DEF PipeInv, PipeTypeOK
  <2>3. QED
    BY <1>5, <1>7, <2>1, <2>2 DEF PipeInv, PipeTypeOK, WriteStep, Piece, total_size,
       total_payload, Bytes, BytesUpTo
<1>9. \A u \in Writers : wstate'[u] = "write" => sent'[u] = 0
  BY <1>0 DEF PipeInv, PipeTypeOK
<1>10. ReadWhole'
  <2> DEFINE f == FramesBegun(pipe)
             g == FramesBegun(pipe')
             S == (Writers \X Nat) \cup {Torn}
  <2>1. f = [i \in 1..Len(pipe) |-> pipe[i].frame] /\ f \in Seq(S) /\ Len(f) = Len(pipe)
    BY <1>1, FramesType
  <2>2. g = [i \in 1..Len(pipe') |-> pipe'[i].frame] /\ g \in Seq(S) /\ Len(g) = Len(pipe')
    BY <1>5, <1>6, FramesType
  <2>3. \A i \in 1..Len(pipe) : g[i] = f[i]
    BY <1>5, <2>1, <2>2
  <2>4. g[Len(pipe) + 1] = Frame(w)
    BY <1>5, <2>2
  <2>5. Frame(w) \in S /\ received \in Seq(S)
    BY <1>2 DEF PipeInv, PipeTypeOK
  <2> HIDE DEF f, g, S
  <2>6. g = Append(f, Frame(w))
    BY <1>5, <2>1, <2>2, <2>3, <2>4, <2>5
  <2>7. received \o g = Append(received \o f, Frame(w))
    BY <2>1, <2>5, <2>6, ConcatAppend
  <2>8. received \o f = wrote
    BY DEF PipeInv, ReadWhole, f
  <2>9. received' = received /\ wrote' = Append(wrote, Frame(w))
    BY <1>0 DEF WriteStep
  <2>10. received' \o g = wrote'
    BY <2>7, <2>8, <2>9
  <2>11. QED
    BY <2>10 DEF ReadWhole, g
<1>11. NoReaderBreaks'
  BY DEF PipeInv, NoReaderBreaks, WriteStep
<1>12. QED
  BY <1>6, <1>8, <1>9, <1>10, <1>11 DEF PipeInv, total_size, total_payload

(* A read takes one frame, and that one is accepted.                       *)
LEMMA ReadOne ==
  ASSUME PipeInv, NEW r \in Readers, ReadBlock(r)
  PROVE  /\ pipe \in Seq(Piece) /\ pipe # <<>>
         /\ received' = Append(received, pipe[1].frame)
         /\ rstate' = [rstate EXCEPT ![r] = "validating"]
         /\ pipe' = [i \in 1..(Len(pipe) - 1) |-> pipe[i + 1]]
<1>1. pipe \in Seq(Piece) /\ pipe # <<>> /\ Whole(pipe, total_size)
  BY DEF PipeInv, PipeTypeOK, Piece, ReadBlock
<1>2. /\ total_size \in Nat \ {0} /\ total_size >= SizePrefix
      /\ MAX_BLOCK_SIZE = total_size
  BY Sizes
<1> DEFINE taken == Taken(pipe, total_size)
<1>3. Len(taken) = 1 /\ DOMAIN taken = {1} /\ taken[1] = pipe[1]
  BY <1>1, <1>2, WholeTaken
<1>4. pipe[1].from = 0 /\ pipe[1].len = total_size
  <2>1. 1 \in 1..Len(pipe)
    BY <1>1
  <2>2. QED
    BY <1>1, <2>1 DEF Whole
<1>5. Left(pipe, total_size) = [i \in 1..(Len(pipe) - 1) |-> pipe[i + 1]]
  BY <1>1, <1>2, WholeLeft
<1>6. ReadBlock(r) <=>
        /\ rstate[r] = "reading"
        /\ pipe # <<>>
        /\ pipe' = Left(pipe, total_size)
        /\ IF SizeMatches(taken)
             THEN /\ received' = Append(received, IF IsFrame(taken) THEN taken[1].frame
                                                                   ELSE Torn)
                  /\ rstate' = [rstate EXCEPT ![r] = "validating"]
             ELSE /\ rstate' = [rstate EXCEPT ![r] = "broken"]
                  /\ UNCHANGED received
        /\ UNCHANGED <<writerVars, wrote>>
  BY <1>2 DEF ReadBlock
<1> HIDE DEF taken
<1>7. Bytes(taken) = total_size
  <2>1. \A i \in 1..1 : taken[i].len = total_size
    BY <1>3, <1>4
  <2>2. BytesUpTo(taken, 1) = 1 * total_size
    BY <1>2, <2>1, WholeBytes
  <2>3. QED
    BY <1>2, <1>3, <2>2, Times DEF Bytes
<1>8. SizeMatches(taken)
  BY <1>2, <1>3, <1>4, <1>7 DEF SizeMatches
<1>9. IsFrame(taken)
  BY <1>3 DEF IsFrame
<1>10. QED
  BY <1>1, <1>3, <1>5, <1>6, <1>8, <1>9

LEMMA PipeReadBlock ==
  ASSUME PipeInv, NEW r \in Readers, ReadBlock(r)
  PROVE  PipeInv'
<1>1. /\ pipe \in Seq(Piece) /\ pipe # <<>>
      /\ received' = Append(received, pipe[1].frame)
      /\ rstate' = [rstate EXCEPT ![r] = "validating"]
      /\ pipe' = [i \in 1..(Len(pipe) - 1) |-> pipe[i + 1]]
  BY ReadOne
<1>2. Whole(pipe, total_size) /\ total_size \in Nat \ {0}
  BY Sizes DEF PipeInv
<1> DEFINE n == Len(pipe)
           S == (Writers \X Nat) \cup {Torn}
           f == FramesBegun(pipe)
           g == FramesBegun(pipe')
<1>3. n \in Nat /\ n >= 1 /\ n - 1 \in Nat /\ \A i \in 1..n : pipe[i] \in Piece
  BY <1>1
<1> HIDE DEF n
<1>4. /\ pipe' \in Seq(Piece) /\ Len(pipe') = n - 1
      /\ \A i \in 1..(n - 1) : pipe'[i] = pipe[i + 1] /\ i + 1 \in 1..n
  <2>1. \A i \in 1..(n - 1) : i + 1 \in 1..n
    BY <1>3
  <2>2. pipe' = [i \in 1..(n - 1) |-> pipe[i + 1]]
    BY <1>1 DEF n
  <2>3. pipe' \in [1..(n - 1) -> Piece]
    BY <1>3, <2>1, <2>2
  <2>4. pipe' \in Seq(Piece) /\ Len(pipe') = n - 1
    BY <1>3, <2>3
  <2>5. QED
    BY <2>1, <2>2, <2>4
<1>5. Whole(pipe', total_size)
  BY <1>2, <1>4 DEF Whole, n
<1>6. Bytes(pipe') <= PIPE_SIZE
  <2>1. Bytes(pipe) = n * total_size /\ Bytes(pipe') = (n - 1) * total_size
    BY <1>1, <1>2, <1>4, <1>5, WholeSeqBytes DEF n
  <2>2. n * total_size = (n - 1) * total_size + total_size
    BY <1>2, <1>3, TimesBefore
  <2>3. (n - 1) * total_size \in Nat
    BY <1>2, <1>3, Times
  <2>4. Bytes(pipe) <= PIPE_SIZE
    BY DEF PipeInv, PipeTypeOK
  <2>5. QED
    BY <1>2, <2>1, <2>2, <2>3, <2>4, PipeAssumption
<1>7. pipe[1].frame \in Writers \X Nat
  BY <1>3 DEF Piece
<1>8. received' \in Seq(S)
  BY <1>1, <1>7 DEF PipeInv, PipeTypeOK
<1>9. PipeTypeOK'
  <2>1. rstate' \in [Readers -> {"reading", "validating", "broken", "ended"}]
    BY <1>1 DEF PipeInv, PipeTypeOK
  <2>2. /\ wstate' \in [Writers -> {"mining", "write", "ended"}]
        /\ frame_no' \in [Writers -> 0..MaxFrames]
        /\ sent' \in [Writers -> 0..total_size]
        /\ wrote' \in Seq(Writers \X Nat)
    BY DEF PipeInv, PipeTypeOK, ReadBlock, writerVars
  <2>3. QED
    BY <1>4, <1>6, <1>8, <2>1, <2>2 DEF PipeTypeOK, Piece, total_size, total_payload,
       Bytes, BytesUpTo
<1>10. ReadWhole'
  <2>1. f = [i \in 1..n |-> pipe[i].frame] /\ f \in Seq(S) /\ Len(f) = n
    BY <1>1, <1>2, FramesType DEF n
  <2>2. g = [i \in 1..(n - 1) |-> pipe'[i].frame]
    BY <1>4, <1>5, FramesType
  <2>3. f[1] = pipe[1].frame /\ f # <<>>
    BY <1>3, <2>1
  <2>4. g = [i \in 1..(n - 1) |-> f[i + 1]]
    BY <1>4, <2>1, <2>2
  <2>5. received \in Seq(S) /\ received \o f = wrote
    BY DEF PipeInv, PipeTypeOK, ReadWhole
  <2> HIDE DEF f, g, S
  <2>6. Append(received, f[1]) \o g = received \o f
    <3>1. g = [i \in 1..(Len(f) - 1) |-> f[i + 1]]
      BY <2>1, <2>4
    <3>2. received \in Seq(S) /\ f \in Seq(S) /\ f # <<>>
      BY <2>1, <2>3, <2>5
    <3>3. QED
      BY ONLY <3>1, <3>2, HeadMoves
  <2>7. wrote' = wrote
    BY DEF ReadBlock
  <2>8. received' \o g = wrote'
    BY <1>1, <2>3, <2>5, <2>6, <2>7
  <2>9. QED
    BY <2>8 DEF ReadWhole, g
<1>11. NoReaderBreaks'
  BY <1>1 DEF PipeInv, PipeTypeOK, NoReaderBreaks
<1>12. \A w \in Writers : wstate'[w] = "write" => sent'[w] = 0
  BY DEF PipeInv, ReadBlock, writerVars
<1>13. QED
  BY <1>5, <1>9, <1>10, <1>11, <1>12 DEF PipeInv, total_size, total_payload

(* The other steps leave the bytes as they are.                            *)
LEMMA PipeSame ==
  ASSUME PipeInv, UNCHANGED <<pipe, wrote, received>>,
         wstate' \in [Writers -> {"mining", "write", "ended"}],
         frame_no' \in [Writers -> 0..MaxFrames],
         sent' \in [Writers -> 0..total_size],
         rstate' \in [Readers -> {"reading", "validating", "ended"}],
         \A w \in Writers : wstate'[w] = "write" => sent'[w] = 0
  PROVE  PipeInv'
<1>1. Bytes(pipe') = Bytes(pipe) /\ FramesBegun(pipe') = FramesBegun(pipe)
  BY Zenon
<1>2. PipeTypeOK'
  BY <1>1 DEF PipeInv, PipeTypeOK, total_size, total_payload, Bytes, BytesUpTo
<1>3. ReadWhole'
  BY <1>1 DEF PipeInv, ReadWhole
<1>4. NoReaderBreaks'
  BY DEF NoReaderBreaks
<1>5. QED
  BY <1>2, <1>3, <1>4 DEF PipeInv, Whole, total_size, total_payload

LEMMA PipeStep == PipeInv /\ FrameFits /\ [Next]_vars => PipeInv'
<1> SUFFICES ASSUME PipeInv, FrameFits, [Next]_vars PROVE PipeInv'
  OBVIOUS
<1>0. /\ wstate \in [Writers -> {"mining", "write", "ended"}]
      /\ frame_no \in [Writers -> 0..MaxFrames]
      /\ sent \in [Writers -> 0..total_size]
      /\ rstate \in [Readers -> {"reading", "validating", "ended"}]
      /\ \A w \in Writers : wstate[w] = "write" => sent[w] = 0
      /\ 0 \in 0..total_size
  BY Sizes DEF PipeInv, PipeTypeOK, NoReaderBreaks
<1>1. ASSUME NEW w \in Writers, WriteBegins(w) PROVE PipeInv'
  <2>1. frame_no[w] + 1 \in 0..MaxFrames
    BY <1>0, <1>1, PipeAssumption DEF WriteBegins
  <2>2. /\ wstate' \in [Writers -> {"mining", "write", "ended"}]
        /\ frame_no' \in [Writers -> 0..MaxFrames]
        /\ sent' \in [Writers -> 0..total_size]
        /\ \A u \in Writers : wstate'[u] = "write" => sent'[u] = 0
    BY <1>0, <1>1, <2>1 DEF WriteBegins
  <2>3. QED
    BY <1>0, <1>1, <2>2, PipeSame DEF WriteBegins
<1>2. ASSUME NEW w \in Writers, WriteStep(w) PROVE PipeInv'
  BY <1>2, PipeWriteStep
<1>3. ASSUME NEW w \in Writers, WriteFails(w) PROVE PipeInv'
  BY <1>0, <1>3, PipeSame DEF WriteFails
<1>4. ASSUME NEW w \in Writers, WriterCancelled(w) PROVE PipeInv'
  BY <1>0, <1>4, PipeSame DEF WriterCancelled
<1>5. ASSUME NEW r \in Readers, ReadBlock(r) PROVE PipeInv'
  BY <1>5, PipeReadBlock
<1>6. ASSUME NEW r \in Readers, ReadEnd(r) PROVE PipeInv'
  BY <1>0, <1>6, PipeSame DEF ReadEnd, writerVars
<1>7. ASSUME NEW r \in Readers, Validated(r) PROVE PipeInv'
  BY <1>0, <1>7, PipeSame DEF Validated, writerVars
<1>8. ASSUME NEW r \in Readers, ReaderStopped(r) PROVE PipeInv'
  BY <1>0, <1>8, PipeSame DEF ReaderStopped, writerVars
<1>9. CASE UNCHANGED vars
  BY <1>0, <1>9, PipeSame DEF vars, writerVars
<1>10. QED
  BY <1>1, <1>2, <1>3, <1>4, <1>5, <1>6, <1>7, <1>8, <1>9
     DEF Next, WriterNext, ReaderNext

-----------------------------------------------------------------------------
(* The pieces in the pipe, the threads and the validators keep their       *)
(* types: no more bytes are in the pipe than it holds, and of a frame no   *)
(* more are sent than it has.                                              *)
THEOREM PipeTypes == ASSUME FrameFits PROVE Spec => []PipeTypeOK
<1>1. PipeInv => PipeTypeOK
  BY DEF PipeInv
<1>2. QED
  BY <1>1, PipeInit, PipeStep, PTL DEF Spec

(* With frames that fit in PIPE_BUF, whatever the number of threads and of *)
(* validators and whenever each of them is ended, the validators parse     *)
(* between them the frames in the order in which they were written, each   *)
(* once and whole.                                                         *)
THEOREM ReadsAreWhole == ASSUME FrameFits PROVE Spec => []ReadWhole
<1>1. PipeInv => ReadWhole
  BY DEF PipeInv
<1>2. QED
  BY <1>1, PipeInit, PipeStep, PTL DEF Spec

(* With such frames no validator meets a block it cannot parse, which      *)
(* would make it leave its loop for good.                                  *)
THEOREM ReadersStay == ASSUME FrameFits PROVE Spec => []NoReaderBreaks
<1>1. PipeInv => NoReaderBreaks
  BY DEF PipeInv
<1>2. QED
  BY <1>1, PipeInit, PipeStep, PTL DEF Spec

=============================================================================
