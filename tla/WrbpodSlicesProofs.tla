------------------------- MODULE WrbpodSlicesProofs -------------------------
(***************************************************************************)
(* A chunk of slices, for every set of IDs, every set of contents of any   *)
(* size and every limit: the account of the encoded size never falls       *)
(* short, what is encoded decodes to the same slices, and behind positions *)
(* and index the chunk is a plain map from IDs to contents.                *)
(*                                                                         *)
(* The size of a chunk is a sum over its slices.  Facts about sums are     *)
(* proved by looking at the smallest index at which they would fail.       *)
(***************************************************************************)
EXTENDS WrbpodSlices, TLAPS, FiniteSetTheorems, SequenceTheorems, WellFoundedInduction

-----------------------------------------------------------------------------
(* Sums.                                                                   *)

LEMMA SmallestNat == ASSUME NEW S \in SUBSET Nat, S # {} PROVE \E x \in S : \A y \in S : x <= y
<1> DEFINE R == OpToRel(<, Nat)
<1>1. \A x, y \in Nat : <<x, y>> \in R <=> x < y
  BY DEF OpToRel
<1>2. IsWellFoundedOn(R, Nat)
  BY NatLessThanWellFounded
<1> HIDE DEF R
<1>3. PICK x \in S : \A y \in S : ~(<<y, x>> \in R)
  BY <1>2, WFMin
<1>4. ASSUME NEW y \in S PROVE x <= y
  <2>1. x \in Nat /\ y \in Nat /\ ~(y < x)
    BY <1>1, <1>3
  <2> QED BY <2>1
<1> QED BY <1>4

(* f adds up the numbers w[1], w[2], ... step by step.                     *)
IsSum(f, w, n) ==
    /\ f \in [0..n -> Nat]
    /\ f[0] = 0
    /\ \A k \in 1..n : f[k] = f[k - 1] + w[k]

(* Any numbers can be added up.                                            *)
LEMMA SumExists ==
    ASSUME NEW n \in Nat, NEW w, \A k \in 1..n : w[k] \in Nat
    PROVE  \E f : IsSum(f, w, n)
<1> DEFINE Bad == {m \in 0..n : ~ \E f : IsSum(f, w, m)}
<1> SUFFICES ASSUME Bad # {} PROVE FALSE
  OBVIOUS
<1>1. PICK m \in Bad : \A y \in Bad : m <= y
  <2>1. Bad \in SUBSET Nat
    OBVIOUS
  <2> HIDE DEF Bad
  <2> QED BY <2>1, SmallestNat
<1>2. m \in 0..n /\ ~ \E f : IsSum(f, w, m)
  BY <1>1
<1>3. CASE m = 0
  <2> DEFINE f == [k \in 0..0 |-> 0]
  <2>1. IsSum(f, w, 0)
    BY DEF IsSum
  <2> QED BY <1>2, <1>3, <2>1
<1>4. CASE m # 0
  <2>1. m - 1 \in 0..n /\ m - 1 \notin Bad /\ m \in 1..n
    BY <1>1, <1>2, <1>4
  <2>2. PICK g : IsSum(g, w, m - 1)
    BY <2>1
  <2> DEFINE f == [k \in 0..m |-> IF k = m THEN g[m - 1] + w[m] ELSE g[k]]
  <2>3. IsSum(f, w, m)
    BY <2>1, <2>2 DEF IsSum
  <2> QED BY <1>2, <2>3
<1> QED BY <1>3, <1>4

(* A sum whose steps are never larger stays below the other.               *)
LEMMA SumBelow ==
    ASSUME NEW n \in Nat, NEW f, NEW g, \A k \in 0..n : f[k] \in Nat /\ g[k] \in Nat,
           f[0] <= g[0],
           \A k \in 1..n : f[k] - f[k - 1] <= g[k] - g[k - 1]
    PROVE  \A k \in 0..n : f[k] <= g[k]
<1> DEFINE Bad == {k \in 0..n : ~(f[k] <= g[k])}
<1> SUFFICES ASSUME Bad # {} PROVE FALSE
  OBVIOUS
<1>1. PICK m \in Bad : \A y \in Bad : m <= y
  <2>1. Bad \in SUBSET Nat
    OBVIOUS
  <2> HIDE DEF Bad
  <2> QED BY <2>1, SmallestNat
<1>2. m \in 1..n /\ m - 1 \in 0..n /\ m - 1 \notin Bad /\ ~(f[m] <= g[m])
  BY <1>1
<1>3. f[m - 1] <= g[m - 1]
  BY <1>2
<1> QED BY <1>2, <1>3

-----------------------------------------------------------------------------
(* The bytes of the slices of a chunk.                                     *)

Cost(body) == [k \in 1..Len(body) |-> 4 + SizeOf[body[k]]]

LEMMA CostType ==
    ASSUME NEW body \in Seq(Content)
    PROVE  Len(body) \in Nat /\ \A k \in 1..Len(body) : Cost(body)[k] = 4 + SizeOf[body[k]]
                                                         /\ Cost(body)[k] \in Nat
<1>1. Len(body) \in Nat /\ \A k \in 1..Len(body) : body[k] \in Content
  BY LenProperties, ElementOfSeq
<1> QED BY <1>1, SlicesAssumption DEF Cost

(* BodySize is the sum of the slices' costs.                               *)
LEMMA BodySizeIsSum ==
    ASSUME NEW body \in Seq(Content)
    PROVE  \E f : IsSum(f, Cost(body), Len(body)) /\ BodySize(body) = f[Len(body)]
<1> DEFINE n == Len(body)
           Step(g) == [k \in 0..n |-> IF k = 0 THEN 0 ELSE g[k - 1] + 4 + SizeOf[body[k]]]
           u == CHOOSE g : g = Step(g)
<1>1. BodySize(body) = u[n]
  BY DEF BodySize
<1>2. n \in Nat /\ \A k \in 1..n : Cost(body)[k] = 4 + SizeOf[body[k]] /\ Cost(body)[k] \in Nat
  BY CostType
<1>3. PICK f : IsSum(f, Cost(body), n)
  BY <1>2, SumExists
<1>4. f = Step(f)
  <2>1. \A k \in 1..n : body[k] \in Content /\ SizeOf[body[k]] \in Nat
    BY ElementOfSeq, SlicesAssumption
  <2>2. \A k \in 0..n : f[k] = IF k = 0 THEN 0 ELSE f[k - 1] + 4 + SizeOf[body[k]]
    <3>1. f[0] = 0 /\ \A k \in 1..n : f[k] = f[k - 1] + (4 + SizeOf[body[k]])
                                     /\ f[k - 1] \in Nat /\ k # 0
      BY <1>2, <1>3 DEF IsSum
    <3>2. ASSUME NEW k \in 1..n PROVE f[k] = f[k - 1] + 4 + SizeOf[body[k]]
      <4>1. SizeOf[body[k]] \in Nat /\ f[k - 1] \in Nat
        BY <2>1, <3>1
      <4>2. f[k] = f[k - 1] + (4 + SizeOf[body[k]])
        BY <3>1
      <4> QED BY <4>1, <4>2
    <3> QED BY <1>2, <3>1, <3>2
  <2> QED BY <1>3, <2>2 DEF IsSum
<1>5. u = Step(u)
  BY <1>4
<1> HIDE DEF u
<1>6. u[0] = 0 /\ \A k \in 1..n : u[k] = u[k - 1] + 4 + SizeOf[body[k]]
  BY <1>2, <1>5
<1>7. \A k \in 0..n : u[k] = f[k]
  <2> DEFINE Bad == {k \in 0..n : u[k] # f[k]}
  <2> SUFFICES ASSUME Bad # {} PROVE FALSE
    OBVIOUS
  <2>1. PICK m \in Bad : \A y \in Bad : m <= y
    <3>1. Bad \in SUBSET Nat
      OBVIOUS
    <3> HIDE DEF Bad
    <3> QED BY <3>1, SmallestNat
  <2>2. m \in 1..n /\ m - 1 \in 0..n /\ m - 1 \notin Bad /\ u[m] # f[m]
    BY <1>3, <1>6, <2>1 DEF IsSum
  <2>3. u[m - 1] = f[m - 1]
    BY <2>2
  <2>4. f[m] = IF m = 0 THEN 0 ELSE f[m - 1] + 4 + SizeOf[body[m]]
    BY <1>4, <2>2
  <2> QED BY <1>6, <2>2, <2>3, <2>4
<1> QED BY <1>1, <1>2, <1>3, <1>7

LEMMA BodySizeEmpty == BodySize(<< >>) = 0
<1>1. << >> \in Seq(Content) /\ Len(<< >>) = 0
  BY EmptySeq
<1> QED BY <1>1, BodySizeIsSum DEF IsSum

LEMMA BodySizeType == ASSUME NEW body \in Seq(Content) PROVE BodySize(body) \in Nat
<1>1. Len(body) \in Nat
  BY LenProperties
<1> QED BY <1>1, BodySizeIsSum DEF IsSum

(* One more slice adds its length and its length prefix.                   *)
LEMMA BodySizeAppend ==
    ASSUME NEW body \in Seq(Content), NEW x \in Content
    PROVE  BodySize(Append(body, x)) = BodySize(body) + 4 + SizeOf[x]
<1> DEFINE n == Len(body)
           more == Append(body, x)
<1>1. /\ more \in Seq(Content) /\ Len(more) = n + 1 /\ n \in Nat
      /\ \A k \in 1..n : more[k] = body[k]
      /\ more[n + 1] = x
  BY AppendProperties, LenProperties
<1> HIDE DEF more
<1>2. PICK f : IsSum(f, Cost(body), n) /\ BodySize(body) = f[n]
  BY BodySizeIsSum
<1>3. PICK g : IsSum(g, Cost(more), n + 1) /\ BodySize(more) = g[n + 1]
  BY <1>1, BodySizeIsSum
<1>4. \A k \in 1..n : Cost(more)[k] = Cost(body)[k] /\ Cost(body)[k] \in Nat
  BY <1>1, CostType
<1> HIDE DEF n
<1>5. \A k \in 0..n : f[k] \in Nat /\ g[k] \in Nat
  <2>1. \A k \in 0..n : k \in 0..(n + 1)
    BY <1>1
  <2> QED BY <1>2, <1>3, <2>1 DEF IsSum
<1>6. f[0] <= g[0] /\ g[0] <= f[0]
  BY <1>2, <1>3 DEF IsSum
<1>7. ASSUME NEW k \in 1..n PROVE f[k] - f[k - 1] = g[k] - g[k - 1]
  <2>1. k \in 1..(n + 1) /\ k \in 0..n /\ k - 1 \in 0..n
    BY <1>1
  <2>2. f[k] = f[k - 1] + Cost(body)[k] /\ g[k] = g[k - 1] + Cost(more)[k]
    BY <1>2, <1>3, <2>1 DEF IsSum
  <2>3. f[k - 1] \in Nat /\ g[k - 1] \in Nat
    BY <1>5, <2>1
  <2> QED BY <1>4, <2>2, <2>3
<1>8. /\ \A k \in 1..n : f[k] - f[k - 1] <= g[k] - g[k - 1]
      /\ \A k \in 1..n : g[k] - g[k - 1] <= f[k] - f[k - 1]
  <2> SUFFICES ASSUME NEW k \in 1..n
               PROVE  f[k] - f[k - 1] <= g[k] - g[k - 1] /\ g[k] - g[k - 1] <= f[k] - f[k - 1]
    OBVIOUS
  <2>1. k \in 0..n /\ k - 1 \in 0..n
    BY <1>1
  <2>2. f[k] \in Nat /\ f[k - 1] \in Nat /\ g[k] \in Nat /\ g[k - 1] \in Nat
    BY <1>5, <2>1
  <2> QED BY <1>7, <2>2
<1>9. \A k \in 0..n : f[k] <= g[k]
  <2>1. n \in Nat
    BY <1>1
  <2> QED BY <2>1, <1>5, <1>6, <1>8, SumBelow
<1>10. \A k \in 0..n : g[k] <= f[k]
  <2>1. n \in Nat /\ \A k \in 0..n : g[k] \in Nat /\ f[k] \in Nat
    BY <1>1, <1>5
  <2> QED BY <2>1, <1>6, <1>8, SumBelow
<1>11. f[n] = g[n] /\ f[n] \in Nat
  BY <1>1, <1>5, <1>9, <1>10
<1>12. g[n + 1] = g[n] + Cost(more)[n + 1]
  <2>1. n + 1 \in 1..(n + 1) /\ (n + 1) - 1 = n
    BY <1>1
  <2> QED BY <1>3, <2>1 DEF IsSum
<1>13. Cost(more)[n + 1] = 4 + SizeOf[x] /\ SizeOf[x] \in Nat
  BY <1>1, SlicesAssumption DEF Cost
<1> QED BY <1>2, <1>3, <1>11, <1>12, <1>13 DEF more

(* A replaced slice adds at most its length and its length prefix.         *)
LEMMA BodySizeExcept ==
    ASSUME NEW body \in Seq(Content), NEW at \in 1..Len(body), NEW x \in Content
    PROVE  BodySize([body EXCEPT ![at] = x]) <= BodySize(body) + 4 + SizeOf[x]
<1> DEFINE n == Len(body)
           other == [body EXCEPT ![at] = x]
<1>1. /\ other \in Seq(Content) /\ Len(other) = n /\ n \in Nat
      /\ \A k \in 1..n : other[k] = IF k = at THEN x ELSE body[k]
  BY ExceptSeq, LenProperties
<1> HIDE DEF other
<1>2. PICK f : IsSum(f, Cost(body), n) /\ BodySize(body) = f[n]
  BY BodySizeIsSum
<1>3. PICK g : IsSum(g, Cost(other), n) /\ BodySize(other) = g[n]
  BY <1>1, BodySizeIsSum
<1> DEFINE c == 4 + SizeOf[x]
           h == [k \in 0..n |-> IF k < at THEN f[k] ELSE f[k] + c]
<1>4. /\ \A k \in 1..n : Cost(body)[k] \in Nat
      /\ \A k \in 1..n : Cost(other)[k] = IF k = at THEN c ELSE Cost(body)[k]
      /\ c \in Nat
  <2>1. \A k \in 1..n : Cost(body)[k] \in Nat /\ Cost(body)[k] = 4 + SizeOf[body[k]]
    BY CostType
  <2>2. \A k \in 1..n : Cost(other)[k] = 4 + SizeOf[other[k]]
    BY <1>1, CostType
  <2>3. ASSUME NEW k \in 1..n PROVE Cost(other)[k] = IF k = at THEN c ELSE Cost(body)[k]
    BY <1>1, <2>1, <2>2
  <2>4. c \in Nat
    BY SlicesAssumption
  <2> QED BY <2>1, <2>3, <2>4
<1> HIDE DEF c, n
<1>5. /\ \A k \in 0..n : f[k] \in Nat /\ g[k] \in Nat
      /\ f[0] = 0 /\ g[0] = 0
      /\ \A k \in 1..n : f[k] = f[k - 1] + Cost(body)[k] /\ g[k] = g[k - 1] + Cost(other)[k]
  BY <1>2, <1>3 DEF IsSum
<1>6. at \in 1..n
  BY DEF n
<1>7. /\ \A k \in 0..n : h[k] \in Nat
      /\ \A k \in 0..n : k < at => h[k] = f[k]
      /\ \A k \in 0..n : ~(k < at) => h[k] = f[k] + c
      /\ g[0] <= h[0]
  BY <1>1, <1>4, <1>5, <1>6
<1> HIDE DEF h
<1>8. ASSUME NEW k \in 1..n PROVE g[k] - g[k - 1] <= h[k] - h[k - 1]
  <2>1. k \in 0..n /\ k - 1 \in 0..n /\ k \in Int /\ at \in Int
    BY <1>1, <1>6
  <2>2. /\ g[k] \in Nat /\ g[k - 1] \in Nat /\ f[k] \in Nat /\ f[k - 1] \in Nat
        /\ g[k] = g[k - 1] + Cost(other)[k] /\ f[k] = f[k - 1] + Cost(body)[k]
        /\ Cost(body)[k] \in Nat /\ c \in Nat
    BY <1>4, <1>5, <2>1
  <2>3. CASE k < at
    <3>1. h[k] = f[k] /\ h[k - 1] = f[k - 1] /\ Cost(other)[k] = Cost(body)[k]
      BY <1>4, <1>7, <2>1, <2>3
    <3>2. h[k] - h[k - 1] = Cost(body)[k]
      BY <2>2, <3>1
    <3>3. g[k] - g[k - 1] = Cost(body)[k]
      BY <2>2, <3>1
    <3> QED BY <2>2, <3>2, <3>3
  <2>4. CASE k = at
    <3>1. ~(k < at) /\ k - 1 < at
      BY <2>1, <2>4
    <3>2. h[k] = f[k] + c /\ h[k - 1] = f[k - 1] /\ Cost(other)[k] = c
      BY <1>4, <1>7, <2>1, <2>4, <3>1
    <3>3. g[k] = g[k - 1] + c
      BY <2>2, <3>2
    <3>4. g[k] - g[k - 1] = c
      BY <2>2, <3>3
    <3>5. h[k] - h[k - 1] = Cost(body)[k] + c
      BY <2>2, <3>2
    <3> QED BY <2>2, <3>4, <3>5
  <2>5. CASE k > at
    <3>1. ~(k < at) /\ ~(k - 1 < at) /\ k # at
      BY <2>1, <2>5
    <3>2. h[k] = f[k] + c /\ h[k - 1] = f[k - 1] + c /\ Cost(other)[k] = Cost(body)[k]
      BY <1>4, <1>7, <2>1, <3>1
    <3>3. h[k] - h[k - 1] = Cost(body)[k]
      BY <2>2, <3>2
    <3>4. g[k] - g[k - 1] = Cost(body)[k]
      BY <2>2, <3>2
    <3> QED BY <2>2, <3>3, <3>4
  <2> QED BY <2>1, <2>3, <2>4, <2>5
<1>9. \A k \in 0..n : g[k] <= h[k]
  <2>1. n \in Nat /\ \A k \in 0..n : g[k] \in Nat /\ h[k] \in Nat
    BY <1>1, <1>5, <1>7
  <2>2. \A k \in 1..n : g[k] - g[k - 1] <= h[k] - h[k - 1]
    BY <1>8
  <2> QED BY <2>1, <1>7, <2>2, SumBelow
<1>10. g[n] <= f[n] + c
  <2>1. n \in 0..n /\ ~(n < at)
    BY <1>1, <1>6
  <2> QED BY <1>7, <1>9, <2>1
<1>11. SizeOf[x] \in Nat /\ f[n] \in Nat /\ c = 4 + SizeOf[x]
  <2>1. n \in 0..n
    BY <1>1
  <2> QED BY <1>5, <2>1, SlicesAssumption DEF c
<1>12. g[n] <= f[n] + 4 + SizeOf[x]
  BY <1>10, <1>11
<1>13. BodySize(other) <= BodySize(body) + 4 + SizeOf[x]
  BY <1>2, <1>3, <1>12
<1> QED BY <1>13 DEF other

-----------------------------------------------------------------------------
(***************************************************************************)
(* The inductive invariant.  Layout: there are as many index entries as    *)
(* slices and no two of them point at the same one, so the decoder, which  *)
(* reads as many slices as there are entries, reads them all, and a        *)
(* replaced slice is no other ID's.  Fits: the account covers the encoding *)
(* and stays within the limit.  Both hold of the chunk and of the bytes    *)
(* last uploaded, from which a fetch rebuilds the chunk.                   *)
(***************************************************************************)
Layout(slices, index) ==
    /\ slices \in Seq(Content)
    /\ DOMAIN index \subseteq SliceId
    /\ IsFiniteSet(DOMAIN index)
    /\ Cardinality(DOMAIN index) = Len(slices)
    /\ index = [i \in DOMAIN index |-> index[i]]
    /\ \A i \in DOMAIN index : index[i] \in 1..Len(slices)
    /\ \A i, j \in DOMAIN index : index[i] = index[j] => i = j

Fits(slices, size) ==
    /\ size \in Nat
    /\ 1 + 8 + 24 * Len(slices) + BodySize(slices) <= size
    /\ size <= MaxSize

ChunkOK(ch) ==
    /\ ch = [slices |-> ch.slices, index |-> ch.index, dirty |-> ch.dirty,
             encoded_size |-> ch.encoded_size]
    /\ Layout(ch.slices, ch.index)
    /\ Fits(ch.slices, ch.encoded_size)

BytesOK(bytes) ==
    /\ bytes = [count |-> Len(bytes.body), entries |-> bytes.entries, body |-> bytes.body]
    /\ Layout(bytes.body, bytes.entries)
    /\ 1 + 8 + 24 * Len(bytes.body) + BodySize(bytes.body) <= MaxSize

IInv == ChunkOK(chunk) /\ BytesOK(saved)

-----------------------------------------------------------------------------
LEMMA NewChunkOK == ChunkOK(NewChunk)
<1> DEFINE e == [i \in {} |-> 0]
<1>1. Layout(<< >>, e)
  <2>1. << >> \in Seq(Content) /\ Len(<< >>) = 0
    BY EmptySeq
  <2>2. DOMAIN e = {} /\ IsFiniteSet({}) /\ Cardinality({}) = 0
    BY FS_EmptySet
  <2> QED BY <2>1, <2>2 DEF Layout
<1>2. Fits(<< >>, WRBPOD_SLICES_INITIAL_SIZE)
  <2>1. Len(<< >>) = 0
    BY EmptySeq
  <2> QED BY <2>1, BodySizeEmpty, SlicesAssumption DEF Fits, WRBPOD_SLICES_INITIAL_SIZE
<1> QED BY <1>1, <1>2 DEF ChunkOK, NewChunk

(* In a chunk as the invariant has it, get_slice finds what the index      *)
(* points at, and only an ID without an entry has no slice.                *)
LEMMA GetSlice ==
    ASSUME NEW ch, ChunkOK(ch), NEW id
    PROVE  get_slice(ch, id) = IF id \in DOMAIN ch.index THEN ch.slices[ch.index[id]] ELSE None
<1>1. DOMAIN ch.slices = 1..Len(ch.slices)
  BY LenProperties DEF ChunkOK, Layout
<1> QED BY <1>1 DEF ChunkOK, Layout, get_slice

(* A put that is refused changes nothing.                                  *)
LEMMA PutRefused ==
    ASSUME NEW ch, NEW id, NEW x, ~can_fit_slice(ch, id, SizeOf[x])
    PROVE  put_slice(ch, id, x).chunk = ch
BY DEF put_slice

(* A put that replaces a slice keeps the layout and the account, and       *)
(* changes no other slice.                                                 *)
LEMMA PutReplaces ==
    ASSUME NEW ch, ChunkOK(ch), NEW id \in DOMAIN ch.index, NEW x \in Content,
           can_fit_slice(ch, id, SizeOf[x])
    PROVE  LET new == put_slice(ch, id, x).chunk
           IN  ChunkOK(new) /\ MapOf(new) = [MapOf(ch) EXCEPT ![id] = x]
<1> DEFINE at == ch.index[id]
           n == Len(ch.slices)
           slices2 == [ch.slices EXCEPT ![at] = x]
           index2 == [i \in DOMAIN ch.index \cup {id} |-> IF i = id THEN at ELSE ch.index[i]]
           size2 == ch.encoded_size + (4 + SizeOf[x])
           new == put_slice(ch, id, x).chunk
<1>1. new = [slices |-> slices2, index |-> index2, dirty |-> TRUE, encoded_size |-> size2]
  BY DEF put_slice, slice_encoded_size
<1>2. /\ ch.slices \in Seq(Content) /\ n \in Nat /\ at \in 1..n
      /\ Layout(ch.slices, ch.index) /\ Fits(ch.slices, ch.encoded_size)
  BY LenProperties DEF ChunkOK, Layout
<1>3. /\ slices2 \in Seq(Content) /\ Len(slices2) = n
      /\ \A j \in 1..n : slices2[j] = IF j = at THEN x ELSE ch.slices[j]
  BY <1>2, ExceptSeq
<1>4. index2 = ch.index
  BY <1>2 DEF Layout
<1>5. Layout(slices2, index2)
  <2> HIDE DEF slices2, index2, n
  <2> QED BY <1>2, <1>3, <1>4 DEF Layout, n
<1>6. Fits(slices2, size2)
  <2>1. BodySize(slices2) <= BodySize(ch.slices) + 4 + SizeOf[x]
    BY <1>2, BodySizeExcept
  <2>2. BodySize(slices2) \in Nat /\ BodySize(ch.slices) \in Nat /\ SizeOf[x] \in Nat
    BY <1>2, <1>3, BodySizeType, SlicesAssumption
  <2>3. size2 <= MaxSize
    BY DEF can_fit_slice, slice_encoded_size
  <2>4. /\ ch.encoded_size \in Nat
        /\ 1 + 8 + 24 * n + BodySize(ch.slices) <= ch.encoded_size
    BY <1>2 DEF Fits
  <2>5. size2 \in Nat /\ 1 + 8 + 24 * n + BodySize(slices2) <= size2
    <3>1. \A m, b, b2, s, e \in Nat :
            b2 <= b + 4 + s /\ 1 + 8 + m + b <= e => 1 + 8 + m + b2 <= e + (4 + s)
      OBVIOUS
    <3>2. 24 * n \in Nat
      BY <1>2
    <3>3. size2 \in Nat
      BY <2>2, <2>4
    <3> HIDE DEF n, slices2
    <3>4. 1 + 8 + 24 * n + BodySize(slices2) <= ch.encoded_size + (4 + SizeOf[x])
      BY <2>1, <2>2, <2>4, <3>1, <3>2
    <3> QED BY <3>3, <3>4
  <2> HIDE DEF size2, slices2
  <2> QED BY <1>3, <2>3, <2>5 DEF Fits
<1>7. ChunkOK(new)
  <2> HIDE DEF new, slices2, index2, size2
  <2> QED BY <1>1, <1>5, <1>6 DEF ChunkOK
<1>8. ASSUME NEW i \in SliceId PROVE MapOf(new)[i] = [MapOf(ch) EXCEPT ![id] = x][i]
  <2>1. get_slice(new, i) = IF i \in DOMAIN ch.index THEN slices2[ch.index[i]] ELSE None
    <3> HIDE DEF new, slices2, index2, size2
    <3> QED BY <1>1, <1>4, <1>7, GetSlice
  <2>2. get_slice(ch, i) = IF i \in DOMAIN ch.index THEN ch.slices[ch.index[i]] ELSE None
    BY GetSlice
  <2>3. i \in DOMAIN ch.index => ch.index[i] \in 1..n /\ (ch.index[i] = at <=> i = id)
    BY <1>2 DEF Layout
  <2>4. get_slice(new, i) = IF i = id THEN x ELSE get_slice(ch, i)
    <3> HIDE DEF new, slices2, n, at
    <3> QED BY <1>3, <2>1, <2>2, <2>3 DEF at
  <2> HIDE DEF new
  <2> QED BY <2>4 DEF MapOf
<1>9. MapOf(new) = [MapOf(ch) EXCEPT ![id] = x]
  <2> HIDE DEF new
  <2> QED BY <1>8 DEF MapOf
<1> QED BY <1>7, <1>9

(* A put that adds a slice does too.                                       *)
LEMMA PutAdds ==
    ASSUME NEW ch, ChunkOK(ch), NEW id \in SliceId, id \notin DOMAIN ch.index,
           NEW x \in Content, can_fit_slice(ch, id, SizeOf[x])
    PROVE  LET new == put_slice(ch, id, x).chunk
           IN  ChunkOK(new) /\ MapOf(new) = [MapOf(ch) EXCEPT ![id] = x]
<1> DEFINE n == Len(ch.slices)
           slices2 == Append(ch.slices, x)
           index2 == [i \in DOMAIN ch.index \cup {id} |-> IF i = id THEN n + 1 ELSE ch.index[i]]
           size2 == ch.encoded_size + (4 + SizeOf[x] + 16 + 8)
           new == put_slice(ch, id, x).chunk
<1>1. new = [slices |-> slices2, index |-> index2, dirty |-> TRUE, encoded_size |-> size2]
  BY DEF put_slice, slice_encoded_size
<1>2. /\ ch.slices \in Seq(Content) /\ n \in Nat
      /\ Layout(ch.slices, ch.index) /\ Fits(ch.slices, ch.encoded_size)
  BY LenProperties DEF ChunkOK, Layout
<1>3. /\ slices2 \in Seq(Content) /\ Len(slices2) = n + 1
      /\ \A j \in 1..n : slices2[j] = ch.slices[j]
      /\ slices2[n + 1] = x
  BY <1>2, AppendProperties
<1>4. Layout(slices2, index2)
  <2>1. /\ IsFiniteSet(DOMAIN ch.index) /\ Cardinality(DOMAIN ch.index) = n
        /\ DOMAIN ch.index \subseteq SliceId
        /\ \A i \in DOMAIN ch.index : ch.index[i] \in 1..n
        /\ \A i, j \in DOMAIN ch.index : ch.index[i] = ch.index[j] => i = j
    BY <1>2 DEF Layout
  <2>2. IsFiniteSet(DOMAIN index2) /\ Cardinality(DOMAIN index2) = n + 1
    BY <2>1, FS_AddElement
  <2>3. DOMAIN index2 = DOMAIN ch.index \cup {id} /\ index2 = [i \in DOMAIN index2 |-> index2[i]]
    OBVIOUS
  <2>4. index2[id] = n + 1 /\ \A i \in DOMAIN ch.index : index2[i] = ch.index[i]
    OBVIOUS
  <2> HIDE DEF slices2, index2, n
  <2>5. \A i \in DOMAIN index2 : index2[i] \in 1..(n + 1)
    BY <1>2, <2>1, <2>3, <2>4
  <2>6. ASSUME NEW i \in DOMAIN index2, NEW j \in DOMAIN index2, index2[i] = index2[j]
        PROVE  i = j
    <3>1. \A k \in DOMAIN ch.index : index2[k] # n + 1
      BY <1>2, <2>1, <2>4
    <3> QED BY <2>1, <2>3, <2>4, <2>6, <3>1
  <2> QED BY <1>3, <2>1, <2>2, <2>3, <2>5, <2>6 DEF Layout
<1>5. Fits(slices2, size2)
  <2>1. BodySize(slices2) = BodySize(ch.slices) + 4 + SizeOf[x]
    BY <1>2, BodySizeAppend
  <2>2. BodySize(slices2) \in Nat /\ BodySize(ch.slices) \in Nat /\ SizeOf[x] \in Nat
    BY <1>2, <1>3, BodySizeType, SlicesAssumption
  <2>3. size2 <= MaxSize
    BY DEF can_fit_slice, slice_encoded_size
  <2>4. /\ ch.encoded_size \in Nat
        /\ 1 + 8 + 24 * n + BodySize(ch.slices) <= ch.encoded_size
    BY <1>2 DEF Fits
  <2>5. size2 \in Nat /\ 1 + 8 + 24 * (n + 1) + BodySize(slices2) <= size2
    <3> DEFINE a == BodySize(ch.slices)
               b == BodySize(slices2)
               l == SizeOf[x]
               e == ch.encoded_size
    <3>1. n \in Nat /\ a \in Nat /\ b \in Nat /\ l \in Nat /\ e \in Nat
      BY <1>2, <2>2, <2>4
    <3>2. b = a + 4 + l /\ 1 + 8 + 24 * n + a <= e /\ size2 = e + (4 + l + 16 + 8)
      BY <2>1, <2>4
    <3> HIDE DEF n, a, b, l, e, size2
    <3>3. size2 \in Nat /\ 1 + 8 + 24 * (n + 1) + b <= size2
      BY <3>1, <3>2
    <3> QED BY <3>3 DEF b
  <2> HIDE DEF size2, slices2
  <2> QED BY <1>3, <2>3, <2>5 DEF Fits
<1>6. ChunkOK(new)
  <2> HIDE DEF new, slices2, index2, size2
  <2> QED BY <1>1, <1>4, <1>5 DEF ChunkOK
<1>7. ASSUME NEW i \in SliceId PROVE MapOf(new)[i] = [MapOf(ch) EXCEPT ![id] = x][i]
  <2>1. get_slice(new, i) = IF i \in DOMAIN index2 THEN slices2[index2[i]] ELSE None
    <3> HIDE DEF new, slices2, index2, size2
    <3> QED BY <1>1, <1>6, GetSlice
  <2>2. get_slice(ch, i) = IF i \in DOMAIN ch.index THEN ch.slices[ch.index[i]] ELSE None
    BY GetSlice
  <2>3. i \in DOMAIN ch.index => ch.index[i] \in 1..n
    BY <1>2 DEF Layout
  <2>4. /\ i \in DOMAIN index2 <=> i \in DOMAIN ch.index \/ i = id
        /\ i = id => index2[i] = n + 1
        /\ i \in DOMAIN ch.index => index2[i] = ch.index[i]
    OBVIOUS
  <2>5. get_slice(new, i) = IF i = id THEN x ELSE get_slice(ch, i)
    <3> HIDE DEF new, slices2, n, index2
    <3> QED BY <1>3, <2>1, <2>2, <2>3, <2>4
  <2> HIDE DEF new
  <2> QED BY <2>5 DEF MapOf
<1>8. MapOf(new) = [MapOf(ch) EXCEPT ![id] = x]
  <2> HIDE DEF new
  <2> QED BY <1>7 DEF MapOf
<1> QED BY <1>6, <1>8

(* What is encoded from a good chunk is good bytes.                        *)
LEMMA SerializeOK ==
    ASSUME NEW ch, ChunkOK(ch)
    PROVE  LET bytes == consensus_serialize(ch)
           IN  BytesOK(bytes) /\ bytes.entries = ch.index /\ bytes.body = ch.slices
<1> DEFINE bytes == consensus_serialize(ch)
<1>1. bytes = [count |-> Len(ch.slices), entries |-> ch.index, body |-> ch.slices]
  BY DEF ChunkOK, Layout, consensus_serialize
<1>2. 1 + 8 + 24 * Len(ch.slices) + BodySize(ch.slices) <= MaxSize
  <2>1. ch.slices \in Seq(Content) /\ Len(ch.slices) \in Nat
    BY LenProperties DEF ChunkOK, Layout
  <2>2. BodySize(ch.slices) \in Nat
    BY <2>1, BodySizeType
  <2> QED BY <2>1, <2>2, SlicesAssumption DEF ChunkOK, Fits
<1> HIDE DEF bytes
<1>3. BytesOK(bytes)
  BY <1>1, <1>2 DEF BytesOK, ChunkOK
<1> QED BY <1>1, <1>3 DEF bytes

(* Good bytes decode, to a good chunk with the same slices and index.      *)
LEMMA DeserializeOK ==
    ASSUME NEW bytes, BytesOK(bytes)
    PROVE  LET ch == consensus_deserialize(bytes)
           IN  /\ Decodes(bytes)
               /\ ChunkOK(ch)
               /\ ch.index = bytes.entries
               /\ ch.slices = bytes.body
<1> DEFINE ch == consensus_deserialize(bytes)
           n == Len(bytes.body)
<1>1. /\ bytes.body \in Seq(Content) /\ n \in Nat /\ bytes.count = n
      /\ \A i \in DOMAIN bytes.entries : bytes.entries[i] \in 1..n
  BY LenProperties DEF BytesOK, Layout
<1>2. SubSeq(bytes.body, 1, bytes.count) = bytes.body
  BY <1>1, SubSeqFull
<1>3. ch = [slices |-> bytes.body, index |-> bytes.entries, dirty |-> FALSE,
            encoded_size |-> 1 + 8 + 24 * n + BodySize(bytes.body)]
  <2> HIDE DEF n
  <2> QED BY <1>1, <1>2 DEF consensus_deserialize
<1>4. Decodes(bytes)
  BY <1>1 DEF Decodes
<1>5. Fits(bytes.body, 1 + 8 + 24 * n + BodySize(bytes.body))
  <2>1. BodySize(bytes.body) \in Nat
    BY <1>1, BodySizeType
  <2> QED BY <1>1, <2>1 DEF BytesOK, Fits
<1> HIDE DEF ch
<1>6. ChunkOK(ch)
  BY <1>3, <1>5 DEF ChunkOK, BytesOK
<1> QED BY <1>3, <1>4, <1>6 DEF ch

(* Encoding and decoding give the same slices back.                        *)
LEMMA RoundTripOK ==
    ASSUME NEW ch, ChunkOK(ch), NEW id
    PROVE  get_slice(consensus_deserialize(consensus_serialize(ch)), id) = get_slice(ch, id)
<1> DEFINE bytes == consensus_serialize(ch)
           back == consensus_deserialize(bytes)
<1>1. BytesOK(bytes) /\ bytes.entries = ch.index /\ bytes.body = ch.slices
  BY SerializeOK
<1> HIDE DEF bytes
<1>2. ChunkOK(back) /\ back.index = bytes.entries /\ back.slices = bytes.body
  BY <1>1, DeserializeOK
<1> HIDE DEF back
<1>3. get_slice(back, id) = get_slice(ch, id)
  BY <1>1, <1>2, GetSlice
<1> QED BY <1>3 DEF back, bytes

(* The dirty flag is no part of what a chunk holds.                        *)
LEMMA CleanedOK ==
    ASSUME NEW ch, ChunkOK(ch)
    PROVE  LET clean == [ch EXCEPT !.dirty = FALSE]
           IN  ChunkOK(clean) /\ MapOf(clean) = MapOf(ch)
<1> DEFINE clean == [ch EXCEPT !.dirty = FALSE]
<1>1. clean = [slices |-> ch.slices, index |-> ch.index, dirty |-> FALSE,
               encoded_size |-> ch.encoded_size]
  <2>1. PICK s, i, d, e : ch = [slices |-> s, index |-> i, dirty |-> d, encoded_size |-> e]
    BY Zenon DEF ChunkOK
  <2> DEFINE r == [slices |-> s, index |-> i, dirty |-> d, encoded_size |-> e]
             q == [slices |-> s, index |-> i, dirty |-> FALSE, encoded_size |-> e]
  <2>2. clean = q
    <3>1. clean = [f \in DOMAIN r |-> IF f = "dirty" THEN FALSE ELSE r[f]]
      BY <2>1
    <3>2. DOMAIN r = DOMAIN q
      OBVIOUS
    <3>3. \A f \in DOMAIN r : q[f] = IF f = "dirty" THEN FALSE ELSE r[f]
      <4>1. q.dirty = FALSE /\ q.slices = s /\ q.index = i /\ q.encoded_size = e
        BY Zenon
      <4>2. r.slices = s /\ r.index = i /\ r.encoded_size = e
        OBVIOUS
      <4>3. DOMAIN r = {"slices", "index", "dirty", "encoded_size"}
        OBVIOUS
      <4> HIDE DEF q, r
      <4> QED BY <4>1, <4>2, <4>3, Zenon
    <3> QED BY <3>1, <3>2, <3>3
  <2> HIDE DEF clean
  <2> QED BY <2>1, <2>2
<1> HIDE DEF clean
<1>2. ChunkOK(clean)
  BY <1>1 DEF ChunkOK
<1>3. \A id \in SliceId : get_slice(clean, id) = get_slice(ch, id)
  BY <1>1, <1>2, GetSlice
<1> QED BY <1>2, <1>3 DEF clean, MapOf

-----------------------------------------------------------------------------
LEMMA InitInv == Init => IInv
<1> SUFFICES ASSUME Init PROVE IInv
  OBVIOUS
<1>1. ChunkOK(NewChunk) /\ BytesOK(consensus_serialize(NewChunk))
  BY NewChunkOK, SerializeOK
<1> QED BY <1>1 DEF Init, IInv

(* What each step does to the maps behind the chunk and behind the saved   *)
(* bytes, with the invariant.                                              *)
LEMMA PutStep ==
    ASSUME IInv, NEW id \in SliceId, NEW x \in Content, PutSlice(id, x)
    PROVE  /\ IInv'
           /\ UNCHANGED saved
           /\ MapOf(chunk') = MapOf(chunk) \/ MapOf(chunk') = [MapOf(chunk) EXCEPT ![id] = x]
<1>1. chunk' = put_slice(chunk, id, x).chunk /\ UNCHANGED saved
  BY DEF PutSlice
<1>2. CASE ~can_fit_slice(chunk, id, SizeOf[x])
  BY <1>1, <1>2, PutRefused DEF IInv
<1>3. CASE can_fit_slice(chunk, id, SizeOf[x])
  <2>1. ChunkOK(chunk') /\ MapOf(chunk') = [MapOf(chunk) EXCEPT ![id] = x]
    BY <1>1, <1>3, PutReplaces, PutAdds DEF IInv
  <2> QED BY <1>1, <2>1 DEF IInv
<1> QED BY <1>2, <1>3

LEMMA SyncStep ==
    ASSUME IInv, Sync
    PROVE  /\ IInv'
           /\ MapOf(chunk') = MapOf(chunk)
           /\ MapOf(consensus_deserialize(saved')) = MapOf(chunk)
<1>1. ChunkOK(chunk') /\ MapOf(chunk') = MapOf(chunk)
  BY CleanedOK DEF IInv, Sync
<1>2. BytesOK(saved')
  BY SerializeOK DEF IInv, Sync
<1>3. \A id \in SliceId : get_slice(consensus_deserialize(saved'), id) = get_slice(chunk, id)
  BY RoundTripOK DEF IInv, Sync
<1> QED BY <1>1, <1>2, <1>3 DEF IInv, MapOf

LEMMA FetchStep ==
    ASSUME IInv, Fetch
    PROVE  IInv' /\ UNCHANGED saved /\ MapOf(chunk') = MapOf(consensus_deserialize(saved))
<1>1. chunk' = consensus_deserialize(saved) /\ UNCHANGED saved
  BY DEF Fetch
<1>2. ChunkOK(consensus_deserialize(saved))
  BY DeserializeOK DEF IInv
<1> QED BY <1>1, <1>2 DEF IInv

LEMMA StepInv == IInv /\ [Next]_vars => IInv'
<1> SUFFICES ASSUME IInv, [Next]_vars PROVE IInv'
  OBVIOUS
<1>1. CASE \E id \in SliceId, x \in Content : PutSlice(id, x)
  BY <1>1, PutStep
<1>2. CASE Sync
  BY <1>2, SyncStep
<1>3. CASE Fetch
  BY <1>3, FetchStep
<1>4. CASE UNCHANGED vars
  BY <1>4 DEF vars, IInv
<1> QED BY <1>1, <1>2, <1>3, <1>4 DEF Next

LEMMA AlwaysInv == Spec => []IInv
BY InitInv, StepInv, PTL DEF Spec

-----------------------------------------------------------------------------
(* put_slice, sync_slot and get_chunk in any order, with slices of any     *)
(* size: the size the code keeps is never below that of the real encoding  *)
(* and never above the limit, so no oversized chunk is uploaded.           *)
THEOREM SpecNeverOversized == Spec => []NeverOversized
<1>1. ASSUME IInv PROVE NeverOversized
  <2> DEFINE bytes == consensus_serialize(chunk)
  <2>1. bytes.entries = chunk.index /\ bytes.body = chunk.slices
    BY SerializeOK, <1>1 DEF IInv
  <2>2. Cardinality(DOMAIN chunk.index) = Len(chunk.slices)
    BY <1>1 DEF IInv, ChunkOK, Layout
  <2> HIDE DEF bytes
  <2>3. EncodedLength(bytes) = 1 + 8 + 24 * Len(chunk.slices) + BodySize(chunk.slices)
    BY <2>1, <2>2 DEF EncodedLength
  <2> QED BY <1>1, <2>3 DEF IInv, ChunkOK, Fits, NeverOversized, bytes
<1> QED BY <1>1, AlwaysInv, PTL

(* What consensus_serialize writes, consensus_deserialize accepts, and     *)
(* get_slice finds every slice as it was.                                  *)
THEOREM SpecRoundTrip == Spec => []RoundTrip
<1>1. ASSUME IInv PROVE RoundTrip
  <2> DEFINE bytes == consensus_serialize(chunk)
  <2>1. BytesOK(bytes)
    BY SerializeOK, <1>1 DEF IInv
  <2>2. Decodes(bytes)
    <3> HIDE DEF bytes
    <3> QED BY <2>1, DeserializeOK
  <2>3. \A id \in SliceId : get_slice(consensus_deserialize(bytes), id) = get_slice(chunk, id)
    BY RoundTripOK, <1>1 DEF IInv
  <2> QED BY <2>2, <2>3 DEF RoundTrip
<1> QED BY <1>1, AlwaysInv, PTL

-----------------------------------------------------------------------------
(* The chunk implements the map of SliceMap: a put stores one slice and    *)
(* touches no other (or is refused and does nothing), an upload remembers  *)
(* the whole map and a fetch brings it back.                               *)
THEOREM SpecImplementsSliceMap == Spec => ImplementsSliceMap
<1>1. Init => Abstract!Init
  <2> SUFFICES ASSUME Init PROVE Abstract!Init
    OBVIOUS
  <2>1. IInv
    BY InitInv
  <2>2. DOMAIN chunk.index = {}
    BY DEF Init, NewChunk
  <2>3. MapOf(chunk) = [i \in SliceId |-> None]
    BY <2>1, <2>2, GetSlice DEF IInv, MapOf
  <2>4. saved = consensus_serialize(chunk)
    BY DEF Init
  <2>5. MapOf(consensus_deserialize(saved)) = MapOf(chunk)
    BY <2>1, <2>4, RoundTripOK DEF IInv, MapOf
  <2> QED BY <2>3, <2>5 DEF Abstract!Init
<1>2. IInv /\ [Next]_vars
      => [Abstract!Next]_<<MapOf(chunk), MapOf(consensus_deserialize(saved))>>
  <2> SUFFICES ASSUME IInv, [Next]_vars
               PROVE  \/ Abstract!Next
                      \/ /\ MapOf(chunk') = MapOf(chunk)
                         /\ MapOf(consensus_deserialize(saved'))
                            = MapOf(consensus_deserialize(saved))
    BY DEF MapOf, get_slice, consensus_deserialize
  <2>1. CASE \E id \in SliceId, x \in Content : PutSlice(id, x)
    <3>1. PICK id \in SliceId, x \in Content : PutSlice(id, x)
      BY <2>1
    <3>2. /\ saved' = saved
          /\ MapOf(chunk') = MapOf(chunk) \/ MapOf(chunk') = [MapOf(chunk) EXCEPT ![id] = x]
      BY <3>1, PutStep
    <3>3. CASE MapOf(chunk') = MapOf(chunk)
      BY <3>2, <3>3
    <3>4. CASE MapOf(chunk') = [MapOf(chunk) EXCEPT ![id] = x]
      <4>1. Abstract!Put(id, x)
        BY <3>2, <3>4 DEF Abstract!Put
      <4> QED BY <4>1 DEF Abstract!Next
    <3> QED BY <3>2, <3>3, <3>4
  <2>2. CASE Sync
    BY <2>2, SyncStep DEF Abstract!Next, Abstract!Save
  <2>3. CASE Fetch
    <3>1. saved' = saved /\ MapOf(chunk') = MapOf(consensus_deserialize(saved))
      BY <2>3, FetchStep
    <3> QED BY <3>1 DEF Abstract!Next, Abstract!Reload
  <2>4. CASE UNCHANGED vars
    BY <2>4 DEF vars
  <2> QED BY <2>1, <2>2, <2>3, <2>4 DEF Next
<1> QED BY <1>1, <1>2, AlwaysInv, PTL DEF Spec, ImplementsSliceMap, Abstract!Spec
=============================================================================
