--------------------------- MODULE HostHeapProofs ---------------------------
(***************************************************************************)
(* Proofs about HostHeap, for every pool, granularity and set of request   *)
(* lengths that do not wrap a u32: its invariants, and that it implements  *)
(* BlockPool.                                                              *)
(***************************************************************************)
EXTENDS HostHeap, SequenceTheorems, WellFoundedInduction, TLAPS

-----------------------------------------------------------------------------
(* Sequences. *)

(* RemoveAt closes the gap it leaves. *)
LEMMA RemoveAtProperties ==
  ASSUME NEW S, NEW s \in Seq(S), NEW i \in 1 .. Len(s)
  PROVE  /\ RemoveAt(s, i) \in Seq(S)
         /\ Len(RemoveAt(s, i)) = Len(s) - 1
         /\ \A j \in 1 .. Len(s) - 1 :
              RemoveAt(s, i)[j] = IF j < i THEN s[j] ELSE s[j + 1]
<1> DEFINE l == SubSeq(s, 1, i - 1)
           r == SubSeq(s, i + 1, Len(s))
<1>1. Len(s) \in Nat /\ \A j \in 1 .. Len(s) : s[j] \in S
  BY LenProperties, ElementOfSeq
<1>2. /\ l \in Seq(S) /\ Len(l) = i - 1
      /\ \A j \in 1 .. i - 1 : l[j] = s[j]
  BY <1>1, SubSeqProperties
<1>3. /\ r \in Seq(S) /\ Len(r) = Len(s) - i
      /\ \A j \in 1 .. Len(s) - i : r[j] = s[i + j]
  BY <1>1, SubSeqProperties
<1>4. RemoveAt(s, i) = l \o r
  BY DEF RemoveAt
<1> HIDE DEF l, r
<1>5. /\ l \o r \in Seq(S)
      /\ Len(l \o r) = Len(l) + Len(r)
      /\ \A j \in 1 .. Len(l) + Len(r) :
           (l \o r)[j] = IF j <= Len(l) THEN l[j] ELSE r[j - Len(l)]
  <2>1. l \in Seq(S) /\ r \in Seq(S)  BY <1>2, <1>3
  <2> QED BY ONLY <2>1, ConcatProperties
<1>6. \A j \in 1 .. Len(s) - 1 :
        (l \o r)[j] = IF j < i THEN s[j] ELSE s[j + 1]
  <2> SUFFICES ASSUME NEW j \in 1 .. Len(s) - 1
               PROVE  (l \o r)[j] = IF j < i THEN s[j] ELSE s[j + 1]
    OBVIOUS
  <2>1. CASE j < i
    BY <1>1, <1>2, <1>3, <1>5, <2>1
  <2>2. CASE j >= i
    <3>1. (l \o r)[j] = r[j - (i - 1)]
      BY <1>1, <1>2, <1>3, <1>5, <2>2
    <3>2. j - (i - 1) \in 1 .. Len(s) - i
      BY <1>1, <2>2
    <3>3. r[j - (i - 1)] = s[i + (j - (i - 1))]
      BY <1>3, <3>2
    <3>4. i + (j - (i - 1)) = j + 1
      BY <1>1
    <3> QED BY <1>1, <2>2, <3>1, <3>3, <3>4
  <2>3. j < i \/ j >= i
    BY <1>1
  <2> QED BY <2>1, <2>2, <2>3, Zenon
<1>7. Len(l \o r) = Len(s) - 1
  BY <1>1, <1>2, <1>3, <1>5
<1> QED BY <1>4, <1>5, <1>6, <1>7

(* InsertAt pushes the rest back. *)
LEMMA InsertAtProperties ==
  ASSUME NEW S, NEW s \in Seq(S), NEW i \in 1 .. Len(s) + 1, NEW e \in S
  PROVE  /\ InsertAt(s, i, e) \in Seq(S)
         /\ Len(InsertAt(s, i, e)) = Len(s) + 1
         /\ \A j \in 1 .. Len(s) + 1 :
              InsertAt(s, i, e)[j] =
                IF j < i THEN s[j] ELSE IF j = i THEN e ELSE s[j - 1]
<1> DEFINE l == SubSeq(s, 1, i - 1)
           m == <<e>>
           r == SubSeq(s, i, Len(s))
           lm == l \o m
<1>1. Len(s) \in Nat /\ \A j \in 1 .. Len(s) : s[j] \in S
  BY LenProperties, ElementOfSeq
<1>2. /\ l \in Seq(S) /\ Len(l) = i - 1
      /\ \A j \in 1 .. i - 1 : l[j] = s[j]
  BY <1>1, SubSeqProperties
<1>3. /\ r \in Seq(S) /\ Len(r) = Len(s) - i + 1
      /\ \A j \in 1 .. Len(s) - i + 1 : r[j] = s[i + j - 1]
  BY <1>1, SubSeqProperties
<1>4. m \in Seq(S) /\ Len(m) = 1 /\ m[1] = e
  OBVIOUS
<1>5. InsertAt(s, i, e) = lm \o r
  BY DEF InsertAt
<1> HIDE DEF l, m, r
<1>6. /\ lm \in Seq(S)
      /\ Len(lm) = Len(l) + Len(m)
      /\ \A j \in 1 .. Len(l) + Len(m) :
           lm[j] = IF j <= Len(l) THEN l[j] ELSE m[j - Len(l)]
  BY <1>2, <1>4, ConcatProperties
<1> HIDE DEF lm
<1>7. /\ lm \o r \in Seq(S)
      /\ Len(lm \o r) = Len(lm) + Len(r)
      /\ \A j \in 1 .. Len(lm) + Len(r) :
           (lm \o r)[j] = IF j <= Len(lm) THEN lm[j] ELSE r[j - Len(lm)]
  <2>1. lm \in Seq(S) /\ r \in Seq(S)  BY <1>3, <1>6
  <2> QED BY ONLY <2>1, ConcatProperties
<1>8. \A j \in 1 .. Len(s) + 1 :
        (lm \o r)[j] =
          IF j < i THEN s[j] ELSE IF j = i THEN e ELSE s[j - 1]
  BY <1>1, <1>2, <1>3, <1>4, <1>6, <1>7
<1>9. Len(lm \o r) = Len(s) + 1
  BY <1>1, <1>2, <1>3, <1>4, <1>6, <1>7
<1> QED BY <1>5, <1>7, <1>8, <1>9

-----------------------------------------------------------------------------
(* Block lists. *)

(* A list in address order whose blocks are not empty and lie in the pool; *)
(* only at a seam may a block touch the next one.                          *)
LooseList(bs, seams) ==
  /\ bs \in Seq(Block)
  /\ \A i \in 1 .. Len(bs) :
       /\ bs[i].len > 0
       /\ bs[i].start >= PoolStart
       /\ Finish(bs[i]) <= PoolEnd
  /\ \A i, j \in 1 .. Len(bs) :
       i < j => \/ Finish(bs[i]) < bs[j].start
                \/ Finish(bs[i]) = bs[j].start /\ j = i + 1 /\ i \in seams

(* What it is to be a byte of the list's space. *)
LEMMA SpaceMember ==
  ASSUME NEW bs \in Seq(Block), NEW x
  PROVE  x \in Space(bs) <=>
           \E i \in 1 .. Len(bs) :
             x \in Int /\ bs[i].start <= x /\ x < bs[i].start + bs[i].len
<1>1. DOMAIN bs = 1 .. Len(bs) /\ \A i \in 1 .. Len(bs) : bs[i] \in Block
  BY LenProperties, ElementOfSeq
<1>2. \A i \in 1 .. Len(bs) :
        x \in BlockBytes(bs[i]) <=>
          x \in Int /\ bs[i].start <= x /\ x < bs[i].start + bs[i].len
  BY <1>1 DEF BlockBytes, Finish, Block
<1> QED BY <1>1, <1>2 DEF Space

(* What a loose list is, field by field. *)
LEMMA LooseFields ==
  ASSUME NEW bs, NEW seams, LooseList(bs, seams)
  PROVE  /\ bs \in Seq(Block) /\ Len(bs) \in Nat
         /\ \A j \in 1 .. Len(bs) :
              /\ bs[j] \in Block
              /\ bs[j].start \in Nat /\ bs[j].len \in Nat \ {0}
              /\ bs[j].start >= PoolStart /\ bs[j].start + bs[j].len <= PoolEnd
         /\ \A j, k \in 1 .. Len(bs) : j < k =>
              \/ bs[j].start + bs[j].len < bs[k].start
              \/ /\ bs[j].start + bs[j].len = bs[k].start
                 /\ k = j + 1 /\ j \in seams
<1>1. bs \in Seq(Block) /\ \A j \in 1 .. Len(bs) : bs[j].len > 0
  BY DEF LooseList
<1>2. Len(bs) \in Nat /\ \A j \in 1 .. Len(bs) : bs[j] \in Block
  BY <1>1, LenProperties, ElementOfSeq
<1>3. \A b \in Block : b.start \in Nat /\ b.len \in Nat
  BY DEF Block
<1>4. \A j \in 1 .. Len(bs) :
        bs[j].start >= PoolStart /\ bs[j].start + bs[j].len <= PoolEnd
  BY DEF LooseList, Finish
<1>5. \A j, k \in 1 .. Len(bs) : j < k =>
        \/ bs[j].start + bs[j].len < bs[k].start
        \/ /\ bs[j].start + bs[j].len = bs[k].start
           /\ k = j + 1 /\ j \in seams
  BY DEF LooseList, Finish
<1> QED BY <1>1, <1>2, <1>3, <1>4, <1>5

(* A list without seams: no block touches the next one. *)
LEMMA CanonicalFields ==
  ASSUME NEW bs, LooseList(bs, {})
  PROVE  /\ bs \in Seq(Block) /\ Len(bs) \in Nat
         /\ \A j \in 1 .. Len(bs) :
              /\ bs[j].start \in Nat /\ bs[j].len \in Nat \ {0}
              /\ bs[j].start >= PoolStart /\ bs[j].start + bs[j].len <= PoolEnd
         /\ \A j, k \in 1 .. Len(bs) : j < k =>
                 bs[j].start + bs[j].len < bs[k].start
<1>1. /\ bs \in Seq(Block) /\ Len(bs) \in Nat
      /\ \A j \in 1 .. Len(bs) :
           /\ bs[j].start \in Nat /\ bs[j].len \in Nat \ {0}
           /\ bs[j].start >= PoolStart /\ bs[j].start + bs[j].len <= PoolEnd
  BY LooseFields
<1>2. \A j, k \in 1 .. Len(bs) : j < k => Finish(bs[j]) < bs[k].start
  BY Zenon DEF LooseList
<1>3. \A j, k \in 1 .. Len(bs) : j < k =>
         bs[j].start + bs[j].len < bs[k].start
  BY <1>2, Zenon DEF Finish
<1> QED BY <1>1, <1>3, Zenon

(* Two blocks of such a list are apart. *)
LEMMA Apart ==
  ASSUME NEW bs, LooseList(bs, {}),
         NEW i \in 1 .. Len(bs), NEW j \in 1 .. Len(bs), i # j,
         NEW x \in Int, bs[j].start <= x, x < bs[j].start + bs[j].len
  PROVE  ~ (bs[i].start <= x /\ x < bs[i].start + bs[i].len)
<1>1. /\ bs[i].start \in Nat /\ bs[i].len \in Nat
      /\ bs[j].start \in Nat /\ bs[j].len \in Nat
  BY CanonicalFields
<1>2. CASE i < j
  <2>1. bs[i].start + bs[i].len < bs[j].start
    BY <1>2, CanonicalFields, Zenon
  <2> QED BY <1>1, <2>1
<1>3. CASE j < i
  <2>1. bs[j].start + bs[j].len < bs[i].start
    BY <1>3, CanonicalFields, Zenon
  <2> QED BY <1>1, <2>1
<1>4. i < j \/ j < i
  BY CanonicalFields
<1> QED BY <1>2, <1>3, <1>4, Zenon

(* Dropping a block from the list drops just its bytes. *)
LEMMA RemoveTakes ==
  ASSUME NEW bs, LooseList(bs, {}), NEW i \in 1 .. Len(bs)
  PROVE  /\ LooseList(RemoveAt(bs, i), {})
         /\ \A x : x \in Space(RemoveAt(bs, i)) <=>
                    /\ x \in Space(bs)
                    /\ ~ (bs[i].start <= x /\ x < bs[i].start + bs[i].len)
<1> DEFINE c == RemoveAt(bs, i)
           F(j) == IF j < i THEN j ELSE j + 1
<1>1. /\ bs \in Seq(Block) /\ Len(bs) \in Nat
      /\ \A j \in 1 .. Len(bs) :
           /\ bs[j].start \in Nat /\ bs[j].len \in Nat \ {0}
           /\ bs[j].start >= PoolStart /\ bs[j].start + bs[j].len <= PoolEnd
      /\ \A j, k \in 1 .. Len(bs) : j < k =>
              bs[j].start + bs[j].len < bs[k].start
  BY CanonicalFields, Zenon
<1>2. /\ c \in Seq(Block) /\ Len(c) = Len(bs) - 1
      /\ \A j \in 1 .. Len(bs) - 1 : c[j] = IF j < i THEN bs[j] ELSE bs[j + 1]
  BY <1>1, RemoveAtProperties
<1> HIDE DEF c
<1>3. \A j \in 1 .. Len(c) :
        F(j) \in 1 .. Len(bs) /\ F(j) # i /\ c[j] = bs[F(j)]
  BY <1>1, <1>2
<1>4. \A j, k \in 1 .. Len(c) : j < k => F(j) < F(k)
  BY <1>1, <1>2
<1>5. \A k \in 1 .. Len(bs) : k # i => \E j \in 1 .. Len(c) : k = F(j)
  <2> SUFFICES ASSUME NEW k \in 1 .. Len(bs), k # i
               PROVE  \E j \in 1 .. Len(c) : k = F(j)
    OBVIOUS
  <2>1. k < i => k \in 1 .. Len(c) /\ k = F(k)
    BY <1>1, <1>2
  <2>2. ~ (k < i) => k - 1 \in 1 .. Len(c) /\ k = F(k - 1)
    BY <1>1, <1>2
  <2> QED BY <2>1, <2>2, Zenon
<1> HIDE DEF F
<1>6. LooseList(c, {})
  <2>1. \A j \in 1 .. Len(c) : /\ c[j].len > 0 /\ c[j].start >= PoolStart
                                /\ Finish(c[j]) <= PoolEnd
    BY <1>1, <1>3 DEF Finish
  <2>2. \A j, k \in 1 .. Len(c) : j < k => Finish(c[j]) < c[k].start
    BY <1>1, <1>3, <1>4 DEF Finish
  <2> QED BY <1>2, <2>1, <2>2 DEF LooseList
<1>7. ASSUME NEW x, x \in Space(c)
      PROVE  x \in Space(bs) /\ ~ (bs[i].start <= x /\ x < bs[i].start + bs[i].len)
  <2>1. PICK j \in 1 .. Len(c) :
          x \in Int /\ c[j].start <= x /\ x < c[j].start + c[j].len
    BY <1>2, <1>7, SpaceMember
  <2>2. F(j) \in 1 .. Len(bs) /\ F(j) # i /\ c[j] = bs[F(j)]
    BY <1>3
  <2>3. x \in Space(bs)
    BY <1>1, <2>1, <2>2, SpaceMember
  <2>4. bs[F(j)].start <= x /\ x < bs[F(j)].start + bs[F(j)].len
    BY <2>1, <2>2, Zenon
  <2>5. ~ (bs[i].start <= x /\ x < bs[i].start + bs[i].len)
    BY <2>1, <2>2, <2>4, Apart
  <2> QED BY <2>3, <2>5
<1>8. ASSUME NEW x, x \in Space(bs),
             ~ (bs[i].start <= x /\ x < bs[i].start + bs[i].len)
      PROVE  x \in Space(c)
  <2>1. PICK k \in 1 .. Len(bs) :
          x \in Int /\ bs[k].start <= x /\ x < bs[k].start + bs[k].len
    BY <1>1, <1>8, SpaceMember
  <2>2. k # i
    BY <1>8, <2>1
  <2>3. PICK j \in 1 .. Len(c) : c[j] = bs[k]
    BY <1>3, <1>5, <2>2, Zenon
  <2> QED BY <1>2, <2>1, <2>3, SpaceMember
<1> QED BY <1>6, <1>7, <1>8 DEF c

(* Exchanging a block for a part of itself takes what the part leaves out. *)
LEMMA ShrinkTakes ==
  ASSUME NEW bs, LooseList(bs, {}), NEW i \in 1 .. Len(bs), NEW b \in Block,
         b.len > 0, bs[i].start <= b.start, Finish(b) <= Finish(bs[i])
  PROVE  /\ LooseList([bs EXCEPT ![i] = b], {})
         /\ \A x : x \in Space([bs EXCEPT ![i] = b]) <=>
                    /\ x \in Space(bs)
                    /\ ~ (bs[i].start <= x /\ x < b.start)
                    /\ ~ (b.start + b.len <= x /\ x < bs[i].start + bs[i].len)
<1> DEFINE c == [bs EXCEPT ![i] = b]
<1>1. /\ bs \in Seq(Block) /\ Len(bs) \in Nat
      /\ \A j \in 1 .. Len(bs) :
           /\ bs[j].start \in Nat /\ bs[j].len \in Nat \ {0}
           /\ bs[j].start >= PoolStart /\ bs[j].start + bs[j].len <= PoolEnd
      /\ \A j, k \in 1 .. Len(bs) : j < k =>
              bs[j].start + bs[j].len < bs[k].start
  BY CanonicalFields, Zenon
<1>2. /\ b.start \in Nat /\ b.len \in Nat \ {0} /\ bs[i].start <= b.start
      /\ b.start + b.len <= bs[i].start + bs[i].len
      /\ PoolStart \in Nat /\ PoolEnd \in Nat
  BY PoolAssumption DEF Block, Finish, PoolEnd
<1>3. /\ c \in Seq(Block) /\ Len(c) = Len(bs) /\ c[i] = b
      /\ \A j \in 1 .. Len(bs) : j # i => c[j] = bs[j]
  BY <1>1, ExceptSeq
<1> HIDE DEF c
<1>4. \A j \in 1 .. Len(c) :
        /\ c[j].start \in Nat /\ c[j].len \in Nat \ {0}
        /\ bs[j].start <= c[j].start
        /\ c[j].start + c[j].len <= bs[j].start + bs[j].len
  <2> SUFFICES ASSUME NEW j \in 1 .. Len(c)
               PROVE  /\ c[j].start \in Nat /\ c[j].len \in Nat \ {0}
                      /\ bs[j].start <= c[j].start
                      /\ c[j].start + c[j].len <= bs[j].start + bs[j].len
    OBVIOUS
  <2>1. CASE j = i   BY <1>1, <1>2, <1>3, <2>1
  <2>2. CASE j # i   BY <1>1, <1>3, <2>2
  <2> QED BY <2>1, <2>2
<1>5. LooseList(c, {})
  <2>1. \A j \in 1 .. Len(c) : /\ c[j].len > 0 /\ c[j].start >= PoolStart
                                /\ Finish(c[j]) <= PoolEnd
    <3> SUFFICES ASSUME NEW j \in 1 .. Len(c)
                 PROVE  /\ c[j].len > 0 /\ c[j].start >= PoolStart
                        /\ Finish(c[j]) <= PoolEnd
      OBVIOUS
    <3>1. /\ bs[j].start \in Nat /\ bs[j].start >= PoolStart
          /\ Finish(bs[j]) \in Nat /\ Finish(bs[j]) <= PoolEnd
      BY <1>1, <1>3 DEF Finish
    <3>2. /\ c[j].start \in Nat /\ bs[j].start <= c[j].start /\ c[j].len > 0
      BY <1>4
    <3>3. Finish(c[j]) \in Nat /\ Finish(c[j]) <= Finish(bs[j])
      BY <1>4 DEF Finish
    <3> QED BY <1>2, <3>1, <3>2, <3>3, SMTT(30)
  <2>2. \A j, k \in 1 .. Len(c) : j < k => Finish(c[j]) < c[k].start
    <3> SUFFICES ASSUME NEW j \in 1 .. Len(c), NEW k \in 1 .. Len(c), j < k
                 PROVE  Finish(c[j]) < c[k].start
      OBVIOUS
    <3>1. Finish(bs[j]) < bs[k].start
      BY <1>1, <1>3 DEF Finish
    <3>2. Finish(bs[j]) \in Nat /\ bs[k].start \in Nat
      BY <1>1, <1>3 DEF Finish
    <3>3. Finish(c[j]) \in Nat /\ Finish(c[j]) <= Finish(bs[j])
      BY <1>4 DEF Finish
    <3>4. c[k].start \in Nat /\ bs[k].start <= c[k].start
      BY <1>4
    <3> QED BY <3>1, <3>2, <3>3, <3>4
  <2> QED BY <1>3, <2>1, <2>2 DEF LooseList
<1>6. ASSUME NEW x, x \in Space(c)
      PROVE  /\ x \in Space(bs)
             /\ ~ (bs[i].start <= x /\ x < b.start)
             /\ ~ (b.start + b.len <= x /\ x < bs[i].start + bs[i].len)
  <2>1. PICK j \in 1 .. Len(c) :
          x \in Int /\ c[j].start <= x /\ x < c[j].start + c[j].len
    BY <1>3, <1>6, SpaceMember
  <2>2. bs[j].start <= x /\ x < bs[j].start + bs[j].len
    <3>1. /\ bs[j].start \in Nat /\ bs[j].len \in Nat
          /\ c[j].start \in Nat /\ c[j].len \in Nat
          /\ bs[j].start <= c[j].start
          /\ c[j].start + c[j].len <= bs[j].start + bs[j].len
      BY <1>1, <1>3, <1>4
    <3>2. bs[j].start <= x
      BY <2>1, <3>1
    <3>3. x < bs[j].start + bs[j].len
      BY <2>1, <3>1, SMTT(30)
    <3> QED BY <3>2, <3>3
  <2>3. x \in Space(bs)
    BY <1>1, <1>3, <2>1, <2>2, SpaceMember
  <2>4. CASE j = i   BY <1>2, <1>3, <2>1, <2>3, <2>4
  <2>5. CASE j # i
    <3>1. ~ (bs[i].start <= x /\ x < bs[i].start + bs[i].len)
      BY <1>3, <2>1, <2>2, <2>5, Apart
    <3>2. bs[i].start \in Nat /\ bs[i].len \in Nat
      BY <1>1
    <3> QED BY <1>2, <2>1, <2>3, <3>1, <3>2, SMTT(30)
  <2> QED BY <2>4, <2>5
<1>7. ASSUME NEW x, x \in Space(bs),
             ~ (bs[i].start <= x /\ x < b.start),
             ~ (b.start + b.len <= x /\ x < bs[i].start + bs[i].len)
      PROVE  x \in Space(c)
  <2>1. PICK k \in 1 .. Len(bs) :
          x \in Int /\ bs[k].start <= x /\ x < bs[k].start + bs[k].len
    BY <1>1, <1>7, SpaceMember
  <2>2. c[k].start <= x /\ x < c[k].start + c[k].len
    <3>1. CASE k = i   BY <1>1, <1>2, <1>3, <1>7, <2>1, <3>1
    <3>2. CASE k # i   BY <1>3, <2>1, <3>2
    <3> QED BY <3>1, <3>2
  <2> QED BY <1>3, <2>1, <2>2, SpaceMember
<1> QED BY <1>5, <1>6, <1>7 DEF c

(* Cutting the front off a block that is long enough takes exactly those   *)
(* bytes from the free space.                                              *)
LEMMA CarveTakes ==
  ASSUME NEW bs, LooseList(bs, {}), NEW n \in Nat \ {0}, NEW i \in Fits(bs, n)
  PROVE  /\ LooseList(Carve(bs, i, n), {})
         /\ bs[i].start .. bs[i].start + n - 1 \subseteq Space(bs)
         /\ Space(Carve(bs, i, n)) =
              Space(bs) \ (bs[i].start .. bs[i].start + n - 1)
<1> DEFINE c == Carve(bs, i, n)
           cut == bs[i].start .. bs[i].start + n - 1
           rest == [start |-> bs[i].start + n, len |-> bs[i].len - n]
<1>1. /\ bs \in Seq(Block) /\ Len(bs) \in Nat
      /\ \A j \in 1 .. Len(bs) : bs[j].start \in Nat /\ bs[j].len \in Nat \ {0}
  BY LooseFields
<1>2. i \in 1 .. Len(bs) /\ bs[i].len >= n
  BY <1>1, LenProperties DEF Fits
<1>3. cut \subseteq Space(bs)
  <2> SUFFICES ASSUME NEW x \in cut PROVE x \in Space(bs)
    OBVIOUS
  <2>1. x \in Int /\ bs[i].start <= x /\ x < bs[i].start + bs[i].len
    BY <1>1, <1>2
  <2> QED BY <1>1, <1>2, <2>1, SpaceMember
<1>4. \A x \in Space(bs) : x \in Int
  BY <1>1, SpaceMember
<1>5. CASE bs[i].len = n
  <2>1. c = RemoveAt(bs, i)
    BY <1>5 DEF Carve
  <2>2. /\ LooseList(c, {})
        /\ \A x : x \in Space(c) <=>
             x \in Space(bs) /\ ~ (bs[i].start <= x /\ x < bs[i].start + n)
    BY <1>2, <1>5, <2>1, RemoveTakes
  <2> HIDE DEF c
  <2>3. Space(c) = Space(bs) \ cut
    BY <1>1, <1>2, <1>4, <2>2
  <2> QED BY <1>3, <2>2, <2>3 DEF c
<1>6. CASE bs[i].len # n
  <2>1. c = [bs EXCEPT ![i] = rest]
    BY <1>1, <1>2, <1>6, LenProperties DEF Carve
  <2>2. /\ rest \in Block /\ rest.len > 0 /\ bs[i].start <= rest.start
        /\ Finish(rest) <= Finish(bs[i])
        /\ rest.start = bs[i].start + n
        /\ rest.start + rest.len = bs[i].start + bs[i].len
    <3>1. /\ bs[i].start \in Nat /\ bs[i].len \in Nat /\ bs[i].len > n
      BY <1>1, <1>2, <1>6
    <3>2. bs[i].start + n \in Nat /\ bs[i].len - n \in Nat \ {0}
      BY <3>1
    <3>3. rest \in Block
      BY <3>2 DEF Block
    <3>4. rest.start = bs[i].start + n /\ rest.len = bs[i].len - n
      OBVIOUS
    <3> HIDE DEF rest
    <3> QED BY <3>1, <3>2, <3>3, <3>4 DEF Finish
  <2> HIDE DEF c, rest
  <2>3. /\ LooseList(c, {})
        /\ \A x : x \in Space(c) <=>
             /\ x \in Space(bs)
             /\ ~ (bs[i].start <= x /\ x < rest.start)
             /\ ~ (rest.start + rest.len <= x /\ x < bs[i].start + bs[i].len)
    BY <1>2, <2>1, <2>2, ShrinkTakes
  <2>4. Space(c) = Space(bs) \ cut
    BY <1>1, <1>2, <1>4, <2>2, <2>3
  <2> QED BY <1>3, <2>3, <2>4 DEF c
<1> QED BY <1>5, <1>6

-----------------------------------------------------------------------------
(* Returning a range to a block list. *)

(* The two ends of each block of a loose list. *)
LEMMA LooseEnds ==
  ASSUME NEW bs, NEW seams, LooseList(bs, seams)
  PROVE  /\ bs \in Seq(Block) /\ Len(bs) \in Nat
         /\ \A j \in 1 .. Len(bs) :
              /\ bs[j] \in Block
              /\ bs[j].start \in Nat /\ Finish(bs[j]) \in Nat
              /\ PoolStart <= bs[j].start /\ bs[j].start < Finish(bs[j])
              /\ Finish(bs[j]) <= PoolEnd
         /\ \A j, k \in 1 .. Len(bs) : j < k =>
              \/ Finish(bs[j]) < bs[k].start
              \/ Finish(bs[j]) = bs[k].start /\ k = j + 1 /\ j \in seams
<1>1. /\ bs \in Seq(Block) /\ Len(bs) \in Nat
      /\ \A j \in 1 .. Len(bs) :
           /\ bs[j] \in Block
           /\ bs[j].start \in Nat /\ bs[j].len \in Nat \ {0}
           /\ bs[j].start >= PoolStart /\ bs[j].start + bs[j].len <= PoolEnd
  BY LooseFields
<1>2. \A j \in 1 .. Len(bs) :
        /\ Finish(bs[j]) \in Nat /\ bs[j].start < Finish(bs[j])
        /\ PoolStart <= bs[j].start /\ Finish(bs[j]) <= PoolEnd
  BY <1>1, PoolAssumption DEF Finish
<1>3. \A j, k \in 1 .. Len(bs) : j < k =>
        \/ Finish(bs[j]) < bs[k].start
        \/ Finish(bs[j]) = bs[k].start /\ k = j + 1 /\ j \in seams
  BY Zenon DEF LooseList
<1> QED BY <1>1, <1>2, <1>3

(* A list whose blocks have such ends is loose. *)
LEMMA LooseFromEnds ==
  ASSUME NEW bs \in Seq(Block), NEW seams,
         \A j \in 1 .. Len(bs) :
           /\ bs[j].start \in Nat /\ Finish(bs[j]) \in Nat
           /\ PoolStart <= bs[j].start /\ bs[j].start < Finish(bs[j])
           /\ Finish(bs[j]) <= PoolEnd,
         \A j, k \in 1 .. Len(bs) : j < k =>
           \/ Finish(bs[j]) < bs[k].start
           \/ Finish(bs[j]) = bs[k].start /\ k = j + 1 /\ j \in seams
  PROVE  LooseList(bs, seams)
<1>1. \A j \in 1 .. Len(bs) : bs[j] \in Block
  BY ElementOfSeq, LenProperties
<1>2. \A b \in Block : b.start \in Nat /\ b.len \in Nat
  BY DEF Block
<1>3. \A j \in 1 .. Len(bs) : bs[j].len > 0
  BY <1>1, <1>2 DEF Finish
<1>4. \A j \in 1 .. Len(bs) :
        bs[j].len > 0 /\ bs[j].start >= PoolStart /\ Finish(bs[j]) <= PoolEnd
  BY <1>3, PoolAssumption
<1> QED BY <1>4, Zenon DEF LooseList

(* What it is to be a byte of the list's space, by the ends of its blocks. *)
LEMMA SpaceEnds ==
  ASSUME NEW bs \in Seq(Block), NEW x
  PROVE  x \in Space(bs) <=>
           \E i \in 1 .. Len(bs) :
             x \in Int /\ bs[i].start <= x /\ x < Finish(bs[i])
BY SpaceMember, Zenon DEF Finish

(* Merging two blocks that touch keeps the bytes and takes one seam away. *)
LEMMA MergeKeeps ==
  ASSUME NEW bs, NEW i, NEW L \in SUBSET {i + 1},
         LooseList(bs, {i} \cup L), Touch(bs, i)
  PROVE  /\ LooseList(Coalesce(bs, i), IF L = {} THEN {} ELSE {i})
         /\ Space(Coalesce(bs, i)) = Space(bs)
<1> DEFINE b == [start |-> bs[i].start, len |-> bs[i].len + bs[i + 1].len]
           e == [bs EXCEPT ![i] = b]
           m == RemoveAt(e, i + 1)
           S(j) == IF j <= i THEN j ELSE j + 1
           E(j) == IF j < i THEN j ELSE j + 1
<1>1. /\ bs \in Seq(Block) /\ Len(bs) \in Nat
      /\ \A j \in 1 .. Len(bs) :
           /\ bs[j] \in Block
           /\ bs[j].start \in Nat /\ Finish(bs[j]) \in Nat
           /\ PoolStart <= bs[j].start /\ bs[j].start < Finish(bs[j])
           /\ Finish(bs[j]) <= PoolEnd
      /\ \A j, k \in 1 .. Len(bs) : j < k =>
           \/ Finish(bs[j]) < bs[k].start
           \/ Finish(bs[j]) = bs[k].start /\ k = j + 1 /\ j \in {i} \cup L
  BY LooseEnds, Zenon
<1>2. /\ i \in 1 .. Len(bs) - 1 /\ i \in 1 .. Len(bs) /\ i + 1 \in 1 .. Len(bs)
      /\ Finish(bs[i]) = bs[i + 1].start
  BY <1>1 DEF Touch
<1>3. Coalesce(bs, i) = m
  <2>1. DOMAIN bs = 1 .. Len(bs)
    BY <1>1, LenProperties
  <2>2. [bs EXCEPT ![i].len = @ + bs[i + 1].len] = e
    <3>1. bs[i] \in Block
      BY <1>1, <1>2
    <3>2. [bs[i] EXCEPT !.len = @ + bs[i + 1].len] = b
      BY <3>1 DEF Block
    <3> QED BY <3>2
  <2> QED BY <2>2 DEF Coalesce
<1>4. /\ b \in Block /\ b.start = bs[i].start /\ Finish(b) = Finish(bs[i + 1])
  <2>1. /\ bs[i].start \in Nat /\ bs[i].len \in Nat
        /\ bs[i + 1].start \in Nat /\ bs[i + 1].len \in Nat
    BY LooseFields, <1>2
  <2>2. bs[i].len + bs[i + 1].len \in Nat
    BY <2>1
  <2>3. b \in Block
    BY <2>1, <2>2 DEF Block
  <2>4. bs[i].start + bs[i].len = bs[i + 1].start
    BY <1>2 DEF Finish
  <2> QED BY <2>1, <2>3, <2>4 DEF Finish
<1> HIDE DEF b
<1>5. /\ e \in Seq(Block) /\ Len(e) = Len(bs) /\ e[i] = b
      /\ \A j \in 1 .. Len(bs) : j # i => e[j] = bs[j]
  BY <1>1, <1>2, <1>4, ExceptSeq
<1> HIDE DEF e
<1>6. /\ m \in Seq(Block) /\ Len(m) = Len(bs) - 1
      /\ \A j \in 1 .. Len(bs) - 1 : m[j] = IF j < i + 1 THEN e[j] ELSE e[j + 1]
  BY <1>2, <1>5, RemoveAtProperties
<1> HIDE DEF m
<1>7. \A j \in 1 .. Len(m) :
        /\ S(j) \in 1 .. Len(bs) /\ m[j].start = bs[S(j)].start
        /\ E(j) \in 1 .. Len(bs) /\ Finish(m[j]) = Finish(bs[E(j)])
        /\ S(j) <= E(j) /\ E(j) # i
  <2> SUFFICES ASSUME NEW j \in 1 .. Len(m)
               PROVE  /\ S(j) \in 1 .. Len(bs) /\ m[j].start = bs[S(j)].start
                      /\ E(j) \in 1 .. Len(bs) /\ Finish(m[j]) = Finish(bs[E(j)])
                      /\ S(j) <= E(j) /\ E(j) # i
    OBVIOUS
  <2>1. CASE j < i
    <3>1. j \in 1 .. Len(bs) /\ m[j] = bs[j] /\ S(j) = j /\ E(j) = j
      BY <1>1, <1>2, <1>5, <1>6, <2>1
    <3> QED BY <1>2, <2>1, <3>1
  <2>2. CASE j = i
    <3>1. m[j] = b /\ S(j) = i /\ E(j) = i + 1
      BY <1>1, <1>2, <1>5, <1>6, <2>2
    <3> QED BY <1>2, <1>4, <3>1
  <2>3. CASE j > i
    <3>1. j + 1 \in 1 .. Len(bs) /\ m[j] = bs[j + 1] /\ S(j) = j + 1 /\ E(j) = j + 1
      BY <1>1, <1>2, <1>5, <1>6, <2>3
    <3> QED BY <1>2, <2>3, <3>1
  <2>4. j < i \/ j = i \/ j > i
    BY <1>2
  <2> QED BY <2>1, <2>2, <2>3, <2>4, Zenon
<1>8. \A j, k \in 1 .. Len(m) : j < k => E(j) < S(k)
  BY <1>2, <1>6
<1>9. \A j, k \in 1 .. Len(m) :
        S(k) = E(j) + 1 /\ E(j) = i + 1 => j = i /\ k = j + 1
  BY <1>2, <1>6
<1>10. \A j \in 1 .. Len(bs) : \E k \in 1 .. Len(m) : S(k) <= j /\ j <= E(k)
  <2> SUFFICES ASSUME NEW j \in 1 .. Len(bs)
               PROVE  \E k \in 1 .. Len(m) : S(k) <= j /\ j <= E(k)
    OBVIOUS
  <2>1. j <= i => j \in 1 .. Len(m) /\ S(j) <= j /\ j <= E(j)
    BY <1>1, <1>2, <1>6
  <2>2. ~ (j <= i) => j - 1 \in 1 .. Len(m) /\ S(j - 1) <= j /\ j <= E(j - 1)
    BY <1>1, <1>2, <1>6
  <2> QED BY <2>1, <2>2, Zenon
<1>11. \A k \in 1 .. Len(m) : S(k) = E(k) \/ (S(k) = i /\ E(k) = i + 1)
  BY <1>2, <1>6
<1> HIDE DEF S, E
<1>12. LooseList(m, IF L = {} THEN {} ELSE {i})
  <2>1. \A j \in 1 .. Len(m) :
          /\ m[j].start \in Nat /\ Finish(m[j]) \in Nat
          /\ PoolStart <= m[j].start /\ m[j].start < Finish(m[j])
          /\ Finish(m[j]) <= PoolEnd
    <3> SUFFICES ASSUME NEW j \in 1 .. Len(m)
                 PROVE  /\ m[j].start \in Nat /\ Finish(m[j]) \in Nat
                        /\ PoolStart <= m[j].start /\ m[j].start < Finish(m[j])
                        /\ Finish(m[j]) <= PoolEnd
      OBVIOUS
    <3>1. /\ bs[S(j)].start \in Nat /\ PoolStart <= bs[S(j)].start
          /\ Finish(bs[E(j)]) \in Nat /\ Finish(bs[E(j)]) <= PoolEnd
          /\ bs[E(j)].start \in Nat /\ bs[E(j)].start < Finish(bs[E(j)])
          /\ Finish(bs[S(j)]) \in Nat /\ bs[S(j)].start < Finish(bs[S(j)])
      BY <1>1, <1>7
    <3>2. bs[S(j)].start < Finish(bs[E(j)])
      <4>1. CASE S(j) = E(j)  BY <3>1, <4>1
      <4>2. CASE S(j) = i /\ E(j) = i + 1
        <5>1. Finish(bs[S(j)]) = bs[E(j)].start
          BY <1>2, <4>2
        <5> QED BY <3>1, <5>1
      <4> QED BY <1>11, <4>1, <4>2, Zenon
    <3> QED BY <1>7, <3>1, <3>2, Zenon
  <2>2. \A j, k \in 1 .. Len(m) : j < k =>
          \/ Finish(m[j]) < m[k].start
          \/ /\ Finish(m[j]) = m[k].start /\ k = j + 1
             /\ j \in (IF L = {} THEN {} ELSE {i})
    <3> SUFFICES ASSUME NEW j \in 1 .. Len(m), NEW k \in 1 .. Len(m), j < k,
                        ~ (Finish(m[j]) < m[k].start)
                 PROVE  /\ Finish(m[j]) = m[k].start /\ k = j + 1
                        /\ j \in (IF L = {} THEN {} ELSE {i})
      OBVIOUS
    <3>1. E(j) < S(k) /\ Finish(m[j]) = Finish(bs[E(j)]) /\ m[k].start = bs[S(k)].start
          /\ E(j) \in 1 .. Len(bs) /\ S(k) \in 1 .. Len(bs) /\ E(j) # i
      BY <1>7, <1>8
    <3>2. Finish(bs[E(j)]) = bs[S(k)].start /\ S(k) = E(j) + 1 /\ E(j) \in {i} \cup L
      BY <1>1, <3>1, Zenon
    <3>3. E(j) = i + 1 /\ L # {}
      BY <3>1, <3>2
    <3>4. j = i /\ k = j + 1
      BY <1>9, <3>2, <3>3
    <3> QED BY <3>1, <3>2, <3>3, <3>4
  <2> QED BY <1>6, <2>1, <2>2, LooseFromEnds
<1>13. ASSUME NEW x, x \in Space(m) PROVE x \in Space(bs)
  <2>1. PICK j \in 1 .. Len(m) : x \in Int /\ m[j].start <= x /\ x < Finish(m[j])
    BY <1>6, <1>13, SpaceEnds
  <2>2. /\ S(j) \in 1 .. Len(bs) /\ E(j) \in 1 .. Len(bs)
        /\ bs[S(j)].start <= x /\ x < Finish(bs[E(j)])
    BY <1>7, <2>1
  <2>3. CASE S(j) = E(j)
    BY <1>1, <2>1, <2>2, <2>3, SpaceEnds
  <2>4. CASE S(j) = i /\ E(j) = i + 1
    <3>1. Finish(bs[i]) = bs[i + 1].start /\ bs[i + 1].start \in Nat
      BY <1>1, <1>2
    <3>2. x < Finish(bs[i]) \/ bs[i + 1].start <= x
      BY <2>1, <3>1
    <3>3. bs[i].start <= x /\ x < Finish(bs[i + 1])
      BY <2>2, <2>4
    <3> QED BY <1>1, <1>2, <2>1, <3>2, <3>3, SpaceEnds
  <2> QED BY <1>11, <2>3, <2>4, Zenon
<1>14. ASSUME NEW x, x \in Space(bs) PROVE x \in Space(m)
  <2>1. PICK j \in 1 .. Len(bs) : x \in Int /\ bs[j].start <= x /\ x < Finish(bs[j])
    BY <1>1, <1>14, SpaceEnds
  <2>2. PICK k \in 1 .. Len(m) : S(k) <= j /\ j <= E(k)
    BY <1>10
  <2>3. \/ S(k) = j /\ E(k) = j
        \/ S(k) = i /\ E(k) = i + 1 /\ (j = i \/ j = i + 1)
    BY <1>2, <1>7, <1>11, <2>2
  <2>4. bs[S(k)].start <= x /\ x < Finish(bs[E(k)])
    <3>1. /\ bs[i].start \in Nat /\ Finish(bs[i]) \in Nat
          /\ bs[i + 1].start \in Nat /\ Finish(bs[i + 1]) \in Nat
          /\ bs[i].start < Finish(bs[i]) /\ bs[i + 1].start < Finish(bs[i + 1])
          /\ Finish(bs[i]) = bs[i + 1].start
      BY <1>1, <1>2
    <3>2. CASE S(k) = j /\ E(k) = j
      BY <2>1, <3>2
    <3>3. CASE S(k) = i /\ E(k) = i + 1 /\ j = i
      BY <2>1, <3>1, <3>3
    <3>4. CASE S(k) = i /\ E(k) = i + 1 /\ j = i + 1
      BY <2>1, <3>1, <3>4
    <3> QED BY <2>3, <3>2, <3>3, <3>4, Zenon
  <2> QED BY <1>6, <1>7, <2>1, <2>4, SpaceEnds
<1> QED BY <1>3, <1>12, <1>13, <1>14

(* Min of a set of naturals is its least member. *)
LEMMA MinOfNats ==
  ASSUME NEW T \in SUBSET Nat, T # {}
  PROVE  Min(T) \in T /\ \A y \in T : Min(T) <= y
<1> DEFINE R == {ss \in Nat \X Nat : ss[1] < ss[2]}
<1>1. IsWellFoundedOn(R, Nat)
  <2>1. OpToRel(<, Nat) = R
    BY DEF OpToRel
  <2> QED BY <2>1, NatLessThanWellFounded, Zenon
<1>2. \A x, y \in Nat : ~ (<<y, x>> \in R) => x <= y
  OBVIOUS
<1> HIDE DEF R
<1>3. \E x \in T : \A y \in T : ~ (<<y, x>> \in R)
  BY <1>1, WFMin
<1>4. \E x \in T : \A y \in T : x <= y
  BY <1>2, <1>3
<1> QED BY <1>4 DEF Min

(* free_raw finds the place that keeps the list in address order. *)
LEMMA InsertionPointOrders ==
  ASSUME NEW bs, LooseList(bs, {}), NEW addr \in Nat
  PROVE  /\ InsertionPoint(bs, addr) \in 1 .. Len(bs) + 1
         /\ \A j \in 1 .. Len(bs) :
              /\ j < InsertionPoint(bs, addr) => bs[j].start <= addr
              /\ ~ (j < InsertionPoint(bs, addr)) => addr < bs[j].start
<1> DEFINE T == {i \in DOMAIN bs : bs[i].start > addr} \cup {Len(bs) + 1}
           at == InsertionPoint(bs, addr)
<1>1. /\ bs \in Seq(Block) /\ Len(bs) \in Nat /\ DOMAIN bs = 1 .. Len(bs)
      /\ \A j \in 1 .. Len(bs) :
           bs[j].start \in Nat /\ Finish(bs[j]) \in Nat /\ bs[j].start < Finish(bs[j])
      /\ \A j, k \in 1 .. Len(bs) : j < k => Finish(bs[j]) < bs[k].start
  <2>1. bs \in Seq(Block)
    BY LooseEnds
  <2>2. \A j, k \in 1 .. Len(bs) : j < k => Finish(bs[j]) < bs[k].start
    BY Zenon DEF LooseList
  <2> QED BY <2>1, <2>2, LooseEnds, LenProperties
<1>2. T \in SUBSET Nat /\ T # {} /\ T \subseteq 1 .. Len(bs) + 1
  BY <1>1
<1>3. at \in T /\ \A y \in T : at <= y
  BY <1>2, MinOfNats DEF InsertionPoint
<1> HIDE DEF at
<1>4. at \in 1 .. Len(bs) + 1
  BY <1>2, <1>3
<1>5. ASSUME NEW j \in 1 .. Len(bs), j < at PROVE bs[j].start <= addr
  <2>1. j \notin T
    BY <1>1, <1>3, <1>4, <1>5
  <2> QED BY <1>1, <2>1
<1>6. ASSUME NEW j \in 1 .. Len(bs), ~ (j < at) PROVE addr < bs[j].start
  <2>1. at \in 1 .. Len(bs) /\ bs[at].start > addr
    BY <1>1, <1>3, <1>4, <1>6
  <2>2. CASE j = at  BY <1>1, <2>1, <2>2
  <2>3. CASE at < j
    <3>1. Finish(bs[at]) < bs[j].start
      BY <1>1, <2>1, <2>3, Zenon
    <3>2. /\ bs[at].start \in Nat /\ Finish(bs[at]) \in Nat /\ bs[j].start \in Nat
          /\ bs[at].start < Finish(bs[at])
      BY <1>1, <2>1
    <3> QED BY <2>1, <3>1, <3>2
  <2>4. j = at \/ at < j
    BY <1>4, <1>6
  <2> QED BY <2>2, <2>3, <2>4, Zenon
<1> QED BY <1>4, <1>5, <1>6 DEF at

(* A block of bytes that are not in the list may be inserted; it touches   *)
(* its neighbours at most.                                                 *)
LEMMA InsertGives ==
  ASSUME NEW bs, LooseList(bs, {}), NEW b \in Block, b.len > 0,
         PoolStart <= b.start, Finish(b) <= PoolEnd,
         BlockBytes(b) \cap Space(bs) = {},
         NEW at, at = InsertionPoint(bs, b.start)
  PROVE  /\ LooseList(InsertAt(bs, at, b), {at - 1, at})
         /\ Space(InsertAt(bs, at, b)) = Space(bs) \cup BlockBytes(b)
         /\ at \in 1 .. Len(bs) + 1
<1> DEFINE c == InsertAt(bs, at, b)
           F(j) == IF j < at THEN j ELSE j - 1
<1>1. /\ bs \in Seq(Block) /\ Len(bs) \in Nat
      /\ \A j \in 1 .. Len(bs) :
           /\ bs[j].start \in Nat /\ Finish(bs[j]) \in Nat
           /\ PoolStart <= bs[j].start /\ bs[j].start < Finish(bs[j])
           /\ Finish(bs[j]) <= PoolEnd
      /\ \A j, k \in 1 .. Len(bs) : j < k => Finish(bs[j]) < bs[k].start
  <2>1. \A j, k \in 1 .. Len(bs) : j < k => Finish(bs[j]) < bs[k].start
    BY Zenon DEF LooseList
  <2> QED BY <2>1, LooseEnds
<1>2. b.start \in Nat /\ Finish(b) \in Nat /\ b.start < Finish(b)
  BY DEF Block, Finish
<1>3. /\ at \in 1 .. Len(bs) + 1
      /\ \A j \in 1 .. Len(bs) : /\ j < at => bs[j].start <= b.start
                                 /\ ~ (j < at) => b.start < bs[j].start
  BY <1>2, InsertionPointOrders
<1>4. \A x : x \in BlockBytes(b) <=> x \in Int /\ b.start <= x /\ x < Finish(b)
  BY <1>2 DEF BlockBytes
<1>5. ASSUME NEW j \in 1 .. Len(bs), j < at PROVE Finish(bs[j]) <= b.start
  <2>1. bs[j].start <= b.start
    BY <1>3, <1>5
  <2>2. SUFFICES ASSUME b.start < Finish(bs[j]) PROVE FALSE
    BY <1>1, <1>2
  <2>3. b.start \in Space(bs)
    BY <1>1, <1>2, <2>1, <2>2, SpaceEnds
  <2> QED BY <1>2, <1>4, <2>3
<1>6. ASSUME NEW j \in 1 .. Len(bs), ~ (j < at) PROVE Finish(b) <= bs[j].start
  <2>1. b.start < bs[j].start
    BY <1>3, <1>6
  <2>2. SUFFICES ASSUME bs[j].start < Finish(b) PROVE FALSE
    BY <1>1, <1>2
  <2>3. bs[j].start \in BlockBytes(b)
    BY <1>1, <1>2, <1>4, <2>1, <2>2
  <2>4. bs[j].start \in Space(bs)
    BY <1>1, SpaceEnds
  <2> QED BY <2>3, <2>4
<1>7. /\ c \in Seq(Block) /\ Len(c) = Len(bs) + 1
      /\ \A j \in 1 .. Len(bs) + 1 :
           c[j] = IF j < at THEN bs[j] ELSE IF j = at THEN b ELSE bs[j - 1]
  <2>1. bs \in Seq(Block) /\ at \in 1 .. Len(bs) + 1
    BY <1>1, <1>3
  <2>2. b \in Block
    OBVIOUS
  <2> QED BY ONLY <2>1, <2>2, InsertAtProperties
<1> HIDE DEF c
<1>8. /\ at \in 1 .. Len(c) /\ c[at] = b
      /\ \A j \in 1 .. Len(c) : j # at =>
           F(j) \in 1 .. Len(bs) /\ c[j] = bs[F(j)] /\ (F(j) < at <=> j < at)
  BY <1>1, <1>3, <1>7
<1>9. \A k \in 1 .. Len(bs) : \E j \in 1 .. Len(c) : j # at /\ F(j) = k
  <2> SUFFICES ASSUME NEW k \in 1 .. Len(bs)
               PROVE  \E j \in 1 .. Len(c) : j # at /\ F(j) = k
    OBVIOUS
  <2>1. k < at => k \in 1 .. Len(c) /\ k # at /\ F(k) = k
    BY <1>1, <1>3, <1>7
  <2>2. ~ (k < at) => k + 1 \in 1 .. Len(c) /\ k + 1 # at /\ F(k + 1) = k
    BY <1>1, <1>3, <1>7
  <2> QED BY <2>1, <2>2, Zenon
<1>10. \A j, k \in 1 .. Len(c) : j < k /\ j # at /\ k # at => F(j) < F(k)
  BY <1>3, <1>7
<1>11. /\ \A j \in 1 .. Len(c) : j < at => F(j) = at - 1 \/ F(j) < at - 1
       /\ \A j \in 1 .. Len(c) : j < at /\ F(j) = at - 1 => j = at - 1
       /\ \A k \in 1 .. Len(c) : at < k => F(k) = at \/ at < F(k)
       /\ \A k \in 1 .. Len(c) : at < k /\ F(k) = at => k = at + 1
  BY <1>3, <1>7
<1> HIDE DEF F
<1>12. LooseList(c, {at - 1, at})
  <2>1. \A j \in 1 .. Len(c) :
          /\ c[j].start \in Nat /\ Finish(c[j]) \in Nat
          /\ PoolStart <= c[j].start /\ c[j].start < Finish(c[j])
          /\ Finish(c[j]) <= PoolEnd
    <3> SUFFICES ASSUME NEW j \in 1 .. Len(c)
                 PROVE  /\ c[j].start \in Nat /\ Finish(c[j]) \in Nat
                        /\ PoolStart <= c[j].start /\ c[j].start < Finish(c[j])
                        /\ Finish(c[j]) <= PoolEnd
      OBVIOUS
    <3>1. CASE j = at  BY <1>2, <1>8, <3>1
    <3>2. CASE j # at
      <4>1. F(j) \in 1 .. Len(bs) /\ c[j] = bs[F(j)]
        BY <1>8, <3>2
      <4> QED BY <1>1, <4>1
    <3> QED BY <3>1, <3>2
  <2>2. \A j, k \in 1 .. Len(c) : j < k =>
          \/ Finish(c[j]) < c[k].start
          \/ Finish(c[j]) = c[k].start /\ k = j + 1 /\ j \in {at - 1, at}
    <3> SUFFICES ASSUME NEW j \in 1 .. Len(c), NEW k \in 1 .. Len(c), j < k
                 PROVE  \/ Finish(c[j]) < c[k].start
                        \/ Finish(c[j]) = c[k].start /\ k = j + 1 /\ j \in {at - 1, at}
      OBVIOUS
    <3>0. Finish(c[j]) \in Nat /\ c[k].start \in Nat
      BY <2>1
    <3>1. CASE j # at /\ k # at
      <4>1. /\ F(j) \in 1 .. Len(bs) /\ c[j] = bs[F(j)]
            /\ F(k) \in 1 .. Len(bs) /\ c[k] = bs[F(k)] /\ F(j) < F(k)
        BY <1>8, <1>10, <3>1
      <4>2. Finish(bs[F(j)]) < bs[F(k)].start
        BY <1>1, <4>1, Zenon
      <4> QED BY <4>1, <4>2, Zenon
    <3>2. CASE k = at
      <4>1. j < at /\ j # at /\ c[k] = b
        BY <1>3, <1>8, <3>2
      <4>2. F(j) \in 1 .. Len(bs) /\ c[j] = bs[F(j)] /\ F(j) < at
        BY <1>8, <4>1
      <4>3. Finish(c[j]) <= c[k].start
        BY <1>5, <4>1, <4>2
      <4>4. CASE F(j) = at - 1
        <5>1. j = at - 1 /\ k = j + 1
          BY <1>3, <1>11, <3>2, <4>1, <4>4
        <5> QED BY <3>0, <4>3, <5>1
      <4>5. CASE F(j) < at - 1
        <5>1. at - 1 \in 1 .. Len(bs) /\ at - 1 < at
          BY <1>1, <1>3, <4>2, <4>5
        <5>2. Finish(bs[F(j)]) < bs[at - 1].start /\ Finish(bs[at - 1]) <= b.start
          BY <1>1, <1>5, <4>2, <4>5, <5>1, Zenon
        <5>3. /\ bs[at - 1].start \in Nat /\ Finish(bs[at - 1]) \in Nat
              /\ bs[at - 1].start < Finish(bs[at - 1]) /\ Finish(bs[F(j)]) \in Nat
          BY <1>1, <4>2, <5>1
        <5>4. Finish(bs[F(j)]) < b.start
          BY <1>2, <5>2, <5>3
        <5> QED BY <4>1, <4>2, <5>4
      <4> QED BY <1>11, <4>1, <4>4, <4>5, Zenon
    <3>3. CASE j = at
      <4>1. at < k /\ k # at /\ c[j] = b
        BY <1>3, <1>8, <3>3
      <4>2. F(k) \in 1 .. Len(bs) /\ c[k] = bs[F(k)] /\ ~ (F(k) < at)
        BY <1>3, <1>8, <4>1
      <4>3. Finish(c[j]) <= c[k].start
        BY <1>6, <4>1, <4>2
      <4>4. CASE F(k) = at
        <5>1. k = j + 1
          BY <1>11, <3>3, <4>1, <4>4
        <5> QED BY <3>0, <3>3, <4>3, <5>1
      <4>5. CASE at < F(k)
        <5>1. at \in 1 .. Len(bs) /\ ~ (at < at)
          BY <1>1, <1>3, <4>2, <4>5
        <5>2. Finish(bs[at]) < bs[F(k)].start /\ Finish(b) <= bs[at].start
          BY <1>1, <1>6, <4>2, <4>5, <5>1, Zenon
        <5>3. /\ bs[at].start \in Nat /\ Finish(bs[at]) \in Nat
              /\ bs[at].start < Finish(bs[at]) /\ bs[F(k)].start \in Nat
          BY <1>1, <4>2, <5>1
        <5>4. Finish(b) < bs[F(k)].start
          BY <1>2, <5>2, <5>3
        <5> QED BY <4>1, <4>2, <5>4
      <4> QED BY <1>11, <4>1, <4>4, <4>5, Zenon
    <3> QED BY <3>1, <3>2, <3>3
  <2> QED BY <1>7, <2>1, <2>2, LooseFromEnds
<1>13. ASSUME NEW x, x \in Space(c) PROVE x \in Space(bs) \cup BlockBytes(b)
  <2>1. PICK j \in 1 .. Len(c) : x \in Int /\ c[j].start <= x /\ x < Finish(c[j])
    BY <1>7, <1>13, SpaceEnds
  <2>2. CASE j = at  BY <1>4, <1>8, <2>1, <2>2
  <2>3. CASE j # at
    <3>1. F(j) \in 1 .. Len(bs) /\ c[j] = bs[F(j)]
      BY <1>8, <2>3
    <3>2. x \in Space(bs)
      BY <1>1, <2>1, <3>1, SpaceEnds
    <3> QED BY <3>2
  <2> QED BY <2>2, <2>3
<1>14. ASSUME NEW x, x \in BlockBytes(b) PROVE x \in Space(c)
  BY <1>4, <1>7, <1>8, <1>14, SpaceEnds
<1>15. ASSUME NEW x, x \in Space(bs) PROVE x \in Space(c)
  <2>1. PICK k \in 1 .. Len(bs) : x \in Int /\ bs[k].start <= x /\ x < Finish(bs[k])
    BY <1>1, <1>15, SpaceEnds
  <2>2. PICK j \in 1 .. Len(c) : j # at /\ F(j) = k
    BY <1>9
  <2>3. c[j] = bs[k]
    BY <1>8, <2>2
  <2> QED BY <1>7, <2>1, <2>3, SpaceEnds
<1>16. Space(c) = Space(bs) \cup BlockBytes(b)
  BY <1>13, <1>14, <1>15
<1> QED BY <1>3, <1>12, <1>16 DEF c

(* Where two blocks do not touch there is no seam. *)
LEMMA NoSeam ==
  ASSUME NEW bs, NEW i, NEW L, LooseList(bs, {i} \cup L), ~ Touch(bs, i)
  PROVE  LooseList(bs, L)
<1>1. /\ bs \in Seq(Block) /\ Len(bs) \in Nat
      /\ \A j \in 1 .. Len(bs) :
           /\ bs[j].start \in Nat /\ Finish(bs[j]) \in Nat
           /\ PoolStart <= bs[j].start /\ bs[j].start < Finish(bs[j])
           /\ Finish(bs[j]) <= PoolEnd
      /\ \A j, k \in 1 .. Len(bs) : j < k =>
           \/ Finish(bs[j]) < bs[k].start
           \/ Finish(bs[j]) = bs[k].start /\ k = j + 1 /\ j \in {i} \cup L
  BY LooseEnds, Zenon
<1>2. \A j, k \in 1 .. Len(bs) : j < k =>
        \/ Finish(bs[j]) < bs[k].start
        \/ Finish(bs[j]) = bs[k].start /\ k = j + 1 /\ j \in L
  <2> SUFFICES ASSUME NEW j \in 1 .. Len(bs), NEW k \in 1 .. Len(bs), j < k,
                      ~ (Finish(bs[j]) < bs[k].start)
               PROVE  Finish(bs[j]) = bs[k].start /\ k = j + 1 /\ j \in L
    OBVIOUS
  <2>1. Finish(bs[j]) = bs[k].start /\ k = j + 1 /\ j \in {i} \cup L
    BY <1>1, Zenon
  <2>2. j # i
    <3> SUFFICES ASSUME j = i PROVE FALSE
      OBVIOUS
    <3>1. i \in 1 .. Len(bs) - 1
      BY <1>1, <2>1
    <3> QED BY <2>1, <3>1 DEF Touch
  <2> QED BY <2>1, <2>2
<1> QED BY <1>1, <1>2, LooseFromEnds

(* Merging at the only seam leaves none. *)
LEMMA CoalesceKeeps ==
  ASSUME NEW bs, NEW i, LooseList(bs, {i})
  PROVE  /\ LooseList(Coalesce(bs, i), {})
         /\ Space(Coalesce(bs, i)) = Space(bs)
<1>1. LooseList(bs, {i} \cup {})
  <2>1. {i} \cup {} = {i}
    OBVIOUS
  <2> QED BY <2>1
<1>2. CASE Touch(bs, i)
  <2>1. {} \in SUBSET {i + 1}
    OBVIOUS
  <2>2. /\ LooseList(Coalesce(bs, i), IF {} = {} THEN {} ELSE {i})
        /\ Space(Coalesce(bs, i)) = Space(bs)
    BY ONLY <1>1, <1>2, <2>1, MergeKeeps
  <2> QED BY <2>2
<1>3. CASE ~ Touch(bs, i)
  <2>1. LooseList(bs, {})
    BY <1>1, <1>3, NoSeam
  <2>2. Coalesce(bs, i) = bs
    BY <1>3 DEF Coalesce
  <2> QED BY <2>1, <2>2
<1> QED BY <1>2, <1>3

(* The two merges of free_raw leave a list without seams. *)
LEMMA MergedAroundKeeps ==
  ASSUME NEW bs, NEW at \in Int, LooseList(bs, {at - 1, at})
  PROVE  /\ LooseList(MergedAround(bs, at), {})
         /\ Space(MergedAround(bs, at)) = Space(bs)
<1>1. LooseList(bs, {at - 1} \cup {at})
  <2>1. {at - 1} \cup {at} = {at - 1, at}
    OBVIOUS
  <2> QED BY <2>1
<1>2. CASE Touch(bs, at - 1)
  <2>1. {at} \in SUBSET {(at - 1) + 1} /\ {at} # {}
    OBVIOUS
  <2>2. /\ LooseList(Coalesce(bs, at - 1), IF {at} = {} THEN {} ELSE {at - 1})
        /\ Space(Coalesce(bs, at - 1)) = Space(bs)
    BY ONLY <1>1, <1>2, <2>1, MergeKeeps
  <2>3. LooseList(Coalesce(bs, at - 1), {at - 1})
    BY <2>1, <2>2, Zenon
  <2>4. MergedAround(bs, at) = Coalesce(Coalesce(bs, at - 1), at - 1)
    BY <1>2, Zenon DEF MergedAround
  <2> QED BY <2>2, <2>3, <2>4, CoalesceKeeps
<1>3. CASE ~ Touch(bs, at - 1)
  <2>1. LooseList(bs, {at})
    BY <1>1, <1>3, NoSeam
  <2>2. MergedAround(bs, at) = Coalesce(bs, at)
    BY <1>3, Zenon DEF MergedAround, Coalesce
  <2> QED BY <2>1, <2>2, CoalesceKeeps
<1> QED BY <1>2, <1>3

(* Returning a range that is not free adds exactly its bytes, and leaves   *)
(* no two blocks unmerged.                                                 *)
LEMMA FreeRawGives ==
  ASSUME NEW bs, LooseList(bs, {}), NEW addr \in Nat, NEW size,
         Aligned(size) \in Nat \ {0},
         RawBytes(addr, size) \subseteq Pool \ Space(bs)
  PROVE  /\ LooseList(FreeRaw(bs, addr, size), {})
         /\ Space(FreeRaw(bs, addr, size)) =
              Space(bs) \cup RawBytes(addr, size)
<1> DEFINE n == Aligned(size)
           b == [start |-> addr, len |-> n]
           at == InsertionPoint(bs, addr)
<1>1. n \in Nat \ {0} /\ addr .. addr + n - 1 \subseteq Pool \ Space(bs)
  BY DEF RawBytes
<1> HIDE DEF n
<1>2. PoolStart \in Nat /\ PoolLen \in Nat /\ PoolEnd \in Nat
  BY PoolAssumption DEF PoolEnd
<1>3. addr \in Pool /\ addr + n - 1 \in Pool
  <2>1. addr \in addr .. addr + n - 1 /\ addr + n - 1 \in addr .. addr + n - 1
    BY <1>1
  <2> QED BY <1>1, <2>1
<1>4. addr >= PoolStart /\ addr + n <= PoolEnd
  BY <1>1, <1>2, <1>3 DEF Pool
<1>5. /\ b \in Block /\ b.start = addr /\ b.len = n
  BY <1>1 DEF Block
<1>6. FreeRaw(bs, addr, size) = MergedAround(InsertAt(bs, at, b), at)
  BY <1>3, <1>4 DEF FreeRaw, Inserted, n
<1> HIDE DEF b
<1>7. BlockBytes(b) = addr .. addr + n - 1 /\ Finish(b) <= PoolEnd
  <2>1. Finish(b) = addr + n
    BY <1>5 DEF Finish
  <2>2. b.start = addr /\ Finish(b) - 1 = addr + n - 1
    BY <1>1, <1>5, <2>1
  <2>3. BlockBytes(b) = addr .. addr + n - 1
    BY <2>2, Zenon DEF BlockBytes
  <2> QED BY <1>4, <2>1, <2>3, Zenon
<1>8. BlockBytes(b) \cap Space(bs) = {}
  BY <1>1, <1>7
<1>9. /\ b.len > 0 /\ PoolStart <= b.start /\ at = InsertionPoint(bs, b.start)
  BY <1>1, <1>2, <1>4, <1>5
<1> HIDE DEF at
<1>10. /\ LooseList(InsertAt(bs, at, b), {at - 1, at})
       /\ Space(InsertAt(bs, at, b)) = Space(bs) \cup BlockBytes(b)
       /\ at \in 1 .. Len(bs) + 1
  BY <1>5, <1>7, <1>8, <1>9, InsertGives
<1>11. at \in Int
  BY <1>10, LooseEnds
<1>12. /\ LooseList(MergedAround(InsertAt(bs, at, b), at), {})
       /\ Space(MergedAround(InsertAt(bs, at, b), at)) = Space(InsertAt(bs, at, b))
  BY <1>10, <1>11, MergedAroundKeeps
<1> QED BY <1>6, <1>7, <1>10, <1>12 DEF n, RawBytes

-----------------------------------------------------------------------------
(* Sizes. *)

(* Rounding up does not round down, short of the end of the word. *)
LEMMA AlignedGrows ==
  ASSUME NEW n \in Nat \ {0}, n + Align <= Word
  PROVE  Aligned(n) \in Nat \ {0} /\ Aligned(n) >= n
<1>1. Max({n, 1}) = n
  <2>1. n \in {n, 1} /\ \A y \in {n, 1} : n >= y
    OBVIOUS
  <2>2. \A x \in {n, 1} : (\A y \in {n, 1} : x >= y) => x = n
    OBVIOUS
  <2> QED BY <2>1, <2>2 DEF Max
<1>2. Align \in Nat \ {0} /\ Word \in Nat
  BY PoolAssumption
<1> DEFINE sum == n + Align - 1
<1>3. sum \in Nat /\ sum % Word = sum
  BY <1>2
<1>4. Aligned(n) = sum - (sum % Align)
  BY <1>1, <1>3 DEF Aligned, AlignUp
<1>5. sum % Align \in 0 .. Align - 1
  BY <1>2, <1>3
<1> HIDE DEF sum
<1>6. sum = n + Align - 1
  BY DEF sum
<1> QED BY <1>2, <1>3, <1>4, <1>5, <1>6

(* The lengths whose block, with its length word, does not wrap. *)
Lengths == 1 .. Word - Header - Align

LEMMA TotalGrows ==
  ASSUME NEW n \in Lengths
  PROVE  /\ Total(n) = n + Header /\ Total(n) \in Nat \ {0} /\ Total(n) + Align <= Word
         /\ Aligned(Total(n)) \in Nat \ {0} /\ Aligned(Total(n)) >= n + Header
<1>1. /\ Word \in Nat /\ Align \in Nat \ {0} /\ Header \in Nat \ {0}
      /\ n \in Nat \ {0} /\ n + Header + Align <= Word
  BY PoolAssumption DEF Lengths
<1>2. Total(n) = n + Header
  <2>1. \A x \in {n + Header, Word - 1} :
          (\A y \in {n + Header, Word - 1} : x <= y) => x = n + Header
    BY <1>1
  <2>2. \A y \in {n + Header, Word - 1} : n + Header <= y
    BY <1>1
  <2> QED BY <2>1, <2>2 DEF Total, Min
<1> QED BY <1>1, <1>2, AlignedGrows

-----------------------------------------------------------------------------
(* The heap as a whole. *)

(* Every byte of the pool has exactly one owner, and the records agree. *)
Parted(h, pins) ==
  /\ \A p, q \in DOMAIN h.ext : p # q => ExtBytes(h, p) \cap ExtBytes(h, q) = {}
  /\ \A a, b \in pins : a # b => ScratchBytes(a) \cap ScratchBytes(b) = {}
  /\ \A p \in DOMAIN h.ext : \A a \in pins :
       ExtBytes(h, p) \cap ScratchBytes(a) = {}
  /\ \A p \in DOMAIN h.ext : ExtBytes(h, p) \cap FreeSpace(h) = {}
  /\ \A a \in pins : ScratchBytes(a) \cap FreeSpace(h) = {}

Covered(h, pins) ==
  Pool = FreeSpace(h) \cup (UNION {ExtBytes(h, p) : p \in DOMAIN h.ext})
                     \cup (UNION {ScratchBytes(a) : a \in pins})

Recorded(h) ==
  \A p \in DOMAIN h.ext : h.ext[p].len \in Lengths /\ p = h.ext[p].raw + Header

HeapOK(h, pins) ==
  /\ IsHeap(h)
  /\ LooseList(h.blocks, {})
  /\ Recorded(h)
  /\ pins \subseteq Nat
  /\ Parted(h, pins)
  /\ Covered(h, pins)

(* Taking a raw range takes it from the free space, whole. *)
LEMMA AllocRawTakes ==
  ASSUME NEW h, IsHeap(h), LooseList(h.blocks, {}),
         NEW n \in Nat \ {0}, n + Align <= Word, CanAllocRaw(h, n)
  PROVE  /\ IsHeap(AllocRaw(h, n))
         /\ AllocRaw(h, n).ext = h.ext
         /\ LooseList(AllocRaw(h, n).blocks, {})
         /\ FreeSpace(AllocRaw(h, n)) = FreeSpace(h) \ RawBytes(RawPtr(h, n), n)
         /\ RawBytes(RawPtr(h, n), n) \subseteq FreeSpace(h)
         /\ RawPtr(h, n) \in Nat /\ RawPtr(h, n) \in RawBytes(RawPtr(h, n), n)
<1> DEFINE len == Aligned(n)
           i == FirstFit(h.blocks, len)
           c == Carve(h.blocks, i, len)
<1>1. len \in Nat \ {0}
  BY AlignedGrows
<1>2. i \in Fits(h.blocks, len)
  <2>1. Fits(h.blocks, len) # {}
    BY DEF CanAllocRaw
  <2>2. h.blocks \in Seq(Block)
    BY DEF IsHeap
  <2>3. Fits(h.blocks, len) \in SUBSET Nat
    BY <2>2, LenProperties DEF Fits
  <2> QED BY <2>1, <2>3, MinOfNats DEF FirstFit
<1>3. RawPtr(h, n) = h.blocks[i].start
  BY DEF RawPtr
<1>4. /\ AllocRaw(h, n).blocks = c /\ AllocRaw(h, n).ext = h.ext
      /\ AllocRaw(h, n) = [blocks |-> c, ext |-> h.ext,
                           minFree |-> AllocRaw(h, n).minFree,
                           peakUsed |-> AllocRaw(h, n).peakUsed]
  <2> DEFINE m == Min({h.minFree, FreeBytes(c)})
             k == Max({h.peakUsed, PoolLen - FreeBytes(c)})
  <2>1. AllocRaw(h, n) = [h EXCEPT !.blocks = c, !.minFree = m, !.peakUsed = k]
    BY DEF AllocRaw
  <2> HIDE DEF c, m, k
  <2>2. AllocRaw(h, n) = [blocks |-> c, ext |-> h.ext, minFree |-> m, peakUsed |-> k]
    BY <2>1 DEF IsHeap
  <2> QED BY <2>2
<1> HIDE DEF len, i, c
<1>5. /\ LooseList(c, {})
      /\ h.blocks[i].start .. h.blocks[i].start + len - 1 \subseteq Space(h.blocks)
      /\ Space(c) = Space(h.blocks) \ (h.blocks[i].start .. h.blocks[i].start + len - 1)
  BY <1>1, <1>2, CarveTakes DEF c
<1>6. RawBytes(RawPtr(h, n), n) = h.blocks[i].start .. h.blocks[i].start + len - 1
  BY <1>3 DEF len, RawBytes
<1>7. h.blocks[i].start \in Nat
  <2>1. i \in 1 .. Len(h.blocks)
    BY <1>2, LooseFields, LenProperties DEF Fits
  <2> QED BY <2>1, LooseFields
<1>8. RawPtr(h, n) \in Nat /\ RawPtr(h, n) \in RawBytes(RawPtr(h, n), n)
  <2>1. h.blocks[i].start \in h.blocks[i].start .. h.blocks[i].start + len - 1
    BY <1>1, <1>7
  <2> QED BY <1>3, <1>6, <1>7, <2>1
<1>9. IsHeap(AllocRaw(h, n))
  <2>1. c \in Seq(Block)
    BY <1>5 DEF LooseList
  <2> QED BY <1>4, <2>1 DEF IsHeap
<1> QED BY <1>4, <1>5, <1>6, <1>8, <1>9 DEF FreeSpace

(* A directory's scratch buffer keeps the heap in order. *)
LEMMA ScratchOK ==
  ASSUME NEW h, NEW pins, HeapOK(h, pins), CanAllocRaw(h, ScratchLen)
  PROVE  HeapOK(AllocRaw(h, ScratchLen), pins \cup {RawPtr(h, ScratchLen)})
<1> DEFINE a == RawPtr(h, ScratchLen)
           g == AllocRaw(h, ScratchLen)
<1>1. ScratchLen \in Nat \ {0} /\ ScratchLen + Align <= Word
  BY PoolAssumption, RequestAssumption
<1>2. /\ IsHeap(g) /\ g.ext = h.ext /\ LooseList(g.blocks, {})
      /\ FreeSpace(g) = FreeSpace(h) \ ScratchBytes(a)
      /\ ScratchBytes(a) \subseteq FreeSpace(h)
      /\ a \in Nat /\ a \in ScratchBytes(a)
  BY <1>1, AllocRawTakes DEF HeapOK, ScratchBytes
<1> HIDE DEF a, g
<1>3. \A p : ExtBytes(g, p) = ExtBytes(h, p)
  BY <1>2 DEF ExtBytes
<1>4. Parted(g, pins \cup {a})
  BY <1>2, <1>3 DEF HeapOK, Parted
<1>5. Covered(g, pins \cup {a})
  BY <1>2, <1>3 DEF HeapOK, Covered
<1>6. Recorded(g) /\ pins \cup {a} \subseteq Nat
  BY <1>2 DEF HeapOK, Recorded
<1> QED BY <1>2, <1>4, <1>5, <1>6 DEF HeapOK, a, g

(* alloc_ext keeps the heap in order; the new pointer is new, and no other *)
(* block changes hands.                                                    *)
LEMMA AllocExtOK ==
  ASSUME NEW h, NEW pins, HeapOK(h, pins), NEW n \in Lengths \cup {0}
  PROVE  /\ HeapOK(AllocExt(h, n), pins)
         /\ DOMAIN AllocExt(h, n).ext = DOMAIN h.ext \cup ({AllocPtr(h, n)} \ {0})
         /\ AllocPtr(h, n) \in Nat /\ AllocPtr(h, n) \notin DOMAIN h.ext
         /\ CanAlloc(h, n) => AllocPtr(h, n) # 0
         /\ FreeSpace(AllocExt(h, n)) \subseteq FreeSpace(h)
         /\ \A p \in DOMAIN h.ext : AllocExt(h, n).ext[p] = h.ext[p]
         /\ AllocPtr(h, n) # 0 =>
              ExtBytes(AllocExt(h, n), AllocPtr(h, n)) \subseteq FreeSpace(h)
<1> DEFINE t == Total(n)
           a == RawPtr(h, t)
           ptr == AllocPtr(h, n)
           r == AllocRaw(h, t)
           g == AllocExt(h, n)
           R == RawBytes(a, t)
<1>1. CASE ~ CanAlloc(h, n)
  <2>1. ptr = 0 /\ g = h
    BY <1>1 DEF AllocPtr, AllocExt
  <2>2. 0 \notin DOMAIN h.ext
    BY DEF HeapOK, IsHeap
  <2> QED BY <1>1, <2>1, <2>2
<1>2. CASE CanAlloc(h, n)
  <2>1. n \in Lengths /\ CanAllocRaw(h, t)
    BY <1>2 DEF CanAlloc
  <2>2. t \in Nat \ {0} /\ t + Align <= Word
    BY <2>1, TotalGrows
  <2>3. /\ IsHeap(r) /\ r.ext = h.ext /\ LooseList(r.blocks, {})
        /\ FreeSpace(r) = FreeSpace(h) \ R
        /\ R \subseteq FreeSpace(h)
        /\ a \in Nat /\ a \in R
    BY <2>1, <2>2, AllocRawTakes DEF HeapOK
  <2>4. /\ ptr = a + Header /\ ptr \in Nat \ {0}
    BY <1>2, <2>3, PoolAssumption DEF AllocPtr
  <2>5. g = [r EXCEPT !.ext = Entered(@, ptr, [raw |-> a, len |-> n])]
    BY <1>2 DEF AllocExt
  <2> HIDE DEF a, r, g, ptr, R
  <2>6. /\ g = [blocks |-> r.blocks, ext |-> Entered(h.ext, ptr, [raw |-> a, len |-> n]),
                minFree |-> r.minFree, peakUsed |-> r.peakUsed]
    BY <2>3, <2>5 DEF IsHeap
  <2>7. /\ g.blocks = r.blocks
        /\ g.ext = Entered(h.ext, ptr, [raw |-> a, len |-> n])
        /\ g = [blocks |-> g.blocks, ext |-> g.ext,
                minFree |-> g.minFree, peakUsed |-> g.peakUsed]
    BY <2>6
  <2> HIDE DEF t
  <2>8. \A p \in DOMAIN h.ext :
          /\ p = h.ext[p].raw + Header /\ h.ext[p].raw \in Nat
          /\ h.ext[p].len \in Lengths /\ h.ext[p].raw \in ExtBytes(h, p)
          /\ ExtBytes(h, p) \cap FreeSpace(h) = {}
    <3> SUFFICES ASSUME NEW p \in DOMAIN h.ext
                 PROVE  /\ p = h.ext[p].raw + Header /\ h.ext[p].raw \in Nat
                        /\ h.ext[p].len \in Lengths /\ h.ext[p].raw \in ExtBytes(h, p)
                        /\ ExtBytes(h, p) \cap FreeSpace(h) = {}
      OBVIOUS
    <3>1. h.ext[p].raw \in Nat
      BY DEF HeapOK, IsHeap
    <3>2. p = h.ext[p].raw + Header /\ h.ext[p].len \in Lengths
      BY DEF HeapOK, Recorded
    <3>3. Aligned(Total(h.ext[p].len)) \in Nat \ {0}
      BY <3>2, TotalGrows
    <3>4. h.ext[p].raw \in ExtBytes(h, p)
      BY <3>1, <3>3 DEF ExtBytes, RawBytes
    <3> QED BY <3>1, <3>2, <3>4 DEF HeapOK, Parted
  <2>9. ptr \notin DOMAIN h.ext
    <3> SUFFICES ASSUME ptr \in DOMAIN h.ext PROVE FALSE
      OBVIOUS
    <3>1. a = h.ext[ptr].raw
      BY <2>3, <2>4, <2>8, PoolAssumption
    <3> QED BY <2>3, <2>8, <3>1
  <2>10. /\ DOMAIN g.ext = DOMAIN h.ext \cup {ptr}
         /\ g.ext[ptr] = [raw |-> a, len |-> n]
         /\ \A p \in DOMAIN h.ext : g.ext[p] = h.ext[p]
         /\ g.ext = [p \in DOMAIN g.ext |-> g.ext[p]]
    <3>1. g.ext = Entered(h.ext, ptr, [raw |-> a, len |-> n])
      BY <2>7
    <3> DEFINE x == Entered(h.ext, ptr, [raw |-> a, len |-> n])
    <3>2. /\ DOMAIN x = DOMAIN h.ext \cup {ptr}
          /\ x = [q \in DOMAIN x |-> x[q]]
          /\ x[ptr] = [raw |-> a, len |-> n]
          /\ \A q \in DOMAIN h.ext : x[q] = h.ext[q]
      BY <2>9 DEF Entered
    <3> HIDE DEF x
    <3>3. g.ext = x
      BY <3>1 DEF x
    <3> QED BY <3>2, <3>3
  <2>11. /\ ExtBytes(g, ptr) = R
         /\ \A p \in DOMAIN h.ext : ExtBytes(g, p) = ExtBytes(h, p)
    BY <2>10 DEF ExtBytes, R, t
  <2>12. FreeSpace(g) = FreeSpace(h) \ R
    BY <2>3, <2>7 DEF FreeSpace
  <2>13. IsHeap(g)
    <3>1. n \in Nat
      BY <2>1, PoolAssumption DEF Lengths
    <3>2. g.ext \in [DOMAIN g.ext -> [raw : Nat, len : Nat]]
      <4>1. \A p \in DOMAIN g.ext : g.ext[p] \in [raw : Nat, len : Nat]
        BY <2>3, <2>10, <3>1 DEF IsHeap
      <4> QED BY <2>10, <4>1
    <3>3. DOMAIN g.ext \subseteq Nat \ {0}
      BY <2>3, <2>4, <2>10 DEF IsHeap
    <3>4. g.blocks \in Seq(Block)
      BY <2>3, <2>7 DEF IsHeap
    <3> QED BY <2>7, <3>2, <3>3, <3>4 DEF IsHeap
  <2>14. Recorded(g)
    BY <2>1, <2>4, <2>10 DEF HeapOK, Recorded
  <2>15. Parted(g, pins)
    BY <2>3, <2>9, <2>10, <2>11, <2>12 DEF HeapOK, Parted
  <2>16. Covered(g, pins)
    <3>1. UNION {ExtBytes(g, p) : p \in DOMAIN g.ext} =
            R \cup (UNION {ExtBytes(h, p) : p \in DOMAIN h.ext})
      BY <2>10, <2>11
    <3>2. Pool = FreeSpace(h) \cup (UNION {ExtBytes(h, p) : p \in DOMAIN h.ext})
                             \cup (UNION {ScratchBytes(b) : b \in pins})
      BY DEF HeapOK, Covered
    <3> QED BY <2>3, <2>12, <3>1, <3>2 DEF Covered
  <2>17. HeapOK(g, pins)
    BY <2>3, <2>7, <2>13, <2>14, <2>15, <2>16 DEF HeapOK
  <2>18. FreeSpace(g) \subseteq FreeSpace(h) /\ ExtBytes(g, ptr) \subseteq FreeSpace(h)
    BY <2>3, <2>11, <2>12
  <2> QED BY <2>4, <2>9, <2>10, <2>17, <2>18 DEF g, ptr
<1> QED BY <1>1, <1>2

(* free_ext keeps the heap in order and gives back the block's bytes, and  *)
(* no others.                                                              *)
LEMMA FreeExtOK ==
  ASSUME NEW h, NEW pins, HeapOK(h, pins), NEW ptr
  PROVE  /\ HeapOK(FreeExt(h, ptr), pins)
         /\ DOMAIN FreeExt(h, ptr).ext = DOMAIN h.ext \ {ptr}
         /\ FreeSpace(FreeExt(h, ptr)) = FreeSpace(h) \cup BlockAt(h, ptr)
         /\ \A p \in DOMAIN FreeExt(h, ptr).ext : FreeExt(h, ptr).ext[p] = h.ext[p]
<1> DEFINE g == FreeExt(h, ptr)
           e == h.ext[ptr]
           fr == FreeRaw(h.blocks, e.raw, Total(e.len))
<1>1. CASE ptr \notin DOMAIN h.ext
  <2>1. g = h
    BY <1>1 DEF FreeExt
  <2> QED BY <1>1, <2>1 DEF BlockAt
<1>2. CASE ptr \in DOMAIN h.ext
  <2>1. /\ e.raw \in Nat /\ e.len \in Lengths
    BY <1>2 DEF HeapOK, IsHeap, Recorded
  <2>2. Aligned(Total(e.len)) \in Nat \ {0}
    BY <2>1, TotalGrows
  <2>3. ExtBytes(h, ptr) = RawBytes(e.raw, Total(e.len))
    BY DEF ExtBytes
  <2>4. ExtBytes(h, ptr) \subseteq Pool \ Space(h.blocks)
    <3>1. ExtBytes(h, ptr) \subseteq Pool
      BY <1>2 DEF HeapOK, Covered
    <3>2. ExtBytes(h, ptr) \cap FreeSpace(h) = {}
      BY <1>2 DEF HeapOK, Parted
    <3> QED BY <3>1, <3>2 DEF FreeSpace
  <2>5. /\ LooseList(fr, {}) /\ Space(fr) = Space(h.blocks) \cup ExtBytes(h, ptr)
    BY <2>1, <2>2, <2>3, <2>4, FreeRawGives DEF HeapOK
  <2>6. g = [h EXCEPT !.blocks = fr, !.ext = Restrict(@, DOMAIN @ \ {ptr})]
    BY <1>2 DEF FreeExt
  <2> HIDE DEF g, fr
  <2>7. g = [blocks |-> fr, ext |-> Restrict(h.ext, DOMAIN h.ext \ {ptr}),
             minFree |-> h.minFree, peakUsed |-> h.peakUsed]
    BY <2>6 DEF HeapOK, IsHeap
  <2>8. /\ g.blocks = fr /\ g.ext = Restrict(h.ext, DOMAIN h.ext \ {ptr})
        /\ g = [blocks |-> g.blocks, ext |-> g.ext,
                minFree |-> g.minFree, peakUsed |-> g.peakUsed]
    BY <2>7
  <2>9. /\ g.ext = [p \in DOMAIN g.ext |-> g.ext[p]]
        /\ DOMAIN g.ext = DOMAIN h.ext \ {ptr}
        /\ \A p \in DOMAIN g.ext : g.ext[p] = h.ext[p]
    BY <2>8 DEF Restrict
  <2>10. \A p \in DOMAIN g.ext : ExtBytes(g, p) = ExtBytes(h, p)
    BY <2>9 DEF ExtBytes
  <2>11. FreeSpace(g) = FreeSpace(h) \cup ExtBytes(h, ptr)
    BY <2>5, <2>8 DEF FreeSpace
  <2>12. IsHeap(g)
    <3>1. \A p \in DOMAIN g.ext : g.ext[p] \in [raw : Nat, len : Nat]
      BY <2>9 DEF HeapOK, IsHeap
    <3>2. g.ext \in [DOMAIN g.ext -> [raw : Nat, len : Nat]]
      BY <2>9, <3>1
    <3>3. DOMAIN g.ext \subseteq Nat \ {0}
      BY <2>9 DEF HeapOK, IsHeap
    <3>4. g.blocks \in Seq(Block)
      BY <2>5, <2>8 DEF LooseList
    <3> QED BY <2>8, <3>2, <3>3, <3>4 DEF IsHeap
  <2>13. Recorded(g)
    BY <2>9 DEF HeapOK, Recorded
  <2>14. Parted(g, pins)
    BY <1>2, <2>9, <2>10, <2>11 DEF HeapOK, Parted
  <2>15. Covered(g, pins)
    BY <1>2, <2>9, <2>10, <2>11 DEF HeapOK, Covered
  <2>16. HeapOK(g, pins)
    BY <2>5, <2>8, <2>12, <2>13, <2>14, <2>15 DEF HeapOK
  <2>17. FreeSpace(g) = FreeSpace(h) \cup BlockAt(h, ptr)
    BY <1>2, <2>11 DEF BlockAt
  <2> QED BY <2>9, <2>16, <2>17 DEF g
<1> QED BY <1>1, <1>2

(* A block pointer is an address of the pool, and so is a scratch buffer's. *)
LEMMA InPool ==
  ASSUME NEW h, NEW pins, HeapOK(h, pins)
  PROVE  DOMAIN h.ext \subseteq Pool /\ pins \subseteq Pool
<1>1. ASSUME NEW p \in DOMAIN h.ext PROVE p \in Pool
  <2>1. /\ h.ext[p].raw \in Nat /\ h.ext[p].len \in Lengths
        /\ p = h.ext[p].raw + Header
    BY <1>1 DEF HeapOK, IsHeap, Recorded
  <2>2. /\ Aligned(Total(h.ext[p].len)) \in Nat
        /\ Aligned(Total(h.ext[p].len)) >= h.ext[p].len + Header
        /\ h.ext[p].len \in Nat \ {0} /\ Header \in Nat
    BY <2>1, TotalGrows, PoolAssumption DEF Lengths
  <2>3. p \in ExtBytes(h, p)
    BY <2>1, <2>2 DEF ExtBytes, RawBytes
  <2> QED BY <1>1, <2>3 DEF HeapOK, Covered
<1>2. ASSUME NEW a \in pins PROVE a \in Pool
  <2>1. ScratchLen \in Nat \ {0} /\ ScratchLen + Align <= Word
    BY PoolAssumption, RequestAssumption
  <2>2. a \in Nat /\ Aligned(ScratchLen) \in Nat \ {0}
    BY <1>2, <2>1, AlignedGrows DEF HeapOK
  <2>3. a \in ScratchBytes(a)
    BY <2>2 DEF ScratchBytes, RawBytes
  <2> QED BY <1>2, <2>3 DEF HeapOK, Covered
<1> QED BY <1>1, <1>2

-----------------------------------------------------------------------------
(* The inductive invariant.  The heap's order needs all of HeapOK: that a  *)
(* free leaves the list canonical follows from the freed block's bytes     *)
(* being nobody else's.                                                    *)

(* What the theorems ask of the guest: no length that wraps. *)
Fitting == Sizes \subseteq Lengths \cup {0}

HeapInv ==
  /\ HeapOK(heap, pinned)
  /\ TypeOK
  /\ HeldBlocksLive
  /\ HostBlocksLive

(* The lengths that reach alloc_ext do not wrap. *)
LEMMA SizesFit ==
  ASSUME Fitting
  PROVE  /\ MemGetLen \in Lengths \cup {0}
         /\ \A n \in Sizes :
              /\ n \in Lengths \cup {0} /\ Max({n, 1}) \in Lengths \cup {0}
              /\ ~ ZerosRunOff(Max({n, 1}))
         /\ \A n \in DataSizes :
              /\ n \in Lengths \cup {0} /\ Max({n, 1}) \in Lengths \cup {0}
              /\ Max({n, 1}) + 1 \in Lengths \cup {0}
<1>1. /\ Word \in Nat /\ Align \in Nat \ {0} /\ Header \in Nat \ {0}
      /\ MemGetLen \in 1 .. Word - Header - Align
      /\ DataSizes \subseteq 0 .. Word - Header - Align - 2
      /\ Sizes \subseteq Lengths \cup {0}
  BY PoolAssumption, RequestAssumption DEF Fitting
<1>2. \A n \in Nat : Max({n, 1}) = IF n = 0 THEN 1 ELSE n
  <2> SUFFICES ASSUME NEW n \in Nat PROVE Max({n, 1}) = IF n = 0 THEN 1 ELSE n
    OBVIOUS
  <2> DEFINE m == IF n = 0 THEN 1 ELSE n
  <2>1. m \in {n, 1} /\ \A y \in {n, 1} : m >= y
    OBVIOUS
  <2>2. \A x \in {n, 1} : (\A y \in {n, 1} : x >= y) => x = m
    OBVIOUS
  <2> HIDE DEF m
  <2>3. Max({n, 1}) = m
    BY <2>1, <2>2 DEF Max
  <2> QED BY <2>3 DEF m
<1>3. \A n \in Sizes : n \in Lengths \cup {0} /\ Max({n, 1}) \in Lengths
  BY <1>1, <1>2 DEF Lengths
<1>5. \A n \in Sizes : ~ ZerosRunOff(Max({n, 1}))
  <2> SUFFICES ASSUME NEW n \in Lengths PROVE ~ ZerosRunOff(n)
    BY <1>3
  <2>1. /\ Aligned(Total(n)) \in Nat /\ Aligned(Total(n)) >= n + Header
        /\ n \in Nat
    BY <1>1, TotalGrows DEF Lengths
  <2> QED BY <1>1, <2>1 DEF ZerosRunOff
<1>4. \A n \in DataSizes :
        /\ n \in Lengths \cup {0} /\ Max({n, 1}) \in Lengths \cup {0}
        /\ Max({n, 1}) + 1 \in Lengths \cup {0}
  BY <1>1, <1>2 DEF Lengths
<1> QED BY <1>1, <1>3, <1>4, <1>5 DEF Lengths

LEMMA InitInv == Init => HeapInv
<1> SUFFICES ASSUME Init PROVE HeapInv
  OBVIOUS
<1> DEFINE b == [start |-> PoolStart, len |-> PoolLen]
<1>1. /\ heap.blocks = <<b>> /\ heap.ext = << >> /\ pinned = {} /\ held = {}
      /\ heap = [blocks |-> heap.blocks, ext |-> heap.ext,
                 minFree |-> heap.minFree, peakUsed |-> heap.peakUsed]
  BY DEF Init
<1>2. /\ PoolStart \in Nat /\ PoolLen \in Nat \ {0} /\ b \in Block
      /\ b.start = PoolStart /\ b.len = PoolLen /\ Finish(b) = PoolEnd
  BY PoolAssumption DEF Block, Finish, PoolEnd
<1>3. DOMAIN heap.ext = {}
  BY <1>1
<1> HIDE DEF b
<1>4. heap.blocks \in Seq(Block) /\ Len(heap.blocks) = 1 /\ heap.blocks[1] = b
  BY <1>1, <1>2
<1>5. LooseList(heap.blocks, {})
  <2>1. \A i \in 1 .. Len(heap.blocks) : i = 1
    BY <1>4
  <2>2. PoolEnd \in Nat
    BY <1>2 DEF PoolEnd
  <2>3. \A i \in 1 .. Len(heap.blocks) :
          /\ heap.blocks[i].len > 0 /\ heap.blocks[i].start >= PoolStart
          /\ Finish(heap.blocks[i]) <= PoolEnd
    BY <1>2, <1>4, <2>1, <2>2
  <2>4. \A i, j \in 1 .. Len(heap.blocks) : ~ (i < j)
    BY <2>1
  <2> QED BY <1>4, <2>3, <2>4, Zenon DEF LooseList
<1>6. IsHeap(heap)
  BY <1>1, <1>3, <1>4 DEF IsHeap
<1>7. FreeSpace(heap) = Pool
  <2>1. ASSUME NEW x PROVE x \in Space(heap.blocks) <=> x \in Int /\ PoolStart <= x /\ x < PoolEnd
    BY <1>2, <1>4, SpaceEnds
  <2>2. ASSUME NEW x PROVE x \in Pool <=> x \in Int /\ PoolStart <= x /\ x < PoolEnd
    BY <1>2 DEF Pool, PoolEnd
  <2> QED BY <2>1, <2>2 DEF FreeSpace
<1>8. HeapOK(heap, pinned)
  BY <1>1, <1>3, <1>5, <1>6, <1>7 DEF HeapOK, Recorded, Parted, Covered
<1>9. TypeOK
  BY <1>6, NameAssumption DEF Init, TypeOK
<1>10. HeldBlocksLive /\ HostBlocksLive
  BY DEF Init, HeldBlocksLive, HostBlocksLive
<1> QED BY <1>8, <1>9, <1>10 DEF HeapInv

(* A block granted to the guest. *)
LEMMA GrantInv ==
  ASSUME HeapInv, NEW n \in Lengths \cup {0}, Grant(n) \/ GrantThenFault(n)
  PROVE  HeapInv'
<1> DEFINE g == AllocExt(heap, n)
           ptr == AllocPtr(heap, n)
<1>1. /\ HeapOK(g, pinned) /\ DOMAIN g.ext = DOMAIN heap.ext \cup ({ptr} \ {0})
      /\ ptr \in Nat /\ ptr \notin DOMAIN heap.ext
  BY AllocExtOK DEF HeapInv
<1>2. /\ heap' = g /\ held \subseteq held' /\ held' \subseteq held \cup ({ptr} \ {0})
      /\ UNCHANGED HostOnly
  BY DEF Grant, GrantThenFault
<1> HIDE DEF g, ptr
<1>3. HeapOK(heap', pinned')
  BY <1>1, <1>2 DEF HostOnly
<1>4. TypeOK'
  BY <1>1, <1>2, <1>3 DEF HeapInv, TypeOK, HostOnly, HeapOK
<1>5. HeldBlocksLive' /\ HostBlocksLive'
  BY <1>1, <1>2 DEF HeapInv, HeldBlocksLive, HostBlocksLive, HostOnly
<1> QED BY <1>3, <1>4, <1>5 DEF HeapInv

(* A block the guest gives back. *)
LEMMA FreeInv ==
  ASSUME HeapInv, NEW p \in GuestPtrs \cup {0}, Free(p)
  PROVE  HeapInv'
<1> DEFINE g == FreeExt(heap, p)
<1>1. HeapOK(g, pinned) /\ DOMAIN g.ext = DOMAIN heap.ext \ {p}
  BY FreeExtOK DEF HeapInv
<1>2. heap' = g /\ held' = held \ {p} /\ UNCHANGED HostOnly
  BY DEF Free
<1> HIDE DEF g
<1>3. HeapOK(heap', pinned')
  BY <1>1, <1>2 DEF HostOnly
<1>4. TypeOK'
  BY <1>1, <1>2, <1>3 DEF HeapInv, TypeOK, HostOnly, HeapOK
<1>5. 0 \notin DOMAIN heap.ext
  BY DEF HeapInv, HeapOK, IsHeap
<1>6. HeldBlocksLive' /\ HostBlocksLive'
  BY <1>1, <1>2, <1>5 DEF HeapInv, HeldBlocksLive, HostBlocksLive, HostOnly, GuestPtrs
<1> QED BY <1>3, <1>4, <1>6 DEF HeapInv

(* mr_realloc takes before it gives back. *)
LEMMA ReallocMoveInv ==
  ASSUME HeapInv, NEW p \in GuestPtrs, NEW n \in Lengths \cup {0}, ReallocMove(p, n)
  PROVE  HeapInv'
<1> DEFINE h == AllocExt(heap, n)
           g == FreeExt(h, p)
           ptr == AllocPtr(heap, n)
<1>1. /\ HeapOK(h, pinned) /\ DOMAIN h.ext = DOMAIN heap.ext \cup ({ptr} \ {0})
      /\ ptr \in Nat /\ ptr \notin DOMAIN heap.ext /\ ptr # 0
  BY AllocExtOK DEF HeapInv, ReallocMove
<1>2. HeapOK(g, pinned) /\ DOMAIN g.ext = DOMAIN h.ext \ {p}
  BY <1>1, FreeExtOK
<1>3. heap' = g /\ held' = (held \ {p}) \cup {ptr} /\ UNCHANGED HostOnly
  BY DEF ReallocMove
<1> HIDE DEF g, h, ptr
<1>4. HeapOK(heap', pinned')
  BY <1>2, <1>3 DEF HostOnly
<1>5. TypeOK'
  BY <1>1, <1>2, <1>3, <1>4 DEF HeapInv, TypeOK, HostOnly, HeapOK
<1>6. HeldBlocksLive' /\ HostBlocksLive'
  BY <1>1, <1>2, <1>3 DEF HeapInv, HeldBlocksLive, HostBlocksLive, HostOnly, GuestPtrs
<1> QED BY <1>4, <1>5, <1>6 DEF HeapInv

(* A context block replaces the one before. *)
LEMMA FunctionNewInv ==
  ASSUME HeapInv, NEW n, Max({n, 1}) \in Lengths \cup {0},
         ~ ZerosRunOff(Max({n, 1})), FunctionNew(n)
  PROVE  HeapInv'
<1> DEFINE h == FreeExt(heap, ctx)
           size == Max({n, 1})
           g == AllocExt(h, size)
           ptr == AllocPtr(h, size)
<1>1. HeapOK(h, pinned) /\ DOMAIN h.ext = DOMAIN heap.ext \ {ctx}
  BY FreeExtOK DEF HeapInv
<1>2. /\ size \in Lengths \cup {0} /\ CanAlloc(h, size)
      /\ heap' = g /\ ctx' = ptr /\ UNCHANGED <<editText, loading, dirs, pinned, held, ctxFailed>>
  BY DEF FunctionNew, ContextFreed
<1> HIDE DEF h, size
<1>3. /\ HeapOK(g, pinned) /\ DOMAIN g.ext = DOMAIN h.ext \cup ({ptr} \ {0})
      /\ ptr \in Nat /\ ptr \notin DOMAIN h.ext /\ ptr # 0
  BY <1>1, <1>2, AllocExtOK
<1> HIDE DEF g, ptr
<1>4. HeapOK(heap', pinned')
  BY <1>2, <1>3
<1>5. TypeOK'
  BY <1>2, <1>3, <1>4 DEF HeapInv, TypeOK, HeapOK
<1>6. HeldBlocksLive' /\ HostBlocksLive'
  <2>1. CtxInit \notin DOMAIN heap.ext
    BY InPool, NameAssumption DEF HeapInv
  <2> QED BY <1>1, <1>2, <1>3, <2>1 DEF HeapInv, HeldBlocksLive, HostBlocksLive
<1> QED BY <1>4, <1>5, <1>6 DEF HeapInv

(* Without room for the new context, only the order of the heap survives. *)
LEMMA FunctionNewFailsInv ==
  ASSUME HeapInv, NEW n, FunctionNewFails(n)
  PROVE  HeapInv'
<1> DEFINE h == FreeExt(heap, ctx)
<1>1. HeapOK(h, pinned) /\ DOMAIN h.ext = DOMAIN heap.ext \ {ctx}
  BY FreeExtOK DEF HeapInv
<1>2. /\ heap' = h /\ ctxFailed' = TRUE
      /\ UNCHANGED <<cells, told, ctx, editText, loading, dirs, pinned, held>>
  BY DEF FunctionNewFails, ContextFreed
<1> HIDE DEF h
<1>3. HeapOK(heap', pinned')
  BY <1>1, <1>2
<1>4. TypeOK'
  BY <1>2, <1>3 DEF HeapInv, TypeOK, HeapOK
<1>5. HeldBlocksLive' /\ HostBlocksLive'
  BY <1>2 DEF HeldBlocksLive, HostBlocksLive
<1> QED BY <1>3, <1>4, <1>5 DEF HeapInv

(* A plugin's context is one more block in use. *)
LEMMA PluginFunctionNewInv ==
  ASSUME HeapInv, NEW n, Max({n, 1}) \in Lengths \cup {0},
         ~ ZerosRunOff(Max({n, 1})), PluginFunctionNew(n)
  PROVE  HeapInv'
<1> DEFINE size == Max({n, 1})
           g == AllocExt(heap, size)
           ptr == AllocPtr(heap, size)
<1>1. /\ size \in Lengths \cup {0} /\ CanAlloc(heap, size)
      /\ heap' = g /\ ctx' = ptr /\ UNCHANGED <<editText, loading, dirs, pinned, held, ctxFailed>>
  BY DEF PluginFunctionNew
<1> HIDE DEF size
<1>2. /\ HeapOK(g, pinned) /\ DOMAIN g.ext = DOMAIN heap.ext \cup ({ptr} \ {0})
      /\ ptr \in Nat /\ ptr \notin DOMAIN heap.ext /\ ptr # 0
  BY <1>1, AllocExtOK DEF HeapInv
<1> HIDE DEF g, ptr
<1>3. HeapOK(heap', pinned')
  BY <1>1, <1>2
<1>4. TypeOK'
  BY <1>1, <1>2, <1>3 DEF HeapInv, TypeOK, HeapOK
<1>5. HeldBlocksLive' /\ HostBlocksLive'
  BY <1>1, <1>2 DEF HeapInv, HeldBlocksLive, HostBlocksLive
<1> QED BY <1>3, <1>4, <1>5 DEF HeapInv

(* The host replaces its text, or is left with none. *)
LEMMA EditGetTextInv ==
  ASSUME HeapInv, NEW n, Max({n, 1}) + 1 \in Lengths \cup {0}, EditGetText(n)
  PROVE  HeapInv'
<1> DEFINE h == FreeExt(heap, editText)
           size == Max({n, 1}) + 1
           g == AllocExt(h, size)
           ptr == AllocPtr(h, size)
<1>1. HeapOK(h, pinned) /\ DOMAIN h.ext = DOMAIN heap.ext \ {editText}
  BY FreeExtOK DEF HeapInv
<1>2. /\ size \in Lengths \cup {0}
      /\ heap' = g /\ editText' = ptr /\ UNCHANGED <<ctx, loading, dirs, pinned, held, ctxFailed>>
  BY DEF EditGetText
<1> HIDE DEF h, size
<1>3. /\ HeapOK(g, pinned) /\ DOMAIN g.ext = DOMAIN h.ext \cup ({ptr} \ {0})
      /\ ptr \in Nat /\ ptr \notin DOMAIN h.ext
  BY <1>1, <1>2, AllocExtOK
<1> HIDE DEF g, ptr
<1>4. HeapOK(heap', pinned')
  BY <1>2, <1>3
<1>5. TypeOK'
  BY <1>2, <1>3, <1>4 DEF HeapInv, TypeOK, HeapOK
<1>6. HeldBlocksLive' /\ HostBlocksLive'
  <2> SUFFICES ASSUME Stray' = {} /\ ~ ctxFailed'
               PROVE  HeldBlocksLive' /\ HostBlocksLive'
    BY DEF HeldBlocksLive, HostBlocksLive
  <2>1. /\ held \subseteq DOMAIN heap.ext
        /\ editText = 0 \/ editText \in DOMAIN heap.ext \ (held \cup {ctx})
        /\ ctx = CtxInit \/ ctx \in DOMAIN heap.ext \ held
    BY <1>2 DEF HeapInv, HeldBlocksLive, HostBlocksLive
  <2>2. 0 \notin DOMAIN heap.ext
    BY DEF HeapInv, HeapOK, IsHeap
  <2>3. held \subseteq DOMAIN h.ext /\ (ctx = CtxInit \/ ctx \in DOMAIN h.ext \ held)
    BY <1>1, <2>1, <2>2
  <2>4. ptr = 0 \/ ptr # ctx
    <3>1. CASE ctx = CtxInit
      <4>1. CtxInit \notin DOMAIN g.ext
        BY <1>3, InPool, NameAssumption
      <4> QED BY <1>3, <3>1, <4>1
    <3>2. CASE ctx \in DOMAIN h.ext
      BY <1>3, <3>2
    <3> QED BY <2>3, <3>1, <3>2
  <2> QED BY <1>2, <1>3, <2>3, <2>4 DEF HeldBlocksLive, HostBlocksLive
<1> QED BY <1>4, <1>5, <1>6 DEF HeapInv

(* A directory's scratch buffer is never anyone's block. *)
LEMMA ReadDirInv ==
  ASSUME HeapInv, NEW d \in Dirs, ReadDir(d)
  PROVE  HeapInv'
<1> DEFINE g == AllocRaw(heap, ScratchLen)
           a == RawPtr(heap, ScratchLen)
<1>1. CanAllocRaw(heap, ScratchLen)
  BY DEF ReadDir
<1>2. HeapOK(g, pinned \cup {a}) /\ g.ext = heap.ext
  <2>1. HeapOK(g, pinned \cup {a})
    BY <1>1, ScratchOK DEF HeapInv
  <2>2. ScratchLen \in Nat \ {0} /\ ScratchLen + Align <= Word
    BY PoolAssumption, RequestAssumption
  <2>3. g.ext = heap.ext
    BY <1>1, <2>2, AllocRawTakes DEF HeapInv, HeapOK
  <2> QED BY <2>1, <2>3
<1>3. /\ heap' = g /\ dirs' = [dirs EXCEPT ![d] = a] /\ pinned' = pinned \cup {a}
      /\ UNCHANGED <<cells, ctx, editText, loading, held, ctxFailed>>
  BY DEF ReadDir
<1> HIDE DEF g, a
<1>4. HeapOK(heap', pinned')
  BY <1>2, <1>3
<1>5. TypeOK'
  <2>1. pinned' \subseteq Pool /\ a \in Nat
    BY <1>2, <1>3, InPool DEF HeapOK
  <2>2. dirs' \in [Dirs -> {NoDir} \cup Nat]
    BY <1>3, <2>1 DEF HeapInv, TypeOK
  <2> QED BY <1>3, <1>4, <2>1, <2>2 DEF HeapInv, TypeOK, HeapOK
<1>6. HeldBlocksLive' /\ HostBlocksLive'
  BY <1>2, <1>3 DEF HeapInv, HeldBlocksLive, HostBlocksLive
<1> QED BY <1>4, <1>5, <1>6 DEF HeapInv

(* Calls that leave the heap alone. *)
LEMMA QuietInv ==
  ASSUME HeapInv, UNCHANGED <<heap, ctx, editText, pinned, held, ctxFailed>>,
         loading' \in BOOLEAN, dirs' \in [Dirs -> {NoDir} \cup Nat]
  PROVE  HeapInv'
BY DEF HeapInv, TypeOK, HeldBlocksLive, HostBlocksLive

LEMMA NextInv == Fitting /\ HeapInv /\ [Next]_vars => HeapInv'
<1> SUFFICES ASSUME Fitting, HeapInv, [Next]_vars PROVE HeapInv'
  OBVIOUS
<1>1. /\ MemGetLen \in Lengths \cup {0}
      /\ \A n \in Sizes :
           /\ n \in Lengths \cup {0} /\ Max({n, 1}) \in Lengths \cup {0}
           /\ ~ ZerosRunOff(Max({n, 1}))
      /\ \A n \in DataSizes :
           /\ n \in Lengths \cup {0} /\ Max({n, 1}) \in Lengths \cup {0}
           /\ Max({n, 1}) + 1 \in Lengths \cup {0}
  BY SizesFit
<1>2. loading \in BOOLEAN /\ dirs \in [Dirs -> {NoDir} \cup Nat]
  BY DEF HeapInv, TypeOK
<1>3. ASSUME NEW n \in Sizes, Malloc(n) \/ AllocGuestBlock(n) PROVE HeapInv'
  BY <1>1, <1>3, GrantInv DEF Malloc, AllocGuestBlock
<1>4. ASSUME NEW n \in Sizes, NEW p \in GuestPtrs \cup {0}, Realloc(p, n) PROVE HeapInv'
  <2>1. CASE p = 0 /\ Grant(n)
    BY <1>1, <2>1, GrantInv
  <2>2. CASE p # 0 /\ n = 0 /\ Free(p)
    BY <2>2, FreeInv
  <2>3. CASE ReallocMove(p, n)
    <3>1. p \in GuestPtrs
      BY <2>3 DEF ReallocMove
    <3> QED BY <1>1, <2>3, <3>1, ReallocMoveInv
  <2>4. CASE ReallocKeep(p, n)
    BY <1>2, <2>4, QuietInv DEF ReallocKeep, HostOnly
  <2>5. CASE ReallocFault(p, n)
    BY <1>1, <2>5, GrantInv DEF ReallocFault
  <2> QED BY <1>4, <2>1, <2>2, <2>3, <2>4, <2>5 DEF Realloc
<1>5. ASSUME NEW n \in DataSizes, ReadFile(n) PROVE HeapInv'
  BY <1>1, <1>5, GrantInv DEF ReadFile
<1>6. ASSUME NEW n \in Sizes, FunctionNew(n) PROVE HeapInv'
  BY <1>1, <1>6, FunctionNewInv
<1>7. ASSUME NEW n \in Sizes, FunctionNewFails(n) PROVE HeapInv'
  BY <1>7, FunctionNewFailsInv
<1>8. ASSUME NEW n \in Sizes, PluginFunctionNew(n) PROVE HeapInv'
  BY <1>1, <1>8, PluginFunctionNewInv
<1>9. ASSUME NEW n \in DataSizes, EditGetText(n) PROVE HeapInv'
  BY <1>1, <1>9, EditGetTextInv
<1>10. CASE MemGet
  BY <1>1, <1>10, GrantInv DEF MemGet
<1>11. ASSUME NEW p \in GuestPtrs \cup {0}, Free(p) PROVE HeapInv'
  BY <1>11, FreeInv
<1>12. CASE PluginLoad
  BY <1>2, <1>12, QuietInv DEF PluginLoad
<1>13. ASSUME NEW d \in Dirs, OpenDir(d) \/ CloseDir(d) PROVE HeapInv'
  <2>1. dirs' \in [Dirs -> {NoDir} \cup Nat]
    BY <1>2, <1>13 DEF OpenDir, CloseDir
  <2> QED BY <1>2, <1>13, <2>1, QuietInv DEF OpenDir, CloseDir
<1>14. ASSUME NEW d \in Dirs, ReadDir(d) PROVE HeapInv'
  BY <1>14, ReadDirInv
<1>15. CASE UNCHANGED vars
  BY <1>2, <1>15, QuietInv DEF vars
<1> QED
  BY <1>3, <1>4, <1>5, <1>6, <1>7, <1>8, <1>9, <1>10, <1>11, <1>12, <1>13, <1>14, <1>15
     DEF Next

-----------------------------------------------------------------------------
(* What follows for every reachable state. *)

LEMMA Invariance == Fitting => (Spec => []HeapInv)
<1> SUFFICES ASSUME Fitting PROVE Spec => []HeapInv
  OBVIOUS
<1>1. Init => HeapInv
  BY InitInv
<1>2. HeapInv /\ [Next]_vars => HeapInv'
  BY NextInv
<1> QED BY <1>1, <1>2, PTL DEF Spec

(* The host's fields keep their types (ExtHost, lib.rs:778-826). *)
THEOREM TypesKept == Fitting => (Spec => []TypeOK)
<1>1. HeapInv => TypeOK
  BY DEF HeapInv
<1> QED BY <1>1, Invariance, PTL

(* free_raw and alloc_raw keep the free list sorted, merged and inside the *)
(* pool, whatever the guest frees (lib.rs:3906-3973).                      *)
THEOREM FreeListStaysCanonical == Fitting => (Spec => []FreeListCanonical)
<1>1. HeapInv => FreeListCanonical
  <2> SUFFICES ASSUME HeapInv PROVE FreeListCanonical
    OBVIOUS
  <2>1. LooseList(heap.blocks, {}) /\ DOMAIN heap.blocks = 1 .. Len(heap.blocks)
    BY LenProperties DEF HeapInv, HeapOK, LooseList
  <2> QED BY <2>1, Zenon DEF LooseList, FreeListCanonical
<1> QED BY <1>1, Invariance, PTL

(* No byte of the pool ever has two owners. *)
THEOREM BlocksNeverOverlap == Fitting => (Spec => []NoOverlap)
<1>1. HeapInv => NoOverlap
  BY DEF HeapInv, HeapOK, Parted, NoOverlap
<1> QED BY <1>1, Invariance, PTL

(* No byte of the pool is ever lost. *)
THEOREM BytesNeverLost == Fitting => (Spec => []NoLostByte)
<1>1. HeapInv => NoLostByte
  BY DEF HeapInv, HeapOK, Covered, NoLostByte
<1> QED BY <1>1, Invariance, PTL

(* A pointer's promised bytes are its block's. *)
THEOREM PromisesCovered == Fitting => (Spec => []PromisedBytesOwned)
<1>1. HeapInv => PromisedBytesOwned
  <2> SUFFICES ASSUME HeapInv, NEW p \in DOMAIN heap.ext
               PROVE  /\ p = heap.ext[p].raw + Header
                      /\ p .. p + heap.ext[p].len - 1 \subseteq ExtBytes(heap, p)
    BY DEF PromisedBytesOwned
  <2>1. /\ heap.ext[p].raw \in Nat /\ heap.ext[p].len \in Lengths
        /\ p = heap.ext[p].raw + Header
    BY DEF HeapInv, HeapOK, IsHeap, Recorded
  <2>2. /\ Aligned(Total(heap.ext[p].len)) \in Nat
        /\ Aligned(Total(heap.ext[p].len)) >= heap.ext[p].len + Header
        /\ heap.ext[p].len \in Nat \ {0} /\ Header \in Nat
    BY <2>1, TotalGrows, PoolAssumption DEF Lengths
  <2> QED BY <2>1, <2>2 DEF ExtBytes, RawBytes
<1> QED BY <1>1, Invariance, PTL

(* What the guest holds stays allocated until it gives it back, and the    *)
(* host's own pointers never dangle, with the provisos that are stated     *)
(* there.                                                                  *)
THEOREM BlocksStayLive == Fitting => (Spec => []BlocksLive)
<1>1. HeapInv => BlocksLive
  BY DEF HeapInv, BlocksLive
<1> QED BY <1>1, Invariance, PTL

(* What the calls that return without a sync do to the heap: a block in    *)
(* use is one the words know, or lies where they see free bytes, or where  *)
(* they see the context.                                                   *)
Seen == FreeSpace(told) \cup BlockAt(told, ctx)
HonestInv ==
  /\ MemoryWordsHonest
  /\ \A p \in DOMAIN heap.ext :
       \/ p \in DOMAIN told.ext /\ heap.ext[p] = told.ext[p]
       \/ ExtBytes(heap, p) \subseteq Seen

(* A sync makes the words those of the heap. *)
LEMMA SyncHonest ==
  ASSUME HeapInv', Sync
  PROVE  HonestInv'
<1>1. told' = heap' /\ cells' = Snapshot(told')
  BY DEF Sync
<1>2. /\ \A p \in DOMAIN heap'.ext : ExtBytes(heap', p) \cap FreeSpace(heap') = {}
  BY DEF HeapInv, HeapOK, Parted
<1>3. WordsHideOnlyContext'
  BY <1>1 DEF WordsHideOnlyContext
<1>4. WordsOfferOnlyOrphans'
  BY <1>1, <1>2 DEF WordsOfferOnlyOrphans, BlockAt
<1> QED BY <1>1, <1>3, <1>4 DEF HonestInv, MemoryWordsHonest

(* A call that leaves heap, words and owners alone. *)
LEMMA QuietHonest ==
  ASSUME HonestInv, UNCHANGED <<heap, cells, told, ctx, editText, held, ctxFailed>>
  PROVE  HonestInv'
BY DEF HonestInv, MemoryWordsHonest, WordsHideOnlyContext, WordsOfferOnlyOrphans, Seen,
       BlockAt

(* A faulting call's block is new: no one held its address. *)
LEMMA FaultHonest ==
  ASSUME HeapInv, HonestInv, NEW n \in Lengths \cup {0}, GrantThenFault(n)
  PROVE  HonestInv'
<1> DEFINE g == AllocExt(heap, n)
           ptr == AllocPtr(heap, n)
<1>1. /\ HeapOK(g, pinned) /\ DOMAIN g.ext = DOMAIN heap.ext \cup ({ptr} \ {0})
      /\ ptr \notin DOMAIN heap.ext
      /\ FreeSpace(g) \subseteq FreeSpace(heap)
      /\ \A p \in DOMAIN heap.ext : g.ext[p] = heap.ext[p]
      /\ ptr # 0 => ExtBytes(g, ptr) \subseteq FreeSpace(heap)
  BY AllocExtOK DEF HeapInv
<1>2. heap' = g /\ UNCHANGED <<cells, told, ctx, editText, held, ctxFailed>>
  BY DEF GrantThenFault, HostOnly
<1> HIDE DEF g, ptr
<1>3. FreeSpace(heap) \subseteq Seen /\ Seen' = Seen
  BY <1>2 DEF HonestInv, MemoryWordsHonest, WordsHideOnlyContext, Seen
<1>4. \A p \in DOMAIN heap.ext : ExtBytes(g, p) = ExtBytes(heap, p)
  BY <1>1 DEF ExtBytes
<1>5. WordsHideOnlyContext'
  BY <1>1, <1>2 DEF HonestInv, MemoryWordsHonest, WordsHideOnlyContext
<1>6. WordsOfferOnlyOrphans'
  <2> SUFFICES ASSUME Stray = {}, ~ ctxFailed, NEW p \in held \cup {editText, ctx}
               PROVE  BlockAt(g, p) \cap FreeSpace(told) = {}
    BY <1>2 DEF WordsOfferOnlyOrphans
  <2>1. BlockAt(heap, p) \cap FreeSpace(told) = {}
    BY DEF HonestInv, MemoryWordsHonest, WordsOfferOnlyOrphans
  <2>2. p \in DOMAIN heap.ext \/ p \in {0, CtxInit}
    BY DEF HeapInv, HeldBlocksLive, HostBlocksLive
  <2>3. CASE p \in DOMAIN heap.ext
    BY <1>1, <1>4, <2>1, <2>3 DEF BlockAt
  <2>4. CASE p \in {0, CtxInit}
    <3>1. p \notin DOMAIN g.ext
      BY <1>1, <2>4, InPool, NameAssumption DEF HeapOK, IsHeap
    <3> QED BY <3>1 DEF BlockAt
  <2> QED BY <2>2, <2>3, <2>4
<1>7. ASSUME NEW p \in DOMAIN g.ext
      PROVE  \/ p \in DOMAIN told.ext /\ g.ext[p] = told.ext[p]
             \/ ExtBytes(g, p) \subseteq Seen
  <2>1. CASE p \in DOMAIN heap.ext
    BY <1>1, <1>4, <2>1 DEF HonestInv
  <2>2. CASE p \notin DOMAIN heap.ext
    BY <1>1, <1>3, <1>7, <2>2
  <2> QED BY <2>1, <2>2
<1>8. cells' = Snapshot(told')
  BY <1>2 DEF HonestInv, MemoryWordsHonest
<1> QED BY <1>2, <1>3, <1>5, <1>6, <1>7, <1>8 DEF HonestInv, MemoryWordsHonest

(* The context that a failing mr_c_function_new frees is the words' own,   *)
(* or lies in what they see.                                               *)
LEMMA ContextLostHonest ==
  ASSUME HeapInv, HonestInv, NEW n, FunctionNewFails(n)
  PROVE  HonestInv'
<1> DEFINE g == FreeExt(heap, ctx)
<1>1. /\ DOMAIN g.ext = DOMAIN heap.ext \ {ctx}
      /\ FreeSpace(g) = FreeSpace(heap) \cup BlockAt(heap, ctx)
      /\ \A p \in DOMAIN g.ext : g.ext[p] = heap.ext[p]
  BY FreeExtOK DEF HeapInv
<1>2. heap' = g /\ ctxFailed' = TRUE /\ UNCHANGED <<cells, told, ctx>>
  BY DEF FunctionNewFails, ContextFreed
<1> HIDE DEF g
<1>3. FreeSpace(heap) \subseteq Seen /\ Seen' = Seen
  BY <1>2 DEF HonestInv, MemoryWordsHonest, WordsHideOnlyContext, Seen
<1>4. BlockAt(heap, ctx) \subseteq Seen
  <2>1. CASE ctx \in DOMAIN told.ext /\ heap.ext[ctx] = told.ext[ctx]
    BY <2>1 DEF BlockAt, ExtBytes, Seen
  <2>2. CASE ctx \in DOMAIN heap.ext /\ ExtBytes(heap, ctx) \subseteq Seen
    BY <2>2 DEF BlockAt
  <2>3. CASE ctx \notin DOMAIN heap.ext
    BY <2>3 DEF BlockAt
  <2> QED BY <2>1, <2>2, <2>3 DEF HonestInv
<1>5. WordsHideOnlyContext'
  BY <1>1, <1>2, <1>3, <1>4 DEF WordsHideOnlyContext, Seen
<1>6. WordsOfferOnlyOrphans'
  BY <1>2 DEF WordsOfferOnlyOrphans
<1>7. \A p \in DOMAIN g.ext : p \in DOMAIN heap.ext /\ ExtBytes(g, p) = ExtBytes(heap, p)
  BY <1>1 DEF ExtBytes
<1>8. \A p \in DOMAIN g.ext : \/ p \in DOMAIN told.ext /\ g.ext[p] = told.ext[p]
                              \/ ExtBytes(g, p) \subseteq Seen
  BY <1>1, <1>7 DEF HonestInv
<1>9. cells' = Snapshot(told')
  BY <1>2 DEF HonestInv, MemoryWordsHonest
<1> QED BY <1>2, <1>3, <1>5, <1>6, <1>8, <1>9 DEF HonestInv, MemoryWordsHonest

(* A scratch buffer is taken from no block. *)
LEMMA ReadDirHonest ==
  ASSUME HeapInv, HonestInv, NEW d \in Dirs, ReadDir(d)
  PROVE  HonestInv'
<1> DEFINE g == AllocRaw(heap, ScratchLen)
<1>1. g.ext = heap.ext /\ FreeSpace(g) \subseteq FreeSpace(heap)
  <2>1. CanAllocRaw(heap, ScratchLen)
    BY DEF ReadDir
  <2>2. ScratchLen \in Nat \ {0} /\ ScratchLen + Align <= Word
    BY PoolAssumption, RequestAssumption
  <2> QED BY <2>1, <2>2, AllocRawTakes DEF HeapInv, HeapOK
<1>2. heap' = g /\ UNCHANGED <<cells, told, ctx, editText, held, ctxFailed>>
  BY DEF ReadDir
<1> HIDE DEF g
<1>3. \A p : ExtBytes(g, p) = ExtBytes(heap, p) /\ BlockAt(g, p) = BlockAt(heap, p)
  BY <1>1 DEF ExtBytes, BlockAt
<1>4. WordsHideOnlyContext'
  BY <1>1, <1>2 DEF HonestInv, MemoryWordsHonest, WordsHideOnlyContext
<1>5. WordsOfferOnlyOrphans'
  BY <1>2, <1>3 DEF HonestInv, MemoryWordsHonest, WordsOfferOnlyOrphans
<1>6. cells' = Snapshot(told') /\ Seen' = Seen
  BY <1>2 DEF HonestInv, MemoryWordsHonest, Seen
<1>7. \A p \in DOMAIN g.ext : \/ p \in DOMAIN told.ext /\ g.ext[p] = told.ext[p]
                              \/ ExtBytes(g, p) \subseteq Seen
  BY <1>1, <1>3 DEF HonestInv
<1> QED BY <1>2, <1>4, <1>5, <1>6, <1>7 DEF HonestInv, MemoryWordsHonest

LEMMA NextHonest == Fitting /\ HeapInv /\ HonestInv /\ [Next]_vars => HonestInv'
<1> SUFFICES ASSUME Fitting, HeapInv, HonestInv, [Next]_vars PROVE HonestInv'
  OBVIOUS
<1>1. HeapInv'
  BY NextInv
<1>2. CASE Sync
  BY <1>1, <1>2, SyncHonest
<1>3. /\ MemGetLen \in Lengths \cup {0}
      /\ \A n \in Sizes : n \in Lengths \cup {0} /\ ~ ZerosRunOff(Max({n, 1}))
      /\ \A n \in DataSizes : n \in Lengths \cup {0}
  BY SizesFit
<1>4. ASSUME NEW n \in Lengths \cup {0}, Grant(n) \/ GrantThenFault(n) PROVE HonestInv'
  BY <1>2, <1>4, FaultHonest DEF Grant
<1>5. ASSUME NEW n \in Sizes, NEW p, Realloc(p, n) PROVE HonestInv'
  <2>1. CASE Grant(n) \/ GrantThenFault(n)
    BY <1>3, <1>4, <2>1
  <2>2. CASE Free(p) \/ ReallocMove(p, n) \/ ReallocKeep(p, n)
    BY <1>2, <2>2 DEF Free, ReallocMove, ReallocKeep
  <2> QED BY <1>5, <2>1, <2>2 DEF Realloc, ReallocFault
<1>6. ASSUME NEW p, Free(p) PROVE HonestInv'
  BY <1>2, <1>6 DEF Free
<1>7. ASSUME NEW n \in Sizes, Malloc(n) \/ AllocGuestBlock(n) PROVE HonestInv'
  BY <1>2, <1>7 DEF Malloc, AllocGuestBlock, Grant
<1>8. ASSUME NEW n \in Sizes, FunctionNew(n) \/ PluginFunctionNew(n) PROVE HonestInv'
  BY <1>2, <1>3, <1>8 DEF FunctionNew, PluginFunctionNew
<1>9. ASSUME NEW n \in Sizes, FunctionNewFails(n) PROVE HonestInv'
  BY <1>9, ContextLostHonest
<1>10. ASSUME NEW n \in DataSizes, ReadFile(n) PROVE HonestInv'
  BY <1>3, <1>4, <1>10 DEF ReadFile
<1>11. ASSUME NEW n \in DataSizes, EditGetText(n) PROVE HonestInv'
  BY <1>2, <1>11 DEF EditGetText
<1>12. CASE MemGet
  BY <1>3, <1>4, <1>12 DEF MemGet
<1>13. ASSUME NEW d \in Dirs, ReadDir(d) PROVE HonestInv'
  BY <1>13, ReadDirHonest
<1>14. ASSUME NEW d \in Dirs, OpenDir(d) \/ CloseDir(d) PROVE HonestInv'
  BY <1>14, QuietHonest DEF OpenDir, CloseDir
<1>15. CASE PluginLoad \/ UNCHANGED vars
  BY <1>15, QuietHonest DEF PluginLoad, vars
<1>16. CASE Next
  BY <1>5, <1>6, <1>7, <1>8, <1>9, <1>10, <1>11, <1>12, <1>13, <1>14, <1>15, <1>16, Zenon
     DEF Next
<1> QED BY <1>15, <1>16

(* However many calls return without writing the memory words (a fault, a  *)
(* directory's first entry, a context that finds no room), the words hide  *)
(* only a freed context and offer only bytes that nobody holds             *)
(* (lib.rs:3213-4056, 4449-4487).                                          *)
THEOREM WordsStayHonest == Fitting => (Spec => []MemoryWordsHonest)
<1> SUFFICES ASSUME Fitting PROVE Spec => []MemoryWordsHonest
  OBVIOUS
<1>1. Init => HonestInv
  <2> SUFFICES ASSUME Init PROVE HonestInv
    OBVIOUS
  <2>1. told = heap /\ cells = Snapshot(told) /\ held = {} /\ editText = 0 /\ ctx = CtxInit
    BY DEF Init
  <2>2. heap.ext = << >>
    BY DEF Init
  <2>3. DOMAIN heap.ext = {}
    BY <2>2
  <2> QED BY <2>1, <2>3 DEF HonestInv, MemoryWordsHonest, WordsHideOnlyContext,
                            WordsOfferOnlyOrphans, BlockAt
<1>2. HeapInv /\ HonestInv /\ [Next]_vars => HonestInv'
  BY NextHonest
<1>3. HonestInv => MemoryWordsHonest
  BY DEF HonestInv
<1> QED BY <1>1, <1>2, <1>3, Invariance, PTL DEF Spec

-----------------------------------------------------------------------------
(* The refinement: the heap of the host implements BlockPool.              *)

(* The ranges in use in a heap h with scratch buffers at pins; InUse is    *)
(* that of the state.                                                      *)
Uses(h, pins) ==
  [a \in {h.ext[p].raw : p \in DOMAIN h.ext} \cup pins |->
     IF a \in pins THEN ScratchBytes(a) ELSE ExtBytes(h, a + Header)]

Bytes(g) == UNION {g[a] : a \in DOMAIN g}

IsFunction(g) == g = [a \in DOMAIN g |-> g[a]]

(* From the grants g to the grants k, one range more. *)
Adds(g, k) ==
  \E first \in DOMAIN k \ DOMAIN g :
    /\ \E last \in Pool : first <= last /\ k[first] = first .. last
    /\ k[first] \subseteq Pool \ Bytes(g)
    /\ k = [a \in DOMAIN g \cup {first} |-> IF a = first THEN k[first] ELSE g[a]]

(* The grants g without the one at a. *)
Drop(g, a) == [b \in DOMAIN g \ {a} |-> g[b]]

(* One call's worth of change: nothing, one range more, one less, or one   *)
(* for another.                                                            *)
Changes(g, k) ==
  \/ k = g
  \/ Adds(g, k)
  \/ \E a \in DOMAIN g : k = Drop(g, a) \/ Adds(Drop(g, a), k)

-----------------------------------------------------------------------------
(* Functions. *)

(* What is dropped after something was added was added itself, or could    *)
(* as well have been dropped before.                                       *)
LEMMA DropAfterAdd ==
  ASSUME NEW g, NEW k, IsFunction(g), Adds(g, k), NEW a \in DOMAIN k
  PROVE  Drop(k, a) = g \/ (a \in DOMAIN g /\ Adds(Drop(g, a), Drop(k, a)))
<1>1. PICK f \in DOMAIN k \ DOMAIN g :
        /\ \E last \in Pool : f <= last /\ k[f] = f .. last
        /\ k[f] \subseteq Pool \ Bytes(g)
        /\ k = [b \in DOMAIN g \cup {f} |-> IF b = f THEN k[f] ELSE g[b]]
  BY DEF Adds
<1>2. DOMAIN k = DOMAIN g \cup {f} /\ \A b \in DOMAIN g : k[b] = g[b]
  <2> DEFINE w == k[f]
  <2>1. k = [b \in DOMAIN g \cup {f} |-> IF b = f THEN w ELSE g[b]]
    BY <1>1
  <2> HIDE DEF w
  <2>2. DOMAIN k = DOMAIN g \cup {f}
    BY <2>1
  <2>3. \A b \in DOMAIN g : b # f /\ k[b] = g[b]
    BY <1>1, <2>1
  <2> QED BY <2>2, <2>3
<1>3. CASE a = f
  <2>1. DOMAIN k \ {a} = DOMAIN g
    BY <1>1, <1>2, <1>3
  <2>2. Drop(k, a) = [b \in DOMAIN g |-> g[b]]
    BY <1>2, <2>1 DEF Drop
  <2> QED BY <2>2 DEF IsFunction
<1>4. CASE a # f
  <2> DEFINE d == Drop(g, a)
             e == Drop(k, a)
  <2>1. a \in DOMAIN g
    BY <1>2, <1>4
  <2>2. /\ DOMAIN d = DOMAIN g \ {a} /\ \A b \in DOMAIN d : d[b] = g[b]
        /\ DOMAIN e = DOMAIN k \ {a} /\ \A b \in DOMAIN e : e[b] = k[b]
        /\ e = [b \in DOMAIN e |-> e[b]]
    BY DEF Drop
  <2> HIDE DEF d, e
  <2>3. /\ f \in DOMAIN e \ DOMAIN d /\ e[f] = k[f] /\ DOMAIN e = DOMAIN d \cup {f}
        /\ \A b \in DOMAIN d : b # f /\ e[b] = d[b]
    BY <1>1, <1>2, <1>4, <2>2, ZenonT(60)
  <2>4. Bytes(d) \subseteq Bytes(g)
    BY <2>2 DEF Bytes
  <2>5. e = [b \in DOMAIN d \cup {f} |-> IF b = f THEN e[f] ELSE d[b]]
    BY <2>2, <2>3
  <2>6. e[f] \subseteq Pool \ Bytes(d)
    BY <1>1, <2>3, <2>4
  <2>7. \E last \in Pool : f <= last /\ e[f] = f .. last
    BY <1>1, <2>3
  <2>8. Adds(d, e)
    BY <2>3, <2>5, <2>6, <2>7 DEF Adds
  <2> QED BY <2>1, <2>8 DEF d, e
<1> QED BY <1>3, <1>4

-----------------------------------------------------------------------------
(* The ranges in use, before and after a call of the allocator. *)

(* Each block in use is keyed by where it starts, apart from the others,   *)
(* and none has a free byte.                                               *)
LEMMA UsesApart ==
  ASSUME NEW h, NEW pins, HeapOK(h, pins)
  PROVE  /\ IsFunction(Uses(h, pins))
         /\ DOMAIN Uses(h, pins) = {h.ext[p].raw : p \in DOMAIN h.ext} \cup pins
         /\ \A p \in DOMAIN h.ext :
              /\ h.ext[p].raw \in Nat /\ p = h.ext[p].raw + Header
              /\ h.ext[p].raw \notin pins
              /\ Uses(h, pins)[h.ext[p].raw] = ExtBytes(h, p)
         /\ \A a \in pins : Uses(h, pins)[a] = ScratchBytes(a)
         /\ Bytes(Uses(h, pins)) \cap FreeSpace(h) = {}
         /\ DOMAIN Uses(h, pins) \cap FreeSpace(h) = {}
<1> DEFINE U == Uses(h, pins)
           R == {h.ext[p].raw : p \in DOMAIN h.ext}
<1>1. \A p \in DOMAIN h.ext :
        /\ h.ext[p].raw \in Nat /\ p = h.ext[p].raw + Header
        /\ h.ext[p].raw \in ExtBytes(h, p)
  <2> SUFFICES ASSUME NEW p \in DOMAIN h.ext
               PROVE  /\ h.ext[p].raw \in Nat /\ p = h.ext[p].raw + Header
                      /\ h.ext[p].raw \in ExtBytes(h, p)
    OBVIOUS
  <2>1. h.ext[p].raw \in Nat
    BY DEF HeapOK, IsHeap
  <2>2. p = h.ext[p].raw + Header /\ h.ext[p].len \in Lengths
    BY DEF HeapOK, Recorded
  <2>3. Aligned(Total(h.ext[p].len)) \in Nat \ {0}
    BY <2>2, TotalGrows
  <2>4. h.ext[p].raw \in ExtBytes(h, p)
    BY <2>1, <2>3 DEF ExtBytes, RawBytes
  <2> QED BY <2>1, <2>2, <2>4
<1>2. \A a \in pins : a \in Nat /\ a \in ScratchBytes(a)
  <2>1. ScratchLen \in Nat \ {0} /\ ScratchLen + Align <= Word
    BY PoolAssumption, RequestAssumption
  <2>2. Aligned(ScratchLen) \in Nat \ {0} /\ pins \subseteq Nat
    BY <2>1, AlignedGrows DEF HeapOK
  <2> QED BY <2>2 DEF ScratchBytes, RawBytes
<1>3. /\ \A p \in DOMAIN h.ext : \A a \in pins : ExtBytes(h, p) \cap ScratchBytes(a) = {}
      /\ \A p \in DOMAIN h.ext : ExtBytes(h, p) \cap FreeSpace(h) = {}
      /\ \A a \in pins : ScratchBytes(a) \cap FreeSpace(h) = {}
  BY DEF HeapOK, Parted
<1>4. /\ DOMAIN U = R \cup pins /\ IsFunction(U)
      /\ \A a \in pins : U[a] = ScratchBytes(a)
      /\ \A a \in R \ pins : U[a] = ExtBytes(h, a + Header)
  BY DEF Uses, IsFunction
<1> HIDE DEF U
<1>5. \A p \in DOMAIN h.ext : h.ext[p].raw \notin pins
  BY <1>1, <1>2, <1>3
<1>6. \A p \in DOMAIN h.ext : U[h.ext[p].raw] = ExtBytes(h, p)
  <2> SUFFICES ASSUME NEW p \in DOMAIN h.ext PROVE U[h.ext[p].raw] = ExtBytes(h, p)
    OBVIOUS
  <2>1. h.ext[p].raw \in R \ pins
    BY <1>5
  <2>2. U[h.ext[p].raw] = ExtBytes(h, h.ext[p].raw + Header)
    BY <1>4, <2>1
  <2> QED BY <1>1, <2>2
<1>7. \A a \in DOMAIN U : U[a] \cap FreeSpace(h) = {} /\ a \notin FreeSpace(h)
  <2> SUFFICES ASSUME NEW a \in DOMAIN U
               PROVE  U[a] \cap FreeSpace(h) = {} /\ a \notin FreeSpace(h)
    OBVIOUS
  <2>1. CASE a \in pins
    BY <1>2, <1>3, <1>4, <2>1
  <2>2. CASE a \in R
    <3>1. PICK p \in DOMAIN h.ext : a = h.ext[p].raw
      BY <2>2
    <3> QED BY <1>1, <1>3, <1>6, <3>1
  <2> QED BY <1>4, <2>1, <2>2
<1>8. Bytes(U) \cap FreeSpace(h) = {} /\ DOMAIN U \cap FreeSpace(h) = {}
  BY <1>7 DEF Bytes
<1> QED BY <1>1, <1>4, <1>5, <1>6, <1>8 DEF U

(* A range taken from the free space is one grant more. *)
LEMMA TakenAdds ==
  ASSUME NEW g, NEW k, NEW F, Bytes(g) \cap F = {}, DOMAIN g \cap F = {}, F \subseteq Pool,
         NEW a \in Nat, NEW n \in Nat \ {0}, a .. a + n - 1 \subseteq F,
         DOMAIN k = DOMAIN g \cup {a}, IsFunction(k), k[a] = a .. a + n - 1,
         \A b \in DOMAIN g : k[b] = g[b]
  PROVE  Adds(g, k)
<1>1. a \in a .. a + n - 1 /\ a + n - 1 \in a .. a + n - 1 /\ a <= a + n - 1
  OBVIOUS
<1>2. a \in DOMAIN k \ DOMAIN g
  BY <1>1
<1>3. \E last \in Pool : a <= last /\ k[a] = a .. last
  <2>1. a + n - 1 \in Pool
    BY <1>1
  <2> QED BY <1>1, <2>1
<1>4. k[a] \subseteq Pool \ Bytes(g)
  OBVIOUS
<1>5. k = [b \in DOMAIN g \cup {a} |-> IF b = a THEN k[a] ELSE g[b]]
  BY <1>2 DEF IsFunction
<1> QED BY <1>2, <1>3, <1>4, <1>5 DEF Adds

(* alloc_ext adds a range, or nothing. *)
LEMMA AllocExtAdds ==
  ASSUME NEW h, NEW pins, HeapOK(h, pins), NEW n \in Lengths \cup {0}
  PROVE  \/ AllocExt(h, n) = h
         \/ Adds(Uses(h, pins), Uses(AllocExt(h, n), pins))
<1> DEFINE t == Total(n)
           a == RawPtr(h, t)
           ptr == AllocPtr(h, n)
           r == AllocRaw(h, t)
           g == AllocExt(h, n)
           R == RawBytes(a, t)
           U == Uses(h, pins)
           V == Uses(g, pins)
<1> SUFFICES ASSUME CanAlloc(h, n) PROVE Adds(U, V)
  BY DEF AllocExt
<1>1. n \in Lengths /\ CanAllocRaw(h, t)
  BY DEF CanAlloc
<1>2. t \in Nat \ {0} /\ t + Align <= Word /\ Aligned(t) \in Nat \ {0}
  BY <1>1, TotalGrows
<1>3. /\ IsHeap(r) /\ r.ext = h.ext /\ R \subseteq FreeSpace(h) /\ a \in Nat /\ a \in R
  BY <1>1, <1>2, AllocRawTakes DEF HeapOK
<1>4. ptr = a + Header /\ ptr \notin DOMAIN h.ext /\ HeapOK(g, pins)
  BY AllocExtOK DEF AllocPtr
<1>5. g = [r EXCEPT !.ext = Entered(@, ptr, [raw |-> a, len |-> n])]
  BY DEF AllocExt
<1> HIDE DEF a, r, g, ptr, R, t
<1>6. g.ext = Entered(h.ext, ptr, [raw |-> a, len |-> n])
  <2>1. g = [blocks |-> r.blocks, ext |-> Entered(h.ext, ptr, [raw |-> a, len |-> n]),
             minFree |-> r.minFree, peakUsed |-> r.peakUsed]
    BY <1>3, <1>5 DEF IsHeap
  <2> QED BY <2>1
<1>7. /\ DOMAIN g.ext = DOMAIN h.ext \cup {ptr}
      /\ g.ext[ptr] = [raw |-> a, len |-> n]
      /\ \A p \in DOMAIN h.ext : g.ext[p] = h.ext[p]
  <2> DEFINE x == Entered(h.ext, ptr, [raw |-> a, len |-> n])
  <2>1. /\ DOMAIN x = DOMAIN h.ext \cup {ptr}
        /\ x[ptr] = [raw |-> a, len |-> n]
        /\ \A q \in DOMAIN h.ext : x[q] = h.ext[q]
    BY <1>4 DEF Entered
  <2> HIDE DEF x
  <2>2. g.ext = x
    BY <1>6 DEF x
  <2> QED BY <2>1, <2>2
<1>8. /\ ExtBytes(g, ptr) = R /\ g.ext[ptr].raw = a
      /\ \A p \in DOMAIN h.ext : ExtBytes(g, p) = ExtBytes(h, p) /\ g.ext[p].raw = h.ext[p].raw
  BY <1>7 DEF ExtBytes, R, t
<1>9. /\ DOMAIN U = {h.ext[p].raw : p \in DOMAIN h.ext} \cup pins
      /\ \A p \in DOMAIN h.ext : U[h.ext[p].raw] = ExtBytes(h, p)
      /\ \A b \in pins : U[b] = ScratchBytes(b)
      /\ Bytes(U) \cap FreeSpace(h) = {} /\ DOMAIN U \cap FreeSpace(h) = {}
  BY UsesApart, ZenonT(60)
<1>10. /\ DOMAIN V = {g.ext[p].raw : p \in DOMAIN g.ext} \cup pins /\ IsFunction(V)
       /\ \A p \in DOMAIN g.ext : V[g.ext[p].raw] = ExtBytes(g, p)
       /\ \A b \in pins : V[b] = ScratchBytes(b)
  BY <1>4, UsesApart
<1> HIDE DEF U, V
<1>11. DOMAIN V = DOMAIN U \cup {a}
  BY <1>7, <1>8, <1>9, <1>10
<1>12. V[a] = a .. a + Aligned(t) - 1 /\ a .. a + Aligned(t) - 1 \subseteq FreeSpace(h)
  BY <1>3, <1>7, <1>8, <1>10 DEF R, RawBytes
<1>13. \A b \in DOMAIN U : V[b] = U[b]
  <2> SUFFICES ASSUME NEW b \in DOMAIN U PROVE V[b] = U[b]
    OBVIOUS
  <2>1. CASE b \in pins
    BY <1>9, <1>10, <2>1
  <2>2. CASE b \notin pins
    <3>1. PICK p \in DOMAIN h.ext : b = h.ext[p].raw
      BY <1>9, <2>2
    <3>2. p \in DOMAIN g.ext /\ g.ext[p].raw = b
      BY <1>7, <1>8, <3>1
    <3> QED BY <1>8, <1>9, <1>10, <3>1, <3>2
  <2> QED BY <2>1, <2>2
<1>14. FreeSpace(h) \subseteq Pool
  BY DEF HeapOK, Covered
<1> HIDE DEF FreeSpace
<1> QED BY <1>2, <1>3, <1>9, <1>10, <1>11, <1>12, <1>13, <1>14, TakenAdds

(* free_ext drops a range, or nothing. *)
LEMMA FreeExtDrops ==
  ASSUME NEW h, NEW pins, HeapOK(h, pins), NEW ptr
  PROVE  \/ FreeExt(h, ptr) = h
         \/ \E a \in DOMAIN Uses(h, pins) :
              Uses(FreeExt(h, ptr), pins) = Drop(Uses(h, pins), a)
<1> DEFINE g == FreeExt(h, ptr)
           a == h.ext[ptr].raw
           U == Uses(h, pins)
           V == Uses(g, pins)
<1> SUFFICES ASSUME ptr \in DOMAIN h.ext PROVE a \in DOMAIN U /\ V = Drop(U, a)
  BY DEF FreeExt
<1>1. HeapOK(g, pins) /\ DOMAIN g.ext = DOMAIN h.ext \ {ptr}
  BY FreeExtOK
<1>2. \A p \in DOMAIN g.ext : g.ext[p] = h.ext[p]
  <2> DEFINE fr == FreeRaw(h.blocks, a, Total(h.ext[ptr].len))
  <2>1. g = [h EXCEPT !.blocks = fr, !.ext = Restrict(@, DOMAIN @ \ {ptr})]
    BY DEF FreeExt
  <2> HIDE DEF g, fr
  <2>2. g = [blocks |-> fr, ext |-> Restrict(h.ext, DOMAIN h.ext \ {ptr}),
             minFree |-> h.minFree, peakUsed |-> h.peakUsed]
    BY <2>1 DEF HeapOK, IsHeap
  <2>3. g.ext = Restrict(h.ext, DOMAIN h.ext \ {ptr})
    BY <2>2
  <2> QED BY <2>3 DEF Restrict
<1> HIDE DEF g
<1>3. \A p \in DOMAIN g.ext : ExtBytes(g, p) = ExtBytes(h, p) /\ g.ext[p].raw = h.ext[p].raw
  BY <1>2 DEF ExtBytes
<1>4. /\ DOMAIN U = {h.ext[p].raw : p \in DOMAIN h.ext} \cup pins
      /\ \A p \in DOMAIN h.ext :
           /\ h.ext[p].raw \in Nat /\ p = h.ext[p].raw + Header
           /\ h.ext[p].raw \notin pins /\ U[h.ext[p].raw] = ExtBytes(h, p)
      /\ \A b \in pins : U[b] = ScratchBytes(b)
  BY UsesApart
<1>5. /\ DOMAIN V = {g.ext[p].raw : p \in DOMAIN g.ext} \cup pins /\ IsFunction(V)
      /\ \A p \in DOMAIN g.ext : V[g.ext[p].raw] = ExtBytes(g, p)
      /\ \A b \in pins : V[b] = ScratchBytes(b)
  BY <1>1, UsesApart, ZenonT(60)
<1> HIDE DEF U, V
<1>6. \A p \in DOMAIN h.ext : h.ext[p].raw = a => p = ptr
  BY <1>4
<1>7. DOMAIN V = DOMAIN U \ {a}
  <2>1. ASSUME NEW b \in DOMAIN V PROVE b \in DOMAIN U \ {a}
    <3>1. CASE b \in pins  BY <1>4, <3>1
    <3>2. CASE b \notin pins
      <4>1. PICK p \in DOMAIN g.ext : b = g.ext[p].raw  BY <1>5, <2>1, <3>2
      <4> QED BY <1>1, <1>3, <1>4, <1>6, <4>1
    <3> QED BY <3>1, <3>2
  <2>2. ASSUME NEW b \in DOMAIN U \ {a} PROVE b \in DOMAIN V
    <3>1. CASE b \in pins  BY <1>5, <3>1
    <3>2. CASE b \notin pins
      <4>1. PICK p \in DOMAIN h.ext : b = h.ext[p].raw  BY <1>4, <2>2, <3>2
      <4>2. p \in DOMAIN g.ext  BY <1>1, <2>2, <4>1
      <4> QED BY <1>3, <1>5, <4>1, <4>2
    <3> QED BY <3>1, <3>2
  <2> QED BY <2>1, <2>2
<1>8. \A b \in DOMAIN V : V[b] = U[b]
  <2> SUFFICES ASSUME NEW b \in DOMAIN V PROVE V[b] = U[b]
    OBVIOUS
  <2>1. CASE b \in pins  BY <1>4, <1>5, <2>1
  <2>2. CASE b \notin pins
    <3>1. PICK p \in DOMAIN g.ext : b = g.ext[p].raw  BY <1>5, <2>2
    <3>2. p \in DOMAIN h.ext /\ b = h.ext[p].raw  BY <1>1, <1>3, <3>1
    <3> QED BY <1>3, <1>4, <1>5, <3>1, <3>2
  <2> QED BY <2>1, <2>2
<1>9. V = [b \in DOMAIN U \ {a} |-> U[b]]
  BY <1>5, <1>7, <1>8 DEF IsFunction
<1>10. a \in DOMAIN U
  BY <1>4
<1> QED BY <1>9, <1>10 DEF Drop

(* A scratch buffer is one range more. *)
LEMMA ScratchAdds ==
  ASSUME NEW h, NEW pins, HeapOK(h, pins), CanAllocRaw(h, ScratchLen)
  PROVE  Adds(Uses(h, pins),
              Uses(AllocRaw(h, ScratchLen), pins \cup {RawPtr(h, ScratchLen)}))
<1> DEFINE a == RawPtr(h, ScratchLen)
           g == AllocRaw(h, ScratchLen)
           pinned2 == pins \cup {a}
           U == Uses(h, pins)
           V == Uses(g, pinned2)
<1>1. /\ ScratchLen \in Nat \ {0} /\ ScratchLen + Align <= Word
      /\ Aligned(ScratchLen) \in Nat \ {0}
  BY PoolAssumption, RequestAssumption, AlignedGrows
<1>2. /\ g.ext = h.ext /\ ScratchBytes(a) \subseteq FreeSpace(h)
      /\ a \in Nat /\ a \in ScratchBytes(a)
  BY <1>1, AllocRawTakes DEF HeapOK, ScratchBytes
<1>3. HeapOK(g, pinned2)
  BY ScratchOK
<1> HIDE DEF a, g, pinned2
<1>4. \A p : ExtBytes(g, p) = ExtBytes(h, p)
  BY <1>2 DEF ExtBytes
<1>5. /\ DOMAIN U = {h.ext[p].raw : p \in DOMAIN h.ext} \cup pins
      /\ \A p \in DOMAIN h.ext : U[h.ext[p].raw] = ExtBytes(h, p)
      /\ \A b \in pins : U[b] = ScratchBytes(b)
      /\ Bytes(U) \cap FreeSpace(h) = {} /\ DOMAIN U \cap FreeSpace(h) = {}
  BY UsesApart
<1>6. /\ DOMAIN V = {g.ext[p].raw : p \in DOMAIN g.ext} \cup pinned2 /\ IsFunction(V)
      /\ \A p \in DOMAIN g.ext : V[g.ext[p].raw] = ExtBytes(g, p)
      /\ \A b \in pinned2 : V[b] = ScratchBytes(b)
  BY <1>3, UsesApart
<1> HIDE DEF U, V
<1>7. DOMAIN V = DOMAIN U \cup {a}
  BY <1>2, <1>5, <1>6 DEF pinned2
<1>8. V[a] = a .. a + Aligned(ScratchLen) - 1
  BY <1>6 DEF pinned2, ScratchBytes, RawBytes
<1>9. a .. a + Aligned(ScratchLen) - 1 \subseteq FreeSpace(h)
  BY <1>2 DEF ScratchBytes, RawBytes
<1>10. \A b \in DOMAIN U : V[b] = U[b]
  <2> SUFFICES ASSUME NEW b \in DOMAIN U PROVE V[b] = U[b]
    OBVIOUS
  <2>1. CASE b \in pins  BY <1>5, <1>6, <2>1 DEF pinned2
  <2>2. CASE b \notin pins
    <3>1. PICK p \in DOMAIN h.ext : b = h.ext[p].raw  BY <1>5, <2>2
    <3> QED BY <1>2, <1>4, <1>5, <1>6, <3>1
  <2> QED BY <2>1, <2>2
<1>11. FreeSpace(h) \subseteq Pool
  BY DEF HeapOK, Covered
<1>12. Adds(U, V)
  BY <1>1, <1>2, <1>5, <1>6, <1>7, <1>8, <1>9, <1>10, <1>11, TakenAdds
<1> QED BY <1>12 DEF U, V, g, a, pinned2

-----------------------------------------------------------------------------
(* The calls. *)

(* A block given back, then one taken: mr_editGetText, mr_c_function_new. *)
LEMMA FreeThenAlloc ==
  ASSUME NEW h, NEW pins, HeapOK(h, pins), NEW p, NEW n \in Lengths \cup {0}
  PROVE  Changes(Uses(h, pins), Uses(AllocExt(FreeExt(h, p), n), pins))
<1> DEFINE i == FreeExt(h, p)
           j == AllocExt(i, n)
<1>1. HeapOK(i, pins)
  BY FreeExtOK
<1>2. i = h \/ \E a \in DOMAIN Uses(h, pins) : Uses(i, pins) = Drop(Uses(h, pins), a)
  BY FreeExtDrops
<1> HIDE DEF i
<1>3. j = i \/ Adds(Uses(i, pins), Uses(j, pins))
  BY <1>1, AllocExtAdds
<1> HIDE DEF j
<1>4. Changes(Uses(h, pins), Uses(j, pins))
  BY <1>2, <1>3, Zenon DEF Changes
<1> QED BY <1>4 DEF i, j

(* A block taken, then one given back: mr_realloc. *)
LEMMA AllocThenFree ==
  ASSUME NEW h, NEW pins, HeapOK(h, pins), NEW p, NEW n \in Lengths \cup {0}
  PROVE  Changes(Uses(h, pins), Uses(FreeExt(AllocExt(h, n), p), pins))
<1> SUFFICES ASSUME NEW i, i = AllocExt(h, n), NEW j, j = FreeExt(i, p),
                    NEW U, U = Uses(h, pins), NEW V, V = Uses(i, pins),
                    NEW W, W = Uses(j, pins)
             PROVE  Changes(U, W)
  OBVIOUS
<1>1. HeapOK(i, pins) /\ IsFunction(U)
  BY AllocExtOK, UsesApart
<1>2. V = U \/ Adds(U, V)
  BY AllocExtAdds
<1>3. W = V \/ \E a \in DOMAIN V : W = Drop(V, a)
  BY <1>1, FreeExtDrops
<1>4. CASE W = V
  BY <1>2, <1>4 DEF Changes
<1>5. ASSUME NEW a \in DOMAIN V, W = Drop(V, a)
      PROVE  Changes(U, W)
  <2>1. CASE V = U
    BY <1>5, <2>1 DEF Changes
  <2>2. CASE Adds(U, V)
    <3>1. Drop(V, a) = U \/ (a \in DOMAIN U /\ Adds(Drop(U, a), Drop(V, a)))
      BY <1>1, <1>5, <2>2, DropAfterAdd
    <3> QED BY <1>5, <3>1, Zenon DEF Changes
  <2> QED BY <1>2, <2>1, <2>2
<1> QED BY <1>3, <1>4, <1>5

LEMMA AllocChanges ==
  ASSUME NEW h, NEW pins, HeapOK(h, pins), NEW n \in Lengths \cup {0}
  PROVE  Changes(Uses(h, pins), Uses(AllocExt(h, n), pins))
BY AllocExtAdds, Zenon DEF Changes

LEMMA FreeChanges ==
  ASSUME NEW h, NEW pins, HeapOK(h, pins), NEW p
  PROVE  Changes(Uses(h, pins), Uses(FreeExt(h, p), pins))
BY FreeExtDrops, Zenon DEF Changes

(* Every call is one change of the pool. *)
LEMMA StepChanges ==
  ASSUME Fitting, HeapInv, [Next]_vars
  PROVE  Changes(Uses(heap, pinned), Uses(heap', pinned'))
<1> DEFINE Goal == Changes(Uses(heap, pinned), Uses(heap', pinned'))
<1>1. /\ MemGetLen \in Lengths \cup {0}
      /\ \A n \in Sizes :
           /\ n \in Lengths \cup {0} /\ Max({n, 1}) \in Lengths \cup {0}
           /\ ~ ZerosRunOff(Max({n, 1}))
      /\ \A n \in DataSizes :
           /\ n \in Lengths \cup {0} /\ Max({n, 1}) \in Lengths \cup {0}
           /\ Max({n, 1}) + 1 \in Lengths \cup {0}
  BY SizesFit
<1>2. HeapOK(heap, pinned)
  BY DEF HeapInv
<1>3. ASSUME UNCHANGED <<heap, pinned>> PROVE Goal
  BY <1>3 DEF Changes
<1>4. ASSUME NEW n \in Lengths \cup {0}, Grant(n) \/ GrantThenFault(n) PROVE Goal
  <2>1. heap' = AllocExt(heap, n) /\ pinned' = pinned
    BY <1>4 DEF Grant, GrantThenFault, HostOnly
  <2>2. Changes(Uses(heap, pinned), Uses(AllocExt(heap, n), pinned))
    BY <1>2, AllocChanges
  <2> QED BY <2>1, <2>2
<1>5. ASSUME NEW p, Free(p) PROVE Goal
  <2>1. heap' = FreeExt(heap, p) /\ pinned' = pinned
    BY <1>5 DEF Free, HostOnly
  <2>2. Changes(Uses(heap, pinned), Uses(FreeExt(heap, p), pinned))
    BY <1>2, FreeChanges
  <2> QED BY <2>1, <2>2
<1>6. ASSUME NEW n \in Sizes, NEW p, Realloc(p, n) PROVE Goal
  <2>0. n \in Lengths \cup {0}
    BY <1>1
  <2>1. CASE Grant(n) \/ GrantThenFault(n)
    BY <1>4, <2>0, <2>1
  <2>2. CASE Free(p)
    BY <1>5, <2>2
  <2>3. CASE ReallocMove(p, n)
    <3>1. heap' = FreeExt(AllocExt(heap, n), p) /\ pinned' = pinned
      BY <2>3 DEF ReallocMove, HostOnly
    <3>2. Changes(Uses(heap, pinned), Uses(FreeExt(AllocExt(heap, n), p), pinned))
      BY <1>2, <2>0, AllocThenFree
    <3> QED BY <3>1, <3>2
  <2>4. CASE ReallocKeep(p, n)
    BY <1>3, <2>4 DEF ReallocKeep, HostOnly
  <2> QED BY <1>6, <2>1, <2>2, <2>3, <2>4 DEF Realloc, ReallocFault
<1>7. ASSUME NEW n \in Sizes, FunctionNew(n) PROVE Goal
  <2>1. /\ heap' = AllocExt(FreeExt(heap, ctx), Max({n, 1})) /\ pinned' = pinned
        /\ Max({n, 1}) \in Lengths \cup {0}
    BY <1>1, <1>7 DEF FunctionNew, ContextFreed
  <2>2. Changes(Uses(heap, pinned), Uses(AllocExt(FreeExt(heap, ctx), Max({n, 1})), pinned))
    BY <1>2, <2>1, FreeThenAlloc
  <2> QED BY <2>1, <2>2
<1>8. ASSUME NEW n \in Sizes, FunctionNewFails(n) PROVE Goal
  <2>1. heap' = FreeExt(heap, ctx) /\ pinned' = pinned
    BY <1>8 DEF FunctionNewFails, ContextFreed
  <2>2. Changes(Uses(heap, pinned), Uses(FreeExt(heap, ctx), pinned))
    BY <1>2, FreeChanges
  <2> QED BY <2>1, <2>2
<1>9. ASSUME NEW n \in Sizes, PluginFunctionNew(n) PROVE Goal
  <2>1. /\ heap' = AllocExt(heap, Max({n, 1})) /\ pinned' = pinned
        /\ Max({n, 1}) \in Lengths \cup {0}
    BY <1>1, <1>9 DEF PluginFunctionNew
  <2>2. Changes(Uses(heap, pinned), Uses(AllocExt(heap, Max({n, 1})), pinned))
    BY <1>2, <2>1, AllocChanges
  <2> QED BY <2>1, <2>2
<1>10. ASSUME NEW n \in DataSizes, EditGetText(n) PROVE Goal
  <2>1. /\ heap' = AllocExt(FreeExt(heap, editText), Max({n, 1}) + 1) /\ pinned' = pinned
        /\ Max({n, 1}) + 1 \in Lengths \cup {0}
    BY <1>1, <1>10 DEF EditGetText
  <2>2. Changes(Uses(heap, pinned),
                Uses(AllocExt(FreeExt(heap, editText), Max({n, 1}) + 1), pinned))
    BY <1>2, <2>1, FreeThenAlloc
  <2> QED BY <2>1, <2>2
<1>11. ASSUME NEW d \in Dirs, ReadDir(d) PROVE Goal
  <2>1. /\ CanAllocRaw(heap, ScratchLen)
        /\ heap' = AllocRaw(heap, ScratchLen)
        /\ pinned' = pinned \cup {RawPtr(heap, ScratchLen)}
    BY <1>11 DEF ReadDir
  <2>2. Adds(Uses(heap, pinned),
             Uses(AllocRaw(heap, ScratchLen), pinned \cup {RawPtr(heap, ScratchLen)}))
    BY <1>2, <2>1, ScratchAdds
  <2> QED BY <2>1, <2>2 DEF Changes
<1>12. ASSUME NEW d \in Dirs, OpenDir(d) \/ CloseDir(d) PROVE Goal
  BY <1>3, <1>12 DEF OpenDir, CloseDir
<1>13. CASE PluginLoad
  BY <1>3, <1>13 DEF PluginLoad
<1>14. ASSUME NEW n \in Sizes, Malloc(n) \/ AllocGuestBlock(n) PROVE Goal
  BY <1>1, <1>4, <1>14 DEF Malloc, AllocGuestBlock
<1>15. ASSUME NEW n \in DataSizes, ReadFile(n) PROVE Goal
  BY <1>1, <1>4, <1>15 DEF ReadFile
<1>16. CASE MemGet
  BY <1>1, <1>4, <1>16 DEF MemGet
<1>17. CASE UNCHANGED vars
  BY <1>3, <1>17 DEF vars
<1>18. CASE Next
  BY <1>5, <1>6, <1>7, <1>8, <1>9, <1>10, <1>11, <1>12, <1>13, <1>14, <1>15, <1>16, <1>18
     DEF Next
<1>19. Goal
  BY <1>17, <1>18
<1> QED BY <1>19

(* The heap is a pool of byte ranges: every grant is a range no other      *)
(* grant overlaps, and keeps its place and extent until it is given back   *)
(* (alloc_ext, free_ext and their callers, lib.rs:3213-4056).              *)
THEOREM HeapKeepsPromise == Fitting => (Spec => PoolPromise)
<1> SUFFICES ASSUME Fitting PROVE Spec => PoolPromise
  OBVIOUS
<1>1. Init => Promise!Init
  <2> SUFFICES ASSUME Init PROVE InUse = << >>
    BY DEF Promise!Init
  <2>1. heap.ext = << >> /\ pinned = {}
    BY DEF Init
  <2>2. DOMAIN heap.ext = {}
    BY <2>1
  <2>3. InUse = [a \in {} |-> IF a \in pinned THEN ScratchBytes(a) ELSE ExtBytes(heap, a + Header)]
    BY <2>1, <2>2 DEF InUse
  <2> QED BY <2>3
<1>2. HeapInv /\ [Next]_vars => [Promise!Next]_InUse
  <2> SUFFICES ASSUME HeapInv, [Next]_vars PROVE Promise!Next \/ InUse' = InUse
    OBVIOUS
  <2>1. Changes(Uses(heap, pinned), Uses(heap', pinned'))
    BY StepChanges
  <2>2. InUse = Uses(heap, pinned) /\ InUse' = Uses(heap', pinned')
    BY DEF InUse, Uses
  <2>3. Changes(InUse, InUse')
    BY <2>1, <2>2
  <2>4. ASSUME NEW g, NEW k PROVE Adds(g, k) <=> Promise!OneMore(g, k)
    BY Zenon DEF Adds, Bytes, Promise!OneMore, Promise!Granted
  <2>5. ASSUME NEW g, NEW a PROVE Promise!Without(g, a) = Drop(g, a)
    BY DEF Promise!Without, Drop
  <2>6. ASSUME NEW g, NEW k, Changes(g, k) PROVE k = g \/ Promise!Call(g, k)
    BY <2>4, <2>5, <2>6, Zenon DEF Changes, Promise!Call
  <2>7. InUse' = InUse \/ Promise!Call(InUse, InUse')
    BY <2>3, <2>6
  <2> QED BY <2>7 DEF Promise!Next
<1> QED BY <1>1, <1>2, Invariance, PTL DEF Spec, PoolPromise, Promise!Spec

=============================================================================
