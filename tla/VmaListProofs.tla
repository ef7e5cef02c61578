----------------------------- MODULE VmaListProofs -----------------------------
(***************************************************************************)
(* Proofs about virtual address spaces: the inductive invariant, the lists  *)
(* of ranges, what a step does to them, and the boxes that ranges share.    *)
(***************************************************************************)
EXTENDS Vma, SequenceTheorems, FiniteSetTheorems, TLAPS

\* Range descriptors (kmvarsdsc_t).
Types == {"none", "heap", "stack", "bin"}
Dsc == [start : Nat, end : Nat, type : Types, box : Boxes \cup {NULL}]

\* A range is not empty, and made of pages but for the last byte of the last one.
Proper(r) ==
    /\ PGSZ <= r.start /\ r.start < r.end /\ r.end <= END
    /\ r.start % PGSZ = 0 /\ (r.end % PGSZ = 0 \/ r.end = END)

\* The list of an address space, with the order of any two ranges.
Sorted(l) ==
    /\ \A i \in 1 .. Len(l) : Proper(l[i])
    /\ \A i, j \in 1 .. Len(l) : i < j => l[i].end <= l[j].start

Space_t == [list : Seq(Dsc), curr : Nat, end : Nat, nr : Nat]

ListOK(v) ==
    /\ v \in Space_t
    /\ Sorted(v.list)
    /\ v.curr \in 0 .. Len(v.list)
    /\ v.end = Len(v.list)

RangesInv == vs \in [Mms -> Space_t] /\ \A m \in Mms : ListOK(vs[m])

\* Sets of ranges: the ones that have box b, and the addresses that they have.
Users(R, b) == {r \in R : r.box = b}
Covered(R) == {a \in Addrs : \E r \in R : r.start <= a /\ a < r.end}
Apart(R) == \A r, s \in R : r # s => r.end <= s.start \/ s.end <= r.start

\* BoxesOK for the sets R[m] of ranges, the counts ct of the boxes and the
\* boxes hd in use.
UseOK(R, ct, hd) ==
    /\ \A m \in Mms : IsFiniteSet(R[m])
    /\ \A b \in Boxes : b \in hd <=> \E m \in Mms : Users(R[m], b) # {}
    /\ \A b \in Boxes, m, k \in Mms : Users(R[m], b) # {} /\ Users(R[k], b) # {} => m = k
    /\ \A b \in Boxes, m \in Mms : Users(R[m], b) # {} => ct[b] = Cardinality(Users(R[m], b))

\* The page behind a mapped address is in the box of the range that has it.
Behind(R, ms, mp) ==
    \A m \in Mms, a \in Addrs \ {END} :
        mp[m][Page(a)] # NULL =>
            \E r \in R[m] :
                /\ r.start <= a /\ a < r.end
                /\ r.box # NULL /\ mp[m][Page(a)] \in ms[r.box]

\* FramesExact, page by page.
PagesOK(mp, uf, ls) ==
    /\ \A f \in Frames : f \in uf <=> f \notin ls /\ \A m \in Mms, v \in VPages : mp[m][v] # f
    /\ \A f \in ls, m \in Mms, v \in VPages : mp[m][v] # f
    /\ \A m, k \in Mms, v, w \in VPages : mp[m][v] # NULL /\ mp[m][v] = mp[k][w] => m = k /\ v = w

Rs == [m \in Mms |-> Ranges(m)]
Conts == [b \in Boxes |-> box[b].cont]
Msas == [b \in Boxes |-> box[b].msas]

\* The manager of the boxes. No box is in the cache twice.
MgrOK(g) ==
    /\ g \in [head : SUBSET Boxes, nr : Int, cache : Seq(Boxes), cachenr : Int]
    /\ IsFiniteSet(g.head) /\ g.nr = Cardinality(g.head) /\ g.cachenr = Len(g.cache)
    /\ \A i, j \in 1 .. Len(g.cache) : g.cache[i] = g.cache[j] => i = j
    /\ \A i \in 1 .. Len(g.cache) : g.cache[i] \notin g.head

PhysInv ==
    /\ box \in [Boxes -> [cont : Int, msas : SUBSET Frames]]
    /\ map \in [Mms -> [VPages -> Frames \cup {NULL}]]
    /\ ufree \subseteq Frames /\ lost \subseteq Frames
    /\ MgrOK(mgr)
    /\ UseOK(Rs, Conts, mgr.head)
    /\ Behind(Rs, Msas, map)
    /\ PagesOK(map, ufree, lost)

VmaInv == RangesInv /\ PhysInv

-----------------------------------------------------------------------------
(* Lists of ranges.                                                         *)

Elems(l) == {l[i] : i \in DOMAIN l}

\* List l2 is l with the ranges of w in the place of range i.
Spliced(l, i, w, l2) ==
    /\ l2 \in Seq(Dsc) /\ Len(l2) = Len(l) + Len(w) - 1
    /\ \A j \in 1 .. Len(l2) :
           l2[j] = IF j < i THEN l[j] ELSE IF j < i + Len(w) THEN w[j - i + 1] ELSE l[j - Len(w) + 1]

\* The ranges of w fit between the neighbours of range i.
Fits(l, i, w) ==
    \A k \in 1 .. Len(w) :
        /\ i > 1 => l[i - 1].end <= w[k].start
        /\ i < Len(l) => w[k].end <= l[i + 1].start

\* Set E with the ranges of W in the place of r.
Swap(E, r, W) == (E \ {r}) \cup W
Swapped(E, r, W, E2) == E2 = Swap(E, r, W)

\* The elements of a sequence, by position.
LEMMA ElemsIndex ==
    ASSUME NEW S, NEW l \in Seq(S)
    PROVE  /\ \A i \in 1 .. Len(l) : l[i] \in Elems(l)
           /\ \A x \in Elems(l) : \E i \in 1 .. Len(l) : l[i] = x
BY DEF Elems

\* What a place of a list of ranges holds.
LEMMA ListDsc ==
    ASSUME NEW l \in Seq(Dsc), NEW i \in 1 .. Len(l)
    PROVE  l[i] \in Dsc /\ l[i].start \in Nat /\ l[i].end \in Nat /\ l[i].box \in Boxes \cup {NULL}
<1>1. l[i] \in Dsc
  OBVIOUS
<1>2. QED  BY <1>1 DEF Dsc

\* Ranges that fit in the place of range i leave the list sorted.
LEMMA SplicedSorted ==
    ASSUME NEW l \in Seq(Dsc), Sorted(l), NEW i \in 1 .. Len(l), NEW w \in Seq(Dsc), Sorted(w),
           Fits(l, i, w), NEW l2, Spliced(l, i, w, l2)
    PROVE  Sorted(l2)
<1> DEFINE W == Len(w)
<1>0. W \in Nat /\ Len(l) \in Nat /\ Len(l2) = Len(l) + W - 1 /\ l2 \in Seq(Dsc)
  BY DEF Spliced
<1>1. \A j \in 1 .. Len(l) : l[j].start \in Nat /\ l[j].end \in Nat /\ Proper(l[j])
  BY ListDsc DEF Sorted
<1>2. \A k \in 1 .. W : w[k].start \in Nat /\ w[k].end \in Nat /\ Proper(w[k])
  BY ListDsc DEF Sorted
<1>3. \A k \in 1 .. W, j \in 1 .. Len(l) : j < i => l[j].end <= w[k].start
  <2> SUFFICES ASSUME NEW k \in 1 .. W, NEW j \in 1 .. Len(l), j < i PROVE l[j].end <= w[k].start
    OBVIOUS
  <2>1. i - 1 \in 1 .. Len(l) /\ l[i - 1].end <= w[k].start
    BY <1>0 DEF Fits
  <2>2. CASE j = i - 1  BY <2>1, <2>2
  <2>3. CASE j < i - 1
    <3>1. l[j].end <= l[i - 1].start
      BY <2>1, <2>3 DEF Sorted
    <3>2. l[i - 1].start < l[i - 1].end
      BY <2>1, <1>1 DEF Proper
    <3>3. QED  BY <3>1, <3>2, <2>1, <1>1, <1>2
  <2>4. QED  BY <2>2, <2>3, <1>0
<1>4. \A k \in 1 .. W, j \in 1 .. Len(l) : i < j => w[k].end <= l[j].start
  <2> SUFFICES ASSUME NEW k \in 1 .. W, NEW j \in 1 .. Len(l), i < j PROVE w[k].end <= l[j].start
    OBVIOUS
  <2>1. i + 1 \in 1 .. Len(l) /\ w[k].end <= l[i + 1].start
    BY <1>0 DEF Fits
  <2>2. CASE j = i + 1  BY <2>1, <2>2
  <2>3. CASE i + 1 < j
    <3>1. l[i + 1].end <= l[j].start
      BY <2>1, <2>3 DEF Sorted
    <3>2. l[i + 1].start < l[i + 1].end
      BY <2>1, <1>1 DEF Proper
    <3>3. QED  BY <3>1, <3>2, <2>1, <1>1, <1>2
  <2>4. QED  BY <2>2, <2>3, <1>0
<1>5. /\ \A j \in 1 .. Len(l2) : j < i => j \in 1 .. Len(l) /\ l2[j] = l[j]
      /\ \A j \in 1 .. Len(l2) :
             i <= j /\ j < i + W => j - i + 1 \in 1 .. W /\ l2[j] = w[j - i + 1]
      /\ \A j \in 1 .. Len(l2) :
             i + W <= j => j - W + 1 \in 1 .. Len(l) /\ i < j - W + 1 /\ l2[j] = l[j - W + 1]
  BY <1>0 DEF Spliced
<1> HIDE DEF W
<1>6. \A j \in 1 .. Len(l2) : Proper(l2[j])
  BY <1>5, <1>1, <1>2, <1>0
<1>7. ASSUME NEW j \in 1 .. Len(l2), NEW k \in 1 .. Len(l2), j < k
      PROVE  l2[j].end <= l2[k].start
  <2>1. CASE k < i
    BY <2>1, <1>5, <1>7, <1>0 DEF Sorted
  <2>2. CASE i <= k /\ k < i + W
    <3>1. k - i + 1 \in 1 .. W /\ l2[k] = w[k - i + 1]
      BY <1>5, <2>2, <1>0
    <3>2. CASE j < i  BY <3>1, <3>2, <1>5, <1>3, <1>0
    <3>3. CASE i <= j
      <4>1. j - i + 1 \in 1 .. W /\ l2[j] = w[j - i + 1]
        BY <1>5, <2>2, <3>3, <1>7, <1>0
      <4>2. j - i + 1 < k - i + 1
        BY <1>7, <1>0
      <4>3. w[j - i + 1].end <= w[k - i + 1].start
        BY ONLY <3>1, <4>1, <4>2, Sorted(w) DEF Sorted, W
      <4>4. QED  BY ONLY <3>1, <4>1, <4>3
    <3>4. QED  BY <3>2, <3>3, <1>0
  <2>3. CASE i + W <= k
    <3>1. k - W + 1 \in 1 .. Len(l) /\ i < k - W + 1 /\ l2[k] = l[k - W + 1]
      BY <1>5, <2>3, <1>0
    <3>2. CASE j < i
      <4>1. j \in 1 .. Len(l) /\ l2[j] = l[j]
        BY <1>5, <3>2, <1>0
      <4>2. QED  BY <3>1, <4>1, <3>2, <1>0 DEF Sorted
    <3>3. CASE i <= j /\ j < i + W
      <4>1. j - i + 1 \in 1 .. W /\ l2[j] = w[j - i + 1]
        BY <1>5, <3>3, <1>0
      <4>2. QED  BY <3>1, <4>1, <1>4
    <3>4. CASE i + W <= j
      <4>1. j - W + 1 \in 1 .. Len(l) /\ l2[j] = l[j - W + 1]
        BY <1>5, <3>4, <1>0
      <4>2. j - W + 1 < k - W + 1
        BY <1>7, <1>0
      <4>3. l[j - W + 1].end <= l[k - W + 1].start
        BY ONLY <3>1, <4>1, <4>2, Sorted(l) DEF Sorted
      <4>4. QED  BY ONLY <3>1, <4>1, <4>3
    <3>5. QED  BY <3>2, <3>3, <3>4, <1>0
  <2>4. QED  BY <2>1, <2>2, <2>3, <1>0
<1>8. QED  BY <1>6, <1>7 DEF Sorted

\* No two places of a sorted list have the same range.
LEMMA SortedApart ==
    ASSUME NEW l \in Seq(Dsc), Sorted(l)
    PROVE  /\ \A i, j \in 1 .. Len(l) : l[i] = l[j] => i = j
           /\ Elems(l) \subseteq Dsc /\ Apart(Elems(l)) /\ \A r \in Elems(l) : Proper(r)
<1>1. \A i \in 1 .. Len(l) : l[i] \in Dsc /\ Proper(l[i])
  BY DEF Sorted
<1>2. \A i, j \in 1 .. Len(l) : i < j => l[i].end <= l[j].start
  BY DEF Sorted
<1>3. ASSUME NEW i \in 1 .. Len(l), NEW j \in 1 .. Len(l), i < j PROVE l[i] # l[j]
  <2>1. l[i].end <= l[j].start /\ l[i].start < l[i].end /\ l[i] \in Dsc /\ l[j] \in Dsc
    BY <1>1, <1>2, <1>3 DEF Proper
  <2>2. QED  BY <2>1 DEF Dsc
<1>4. \A i, j \in 1 .. Len(l) : l[i] = l[j] => i = j
  BY <1>3
<1>5. Apart(Elems(l))
  <2> SUFFICES ASSUME NEW i \in 1 .. Len(l), NEW j \in 1 .. Len(l), l[i] # l[j]
               PROVE  l[i].end <= l[j].start \/ l[j].end <= l[i].start
    BY ElemsIndex DEF Apart
  <2>1. i < j \/ j < i
    OBVIOUS
  <2>2. QED  BY <2>1, <1>2
<1>6. QED  BY <1>1, <1>4, <1>5, ElemsIndex

\* The ranges of a list that ranges w took the place of range i in.
LEMMA SplicedElems ==
    ASSUME NEW l \in Seq(Dsc), Sorted(l), NEW i \in 1 .. Len(l), NEW w \in Seq(Dsc),
           NEW l2, Spliced(l, i, w, l2)
    PROVE  Swapped(Elems(l), l[i], Elems(w), Elems(l2))
<1> DEFINE W == Len(w)
<1>0. W \in Nat /\ Len(l) \in Nat /\ Len(l2) = Len(l) + W - 1 /\ l2 \in Seq(Dsc)
  BY DEF Spliced
<1>1. \A j, k \in 1 .. Len(l) : l[j] = l[k] => j = k
  BY SortedApart
<1>2. \A j \in 1 .. Len(l2) :
          l2[j] = IF j < i THEN l[j] ELSE IF j < i + W THEN w[j - i + 1] ELSE l[j - W + 1]
  BY DEF Spliced
<1>2a. /\ \A j \in 1 .. Len(l) : l[j] \in Elems(l)
       /\ \A j \in 1 .. W : w[j] \in Elems(w)
       /\ \A j \in 1 .. Len(l2) : l2[j] \in Elems(l2)
  BY <1>0, ElemsIndex
<1>2b. /\ \A x \in Elems(l) : \E j \in 1 .. Len(l) : l[j] = x
       /\ \A x \in Elems(w) : \E j \in 1 .. W : w[j] = x
       /\ \A x \in Elems(l2) : \E j \in 1 .. Len(l2) : l2[j] = x
  BY <1>0, ElemsIndex
<1> HIDE DEF W
<1>3. ASSUME NEW j \in 1 .. Len(l2) PROVE l2[j] \in (Elems(l) \ {l[i]}) \cup Elems(w)
  <2>1. CASE j < i
    <3>1. j \in 1 .. Len(l) /\ j # i /\ l2[j] = l[j]
      BY <2>1, <1>0, <1>2
    <3>2. QED  BY <3>1, <1>1, <1>2a
  <2>2. CASE i <= j /\ j < i + W
    <3>1. j - i + 1 \in 1 .. W /\ l2[j] = w[j - i + 1]
      BY <2>2, <1>0, <1>2
    <3>2. QED  BY <3>1, <1>2a
  <2>3. CASE i + W <= j
    <3>1. j - W + 1 \in 1 .. Len(l) /\ j - W + 1 # i /\ l2[j] = l[j - W + 1]
      BY <2>3, <1>0, <1>2
    <3>2. QED  BY <3>1, <1>1, <1>2a
  <2>4. QED  BY <2>1, <2>2, <2>3, <1>0
<1>4. ASSUME NEW j \in 1 .. Len(l), j # i PROVE l[j] \in Elems(l2)
  <2>1. CASE j < i
    <3>1. j \in 1 .. Len(l2) /\ l2[j] = l[j]
      BY <2>1, <1>0, <1>2
    <3>2. QED  BY <3>1, <1>2a
  <2>2. CASE i < j
    <3>1. j + W - 1 \in 1 .. Len(l2) /\ l2[j + W - 1] = l[j]
      <4>1. /\ j + W - 1 \in 1 .. Len(l2) /\ ~ (j + W - 1 < i) /\ ~ (j + W - 1 < i + W)
            /\ (j + W - 1) - W + 1 = j
        BY <2>2, <1>0
      <4>2. QED  BY <4>1, <1>2
    <3>2. QED  BY <3>1, <1>2a
  <2>3. QED  BY <2>1, <2>2, <1>4
<1>5. ASSUME NEW k \in 1 .. W PROVE w[k] \in Elems(l2)
  <2>1. i + k - 1 \in 1 .. Len(l2) /\ l2[i + k - 1] = w[k]
    BY <1>0, <1>2
  <2>2. QED  BY <2>1, <1>2a
<1>6. \A x \in Elems(l2) : x \in (Elems(l) \ {l[i]}) \cup Elems(w)
  BY <1>2b, <1>3
<1>7. \A x \in (Elems(l) \ {l[i]}) \cup Elems(w) : x \in Elems(l2)
  BY <1>2b, <1>4, <1>5
<1>8. QED  BY <1>6, <1>7 DEF Swapped, Swap

\* List l2 is l with r after position i.
PutAfter(l, i, r, l2) ==
    /\ l2 \in Seq(Dsc) /\ Len(l2) = Len(l) + 1
    /\ \A j \in 1 .. Len(l) + 1 : l2[j] = IF j <= i THEN l[j] ELSE IF j = i + 1 THEN r ELSE l[j - 1]

\* list_add after position i, position by position.
LEMMA Inserted ==
    ASSUME NEW l \in Seq(Dsc), NEW i \in 1 .. Len(l), NEW r \in Dsc
    PROVE  PutAfter(l, i, r, SubSeq(l, 1, i) \o <<r>> \o SubSeq(l, i + 1, Len(l)))
<1> DEFINE a == SubSeq(l, 1, i)
           c == SubSeq(l, i + 1, Len(l))
           b == a \o <<r>>
           l2 == b \o c
<1>1. a \in Seq(Dsc) /\ Len(a) = i /\ \A j \in 1 .. i : a[j] = l[j]
  BY SubSeqProperties
<1>2. c \in Seq(Dsc) /\ Len(c) = Len(l) - i /\ \A j \in 1 .. Len(l) - i : c[j] = l[i + j]
  BY SubSeqProperties
<1> HIDE DEF a, c
<1>3. <<r>> \in Seq(Dsc) /\ Len(<<r>>) = 1 /\ <<r>>[1] = r
  OBVIOUS
<1>4. /\ b \in Seq(Dsc) /\ Len(b) = i + 1
      /\ \A j \in 1 .. i + 1 : b[j] = IF j <= i THEN l[j] ELSE r
  BY <1>1, <1>3, ConcatProperties
<1> HIDE DEF b
<1>5. /\ l2 \in Seq(Dsc) /\ Len(l2) = Len(b) + Len(c)
      /\ \A j \in 1 .. Len(b) + Len(c) : l2[j] = IF j <= Len(b) THEN b[j] ELSE c[j - Len(b)]
  BY <1>2, <1>4, ConcatProperties
<1> HIDE DEF l2
<1>6. /\ Len(l2) = Len(l) + 1
      /\ \A j \in 1 .. Len(l) + 1 : l2[j] = IF j <= i THEN l[j] ELSE IF j = i + 1 THEN r ELSE l[j - 1]
  <2>1. Len(l) \in Nat /\ Len(b) + Len(c) = Len(l) + 1
    BY <1>2, <1>4
  <2>2. ASSUME NEW j \in 1 .. Len(l) + 1, j <= i + 1 PROVE l2[j] = IF j <= i THEN l[j] ELSE r
    BY <2>1, <2>2, <1>4, <1>5
  <2>3. ASSUME NEW j \in 1 .. Len(l) + 1, j > i + 1 PROVE l2[j] = l[j - 1]
    <3>1. j - (i + 1) \in 1 .. Len(l) - i /\ l2[j] = c[j - (i + 1)]
      BY <2>1, <2>3, <1>4, <1>5
    <3>2. i + (j - (i + 1)) = j - 1
      BY <2>3
    <3>3. QED  BY ONLY <3>1, <3>2, <1>2
  <2>4. QED  BY <2>1, <2>2, <2>3, <1>5
<1>7. PutAfter(l, i, r, l2)
  BY <1>5, <1>6 DEF PutAfter
<1>8. QED  BY <1>7 DEF l2, b, a, c

\* list_del of position i, position by position.
LEMMA Removed ==
    ASSUME NEW l \in Seq(Dsc), NEW i \in 1 .. Len(l)
    PROVE  LET l2 == SubSeq(l, 1, i - 1) \o SubSeq(l, i + 1, Len(l))
           IN  /\ l2 \in Seq(Dsc) /\ Len(l2) = Len(l) - 1
               /\ \A j \in 1 .. Len(l) - 1 : l2[j] = IF j < i THEN l[j] ELSE l[j + 1]
<1> DEFINE a == SubSeq(l, 1, i - 1)
           c == SubSeq(l, i + 1, Len(l))
           l2 == a \o c
<1>1. a \in Seq(Dsc) /\ Len(a) = i - 1 /\ \A j \in 1 .. i - 1 : a[j] = l[j]
  BY SubSeqProperties
<1>2. c \in Seq(Dsc) /\ Len(c) = Len(l) - i /\ \A j \in 1 .. Len(l) - i : c[j] = l[i + j]
  BY SubSeqProperties
<1> HIDE DEF a, c
<1>3. /\ l2 \in Seq(Dsc) /\ Len(l2) = Len(a) + Len(c)
      /\ \A j \in 1 .. Len(a) + Len(c) : l2[j] = IF j <= Len(a) THEN a[j] ELSE c[j - Len(a)]
  BY ONLY <1>1, <1>2, ConcatProperties
<1> HIDE DEF l2
<1>4. /\ Len(l2) = Len(l) - 1
      /\ \A j \in 1 .. Len(l) - 1 : l2[j] = IF j < i THEN l[j] ELSE l[j + 1]
  <2>1. Len(l) \in Nat /\ i \in Int /\ Len(a) + Len(c) = Len(l) - 1
    BY <1>1, <1>2
  <2>2. ASSUME NEW j \in 1 .. Len(l) - 1, j < i PROVE l2[j] = l[j]
    BY <2>1, <2>2, <1>1, <1>3
  <2>3. ASSUME NEW j \in 1 .. Len(l) - 1, ~ (j < i) PROVE l2[j] = l[j + 1]
    <3>1. j - (i - 1) \in 1 .. Len(l) - i /\ l2[j] = c[j - (i - 1)] /\ i + (j - (i - 1)) = j + 1
      BY <2>1, <2>3, <1>1, <1>3
    <3>2. QED  BY <3>1, <1>2
  <2>4. QED  BY <2>1, <2>2, <2>3, <1>3
<1>5. QED  BY <1>3, <1>4 DEF l2, a, c

\* A set of positions that is not empty has a first one.
LEMMA FirstIn ==
    ASSUME NEW l, NEW I \in SUBSET (1 .. Len(l)), Len(l) \in Nat, I # {}
    PROVE  (CHOOSE i \in I : \A j \in I : i <= j) \in I
<1> DEFINE R == OpToRel(<, Nat)
<1>1. IsWellFoundedOn(R, Nat)
  BY NatLessThanWellFounded
<1> HIDE DEF R
<1>2. I \subseteq Nat
  OBVIOUS
<1>3. PICK i \in I : \A j \in I : ~ (<<j, i>> \in R)
  BY <1>1, <1>2, WFMin
<1>4. \A j \in I : ~ (j < i)
  BY <1>2, <1>3 DEF R, OpToRel
<1>5. \A j \in I : i <= j
  BY <1>2, <1>4
<1>6. QED  BY <1>5

\* vma_find_kmvarsdsc finds a range after which the piece fits.
LEMMA FoundNew ==
    ASSUME NEW v, ListOK(v), NEW start, NEW n, NEW type,
           NEW i, i = vma_find_kmvarsdsc(v, start, n, type), i # 0
    PROVE  i \in 1 .. Len(v.list) /\ vma_find_kmvarsdsc_is_ok(v.list, i, start, n)
<1> DEFINE ok(j) == vma_find_kmvarsdsc_is_ok(v.list, j, start, n)
           I == {j \in DOMAIN v.list : ok(j)}
           J == {j \in DOMAIN v.list : v.list[j].type = type /\ ok(j)}
           least(K) == CHOOSE j \in K : \A k \in K : j <= k
<1>1. v.list \in Seq(Dsc) /\ DOMAIN v.list = 1 .. Len(v.list) /\ Len(v.list) \in Nat
  BY DEF ListOK, Space_t
<1>2. v.curr \in 0 .. Len(v.list)
  BY DEF ListOK
<1>3. \/ v.curr # 0 /\ ok(v.curr) /\ i = v.curr
      \/ J # {} /\ i = least(J)
      \/ I # {} /\ i = least(I)
  BY DEF vma_find_kmvarsdsc, First
<1>4. I \subseteq 1 .. Len(v.list) /\ J \subseteq 1 .. Len(v.list) /\ J \subseteq I
  BY <1>1
<1>5. i \in I
  <2>1. CASE v.curr # 0 /\ ok(v.curr) /\ i = v.curr
    BY <2>1, <1>1, <1>2
  <2> HIDE DEF I, J
  <2>2. CASE J # {} /\ i = least(J)
    BY <2>2, <1>1, <1>4, FirstIn
  <2>3. CASE I # {} /\ i = least(I)
    BY <2>3, <1>1, <1>4, FirstIn
  <2>4. QED  BY <1>3, <2>1, <2>2, <2>3
<1>6. QED  BY <1>1, <1>5

\* vma_map_find_kmvarsdsc finds a range that has the address.
LEMMA FoundMap ==
    ASSUME NEW v, ListOK(v), NEW a, NEW i, i = vma_map_find_kmvarsdsc(v, a), i # 0
    PROVE  i \in 1 .. Len(v.list) /\ v.list[i].start <= a /\ a < v.list[i].end
<1> DEFINE has(j) == v.list[j].start <= a /\ a < v.list[j].end
           I == {j \in DOMAIN v.list : has(j)}
<1>1. v.list \in Seq(Dsc) /\ DOMAIN v.list = 1 .. Len(v.list) /\ Len(v.list) \in Nat
  BY DEF ListOK, Space_t
<1>2. v.curr \in 0 .. Len(v.list)
  BY DEF ListOK
<1>3. \/ v.curr # 0 /\ has(v.curr) /\ i = v.curr
      \/ I # {} /\ i = CHOOSE j \in I : \A k \in I : j <= k
  BY DEF vma_map_find_kmvarsdsc, First
<1>4. I \subseteq 1 .. Len(v.list)
  BY <1>1
<1>5. CASE v.curr # 0 /\ has(v.curr) /\ i = v.curr
  BY <1>5, <1>2
<1>6. CASE I # {} /\ i = CHOOSE j \in I : \A k \in I : j <= k
  <2>1. i \in I
    <3> HIDE DEF I
    <3>1. QED  BY <1>6, <1>1, <1>4, FirstIn
  <2>2. QED  BY <2>1, <1>1
<1>7. QED  BY <1>3, <1>5, <1>6

\* vma_del_find_kmvarsdsc finds a range that has the whole piece.
LEMMA FoundDel ==
    ASSUME NEW v, ListOK(v), NEW start, NEW n, NEW i, i = vma_del_find_kmvarsdsc(v, start, n), i # 0
    PROVE  i \in 1 .. Len(v.list) /\ v.list[i].start <= start /\ start + n <= v.list[i].end
<1> DEFINE has(j) == v.list[j].start <= start /\ start + n <= v.list[j].end
           I == {j \in DOMAIN v.list : has(j)}
<1>1. v.list \in Seq(Dsc) /\ DOMAIN v.list = 1 .. Len(v.list) /\ Len(v.list) \in Nat
  BY DEF ListOK, Space_t
<1>2. v.curr \in 0 .. Len(v.list)
  BY DEF ListOK
<1>3. \/ v.curr # 0 /\ has(v.curr) /\ i = v.curr
      \/ I # {} /\ i = CHOOSE j \in I : \A k \in I : j <= k
  BY DEF vma_del_find_kmvarsdsc, First
<1>4. I \subseteq 1 .. Len(v.list)
  BY <1>1
<1>5. CASE v.curr # 0 /\ has(v.curr) /\ i = v.curr
  BY <1>5, <1>2
<1>6. CASE I # {} /\ i = CHOOSE j \in I : \A k \in I : j <= k
  <2>1. i \in I
    <3> HIDE DEF I
    <3>1. QED  BY <1>6, <1>1, <1>4, FirstIn
  <2>2. QED  BY <2>1, <1>1
<1>7. QED  BY <1>3, <1>5, <1>6

\* One range in the place of range i.
LEMMA Place1 ==
    ASSUME NEW l \in Seq(Dsc), Sorted(l), NEW i \in 1 .. Len(l), NEW q \in Dsc, Proper(q),
           i > 1 => l[i - 1].end <= q.start, i < Len(l) => q.end <= l[i + 1].start,
           NEW l2, l2 = [l EXCEPT ![i] = q]
    PROVE  /\ l2 \in Seq(Dsc) /\ Len(l2) = Len(l) /\ Sorted(l2)
           /\ Swapped(Elems(l), l[i], {q}, Elems(l2))
<1> DEFINE w == <<q>>
<1>1. w \in Seq(Dsc) /\ Len(w) = 1 /\ w[1] = q /\ Elems(w) = {q}
  BY DEF Elems
<1> HIDE DEF w
<1>2. l2 \in Seq(Dsc) /\ Len(l2) = Len(l) /\ \A j \in 1 .. Len(l) : l2[j] = IF j = i THEN q ELSE l[j]
  BY ExceptSeq
<1>3. Sorted(w) /\ Fits(l, i, w)
  BY <1>1 DEF Sorted, Fits
<1>4. Spliced(l, i, w, l2)
  BY <1>1, <1>2 DEF Spliced
<1>5. Sorted(l2)
  BY <1>1, <1>3, <1>4, SplicedSorted
<1>6. Swapped(Elems(l), l[i], Elems(w), Elems(l2))
  BY <1>1, <1>4, SplicedElems
<1>7. QED  BY <1>1, <1>2, <1>5, <1>6

\* List l2 is l with p and q in the place of range i.
TwoFor(l, i, p, q, l2) ==
    /\ l2 \in Seq(Dsc) /\ Len(l2) = Len(l) + 1
    /\ \A j \in 1 .. Len(l) + 1 :
           l2[j] = IF j < i THEN l[j] ELSE IF j = i THEN p ELSE IF j = i + 1 THEN q ELSE l[j - 1]

\* Two ranges in the place of range i.
LEMMA Place2 ==
    ASSUME NEW l \in Seq(Dsc), Sorted(l), NEW i \in 1 .. Len(l),
           NEW p \in Dsc, Proper(p), NEW q \in Dsc, Proper(q), p.end <= q.start,
           i > 1 => l[i - 1].end <= p.start, i < Len(l) => q.end <= l[i + 1].start,
           NEW l2, TwoFor(l, i, p, q, l2)
    PROVE  Sorted(l2) /\ Swapped(Elems(l), l[i], {p, q}, Elems(l2))
<1> DEFINE w == <<p, q>>
<1>1. w \in Seq(Dsc) /\ Len(w) = 2 /\ w[1] = p /\ w[2] = q
  OBVIOUS
<1>2. Elems(w) = {p, q}
  BY DEF Elems
<1> HIDE DEF w
<1>3. p.start < p.end /\ q.start < q.end /\ {p.start, p.end, q.start, q.end} \subseteq Nat
  BY DEF Proper, Dsc
<1>4. Sorted(w)
  BY <1>1 DEF Sorted
<1>5. Fits(l, i, w)
  <2>1. \A j \in 1 .. Len(l) : l[j].start \in Nat /\ l[j].end \in Nat
    BY ListDsc
  <2>2. i > 1 => l[i - 1].end <= p.start /\ l[i - 1].end <= q.start
    BY <2>1, <1>3
  <2>3. i < Len(l) => p.end <= l[i + 1].start /\ q.end <= l[i + 1].start
    BY <2>1, <1>3
  <2>4. \A k \in 1 .. Len(w) : w[k] = p \/ w[k] = q
    BY <1>1
  <2>5. QED  BY <2>2, <2>3, <2>4 DEF Fits
<1>6. Spliced(l, i, w, l2)
  BY <1>1 DEF Spliced, TwoFor
<1>7. Sorted(l2)
  BY <1>1, <1>4, <1>5, <1>6, SplicedSorted
<1>8. Swapped(Elems(l), l[i], Elems(w), Elems(l2))
  BY <1>1, <1>6, SplicedElems
<1>9. QED  BY <1>2, <1>7, <1>8

\* Nothing in the place of range i.
LEMMA Place0 ==
    ASSUME NEW l \in Seq(Dsc), Sorted(l), NEW i \in 1 .. Len(l),
           NEW l2 \in Seq(Dsc), Len(l2) = Len(l) - 1,
           \A j \in 1 .. Len(l) - 1 : l2[j] = IF j < i THEN l[j] ELSE l[j + 1]
    PROVE  Sorted(l2) /\ Swapped(Elems(l), l[i], {}, Elems(l2))
<1> DEFINE w == <<>>
<1>1. w \in Seq(Dsc) /\ Len(w) = 0
  OBVIOUS
<1>1a. Elems(w) = {}
  BY DEF Elems
<1> HIDE DEF w
<1>2. Sorted(w) /\ Fits(l, i, w)
  BY <1>1 DEF Sorted, Fits
<1>3. Spliced(l, i, w, l2)
  <2>1. Len(l) \in Nat
    OBVIOUS
  <2>2. \A j \in 1 .. Len(l2) : l2[j] = IF j < i THEN l[j] ELSE l[j - Len(w) + 1]
    BY <1>1, <2>1
  <2>3. QED  BY <1>1, <2>1, <2>2 DEF Spliced
<1>4. Sorted(l2)
  BY <1>1, <1>2, <1>3, SplicedSorted
<1>5. Swapped(Elems(l), l[i], Elems(w), Elems(l2))
  BY <1>1, <1>3, SplicedElems
<1>6. QED  BY <1>1a, <1>4, <1>5

\* The fields of an address space after list_add and list_del.
LEMMA ListAddIs ==
    ASSUME NEW v \in Space_t, v.end = Len(v.list), NEW i \in 1 .. Len(v.list), NEW r
    PROVE  ListAdd(v, i, r) = [list |-> SubSeq(v.list, 1, i) \o <<r>> \o SubSeq(v.list, i + 1, Len(v.list)),
                               curr |-> i + 1, end |-> Len(v.list) + 1, nr |-> v.nr]
<1> DEFINE l2 == SubSeq(v.list, 1, i) \o <<r>> \o SubSeq(v.list, i + 1, Len(v.list))
<1>1. ListAdd(v, i, r) =
          [v EXCEPT !.list = l2, !.curr = i + 1, !.end = IF i = Len(v.list) THEN i + 1 ELSE @ + 1]
  BY DEF ListAdd
<1> HIDE DEF l2
<1>2. ListAdd(v, i, r) = [list |-> l2, curr |-> i + 1, end |-> Len(v.list) + 1, nr |-> v.nr]
  BY <1>1 DEF Space_t
<1>3. QED  BY <1>2 DEF l2

LEMMA ListDelIs ==
    ASSUME NEW v \in Space_t, v.end = Len(v.list), NEW i \in 1 .. Len(v.list)
    PROVE  ListDel(v, i) = [list |-> SubSeq(v.list, 1, i - 1) \o SubSeq(v.list, i + 1, Len(v.list)),
                            curr |-> IF i = Len(v.list) THEN i - 1 ELSE i, end |-> Len(v.list) - 1, nr |-> v.nr]
<1> DEFINE l2 == SubSeq(v.list, 1, i - 1) \o SubSeq(v.list, i + 1, Len(v.list))
           c == IF i = Len(v.list) THEN i - 1 ELSE i
<1>1. ListDel(v, i) = [v EXCEPT !.list = l2, !.curr = c, !.end = IF i = Len(v.list) THEN i - 1 ELSE @ - 1]
  BY DEF ListDel
<1> HIDE DEF l2, c
<1>2. ListDel(v, i) = [list |-> l2, curr |-> c, end |-> Len(v.list) - 1, nr |-> v.nr]
  BY <1>1 DEF Space_t
<1>3. QED  BY <1>2 DEF l2, c

\* An address space whose list is sorted, with its pointers on the list.
LEMMA MakeList ==
    ASSUME NEW l \in Seq(Dsc), Sorted(l), NEW c \in 0 .. Len(l), NEW k \in Nat, NEW e, e = Len(l)
    PROVE  ListOK([list |-> l, curr |-> c, end |-> e, nr |-> k])
<1>1. c \in Nat /\ e \in Nat
  OBVIOUS
<1>2. QED  BY <1>1 DEF ListOK, Space_t

\* A step that changes the list of one process.
LEMMA ListStep ==
    ASSUME RangesInv, NEW m \in Mms, NEW v, ListOK(v), vs' = [vs EXCEPT ![m] = v]
    PROVE  RangesInv' /\ Rs' = [Rs EXCEPT ![m] = Elems(v.list)]
<1>1. vs' \in [Mms -> Space_t] /\ vs'[m] = v /\ \A k \in Mms \ {m} : vs'[k] = vs[k]
  BY DEF RangesInv, ListOK
<1>2. RangesInv'
  BY <1>1 DEF RangesInv
<1>3. Rs' = [Rs EXCEPT ![m] = Elems(v.list)]
  <2>1. Ranges(m)' = Elems(v.list)
    BY <1>1 DEF Ranges, Elems
  <2>2. \A k \in Mms \ {m} : Ranges(k)' = Ranges(k)
    BY <1>1 DEF Ranges
  <2>3. QED  BY <2>1, <2>2 DEF Rs
<1>4. QED  BY <1>2, <1>3

-----------------------------------------------------------------------------
(* Pieces that are given out.                                               *)

\* Pages and addresses.
LEMMA EvenSum ==
    ASSUME NEW a \in Nat, NEW b \in Nat, a % PGSZ = 0, b % PGSZ = 0
    PROVE  (a + b) % PGSZ = 0
BY DEF PGSZ

LEMMA SamePage ==
    ASSUME NEW a \in Nat, NEW b \in Nat, Page(a) = Page(b), NEW s \in Nat, s % PGSZ = 0
    PROVE  s <= a <=> s <= b
BY DEF PGSZ, Page

\* Set R2 of ranges is R with a piece of n half pages at address at, which a
\* range grew by or which is a range of its own.
Given(R, R2, at, n) ==
    /\ at \in Nat /\ at % PGSZ = 0 /\ PGSZ <= at /\ at + n <= END
    /\ \A r \in R : r.end <= at \/ at + n <= r.start
    /\ \/ \E r \in R : r.end = at /\ R2 = Swap(R, r, {[r EXCEPT !.end = at + n]})
       \/ \E q \in Dsc : q.start = at /\ q.end = at + n /\ q.box = NULL /\ R2 = R \cup {q}

\* vma_new_vadrs_core gives out addresses that no range has.
LEMMA NewPiece ==
    ASSUME RangesInv, NEW m \in Mms, NEW start \in Nat \cup {NULL}, start # NULL => start % PGSZ = 0,
           NEW n \in Nat, n > 0, n % PGSZ = 0, NEW type \in Types, vma_new_vadrs_core(m, start, n, type)
    PROVE  RangesInv' /\ \E R2, at : Rs' = [Rs EXCEPT ![m] = R2] /\ Given(Rs[m], R2, at, n)
<1> DEFINE v == vs[m]
           l == v.list
           i == vma_find_kmvarsdsc(v, start, n, type)
           r == l[i]
           at == IF start = NULL THEN r.end ELSE start
           grow == at = r.end /\ r.type = type
<1>1. ListOK(v) /\ v \in Space_t /\ l \in Seq(Dsc) /\ Sorted(l) /\ Rs[m] = Elems(l) /\ Len(l) \in Nat
  BY DEF RangesInv, ListOK, Space_t, Rs, Ranges, Elems
<1>2. /\ i # 0
      /\ \/ grow /\ vs' = [vs EXCEPT ![m].list[i].end = @ + n, ![m].curr = i]
         \/ vs' = [vs EXCEPT ![m] = ListAdd(@, i, kmvarsdsc_t_init(at, at + n, type))]
  BY DEF vma_new_vadrs_core
<1>3. i \in 1 .. Len(l) /\ vma_find_kmvarsdsc_is_ok(l, i, start, n)
  BY <1>1, <1>2, FoundNew
<1> HIDE DEF v, l, i
<1>4. \A j \in 1 .. Len(l) :
          l[j] \in Dsc /\ l[j].start \in Nat /\ l[j].end \in Nat /\ l[j].start < l[j].end /\ l[j].end <= END
          /\ (l[j].end % PGSZ = 0 \/ l[j].end = END) /\ PGSZ <= l[j].start
  BY <1>1, ListDsc DEF Sorted, Proper
<1>5. END \in Nat /\ NULL \notin Nat /\ PGSZ \in Nat
  BY VmaAssumption DEF PGSZ
<1>6. at \in Nat /\ r.end <= at /\ (i = Len(l) => at + n < END) /\ (i < Len(l) => at + n <= l[i + 1].start)
  BY <1>3, <1>4, <1>5 DEF vma_find_kmvarsdsc_is_ok
<1>7. at + n < END
  <2>1. CASE i = Len(l)  BY <2>1, <1>6
  <2>2. CASE i < Len(l)
    <3>1. i + 1 \in 1 .. Len(l)
      BY <2>2, <1>3, <1>1
    <3>2. /\ l[i + 1].start \in Nat /\ l[i + 1].end \in Nat
          /\ l[i + 1].start < l[i + 1].end /\ l[i + 1].end <= END
      BY ONLY <3>1, <1>4
    <3>3. at + n <= l[i + 1].start
      BY <2>2, <1>6
    <3>4. QED  BY ONLY <3>2, <3>3, <1>5, <1>6, n \in Nat
  <2>3. QED  BY <2>1, <2>2, <1>3, <1>1
<1>8. at % PGSZ = 0 /\ PGSZ <= at
  BY <1>3, <1>4, <1>5, <1>6, <1>7 DEF PGSZ
<1>8a. r = l[i] /\ (grow => r.end = at)
  OBVIOUS
<1> HIDE DEF r, at, grow
<1>9. \A j \in 1 .. Len(l) : l[j].end <= at \/ at + n <= l[j].start
  <2> SUFFICES ASSUME NEW j \in 1 .. Len(l) PROVE l[j].end <= at \/ at + n <= l[j].start
    OBVIOUS
  <2>1. CASE j = i  BY <2>1, <1>6, <1>8a
  <2>2. CASE j < i
    <3>1. l[j].end <= l[i].start
      BY <2>2, <1>1, <1>3 DEF Sorted
    <3>2. l[i].start < l[i].end /\ l[i].end <= at
      BY <1>3, <1>4, <1>6, <1>8a
    <3>3. QED  BY <3>1, <3>2, <1>3, <1>4, <1>6
  <2>3. CASE j = i + 1  BY <2>3, <1>1, <1>3, <1>6
  <2>4. CASE i + 1 < j
    <3>1. i + 1 \in 1 .. Len(l) /\ i < Len(l)
      BY <2>4, <1>1, <1>3
    <3>2. l[i + 1].end <= l[j].start
      BY <2>4, <3>1, <1>1 DEF Sorted
    <3>3. at + n <= l[i + 1].start /\ l[i + 1].start < l[i + 1].end
      BY <3>1, <1>4, <1>6
    <3>4. QED  BY <3>1, <3>2, <3>3, <1>4, <1>6
  <2>5. QED  BY <2>1, <2>2, <2>3, <2>4, <1>3, <1>1
<1>10. (at + n) % PGSZ = 0 /\ at + n \in Nat
  BY <1>6, <1>8, EvenSum
<1>11. v.end = Len(l) /\ v.nr \in Nat
  BY <1>1 DEF Space_t, ListOK, l
<1>12. Proper(r) /\ r \in Dsc /\ r \in Elems(l)
  BY <1>1, <1>3, <1>4, <1>8a, ElemsIndex DEF Sorted
<1>13. i > 1 => l[i - 1].end <= r.start
  BY <1>1, <1>3, <1>8a DEF Sorted
<1>14. CASE grow /\ vs' = [vs EXCEPT ![m].list[i].end = @ + n, ![m].curr = i]
  <2> DEFINE q == [r EXCEPT !.end = at + n]
             l2 == [l EXCEPT ![i] = q]
             v2 == [list |-> l2, curr |-> i, end |-> v.end, nr |-> v.nr]
  <2>1. q \in Dsc /\ q.start = r.start /\ q.end = at + n
    BY <1>10, <1>12 DEF Dsc
  <2>2. Proper(q)
    BY <2>1, <1>5, <1>6, <1>7, <1>10, <1>12 DEF Proper, Dsc
  <2>3. vs' = [vs EXCEPT ![m] = v2]
    <3>1. r.end = at
      BY <1>8a, <1>14
    <3>2. v = [list |-> l, curr |-> v.curr, end |-> v.end, nr |-> v.nr]
      BY <1>1 DEF Space_t, l
    <3>3. vs'[m] = v2
      BY <1>14, <1>8a, <3>1, <3>2 DEF RangesInv, v, l
    <3>4. QED  BY <1>14, <3>3 DEF RangesInv
  <2> HIDE DEF q, l2
  <2>4. /\ l2 \in Seq(Dsc) /\ Len(l2) = Len(l) /\ Sorted(l2)
        /\ Swapped(Elems(l), l[i], {q}, Elems(l2))
    <3>1. (i > 1 => l[i - 1].end <= q.start) /\ (i < Len(l) => q.end <= l[i + 1].start)
      BY <2>1, <1>6, <1>13
    <3>2. QED  BY <2>1, <2>2, <3>1, <1>1, <1>3, Place1 DEF l2
  <2>5. ListOK(v2) /\ v2.list = l2
    <3>1. i \in 0 .. Len(l2) /\ v.end = Len(l2)
      BY <2>4, <1>3, <1>11, <1>1
    <3>2. QED  BY <2>4, <3>1, <1>11, MakeList
  <2> HIDE DEF v2
  <2>6. RangesInv' /\ Rs' = [Rs EXCEPT ![m] = Elems(l2)]
    BY <2>3, <2>5, ListStep
  <2>7. Given(Elems(l), Elems(l2), at, n)
    <3>1. r.end = at
      BY <1>8a, <1>14
    <3>2. \A s \in Elems(l) : s.end <= at \/ at + n <= s.start
      BY <1>1, <1>9, ElemsIndex
    <3>3. at + n <= END
      BY <1>5, <1>7, <1>10
    <3>4. QED  BY <2>4, <3>1, <3>2, <3>3, <1>6, <1>8, <1>8a, <1>12 DEF Given, Swapped, q
  <2>8. QED  BY <2>6, <2>7, <1>1
<1>15. CASE vs' = [vs EXCEPT ![m] = ListAdd(@, i, kmvarsdsc_t_init(at, at + n, type))]
  <2> DEFINE q == kmvarsdsc_t_init(at, at + n, type)
             v2 == ListAdd(v, i, q)
             l2 == SubSeq(l, 1, i) \o <<q>> \o SubSeq(l, i + 1, Len(l))
  <2>1. q \in Dsc /\ q.start = at /\ q.end = at + n /\ q.box = NULL
    BY <1>6, <1>10 DEF Dsc, kmvarsdsc_t_init
  <2>2. Proper(q)
    BY <2>1, <1>5, <1>6, <1>7, <1>8, <1>10 DEF Proper
  <2>3. vs' = [vs EXCEPT ![m] = v2]
    BY <1>15 DEF v
  <2> HIDE DEF q
  <2>4. v2 = [list |-> l2, curr |-> i + 1, end |-> Len(l) + 1, nr |-> v.nr]
    BY <1>1, <1>3, <1>11, ListAddIs DEF l
  <2>4a. PutAfter(l, i, q, l2)
    <3>1. l \in Seq(Dsc) /\ i \in 1 .. Len(l) /\ q \in Dsc
      BY <2>1, <1>1, <1>3
    <3>2. QED  BY ONLY <3>1, Inserted
  <2> HIDE DEF v2, l2
  <2>5. /\ l2 \in Seq(Dsc) /\ Len(l2) = Len(l) + 1
        /\ \A j \in 1 .. Len(l) + 1 : l2[j] = IF j <= i THEN l[j] ELSE IF j = i + 1 THEN q ELSE l[j - 1]
    BY ONLY <2>4a DEF PutAfter
  <2>6. \A j \in 1 .. Len(l) + 1 :
            l2[j] = IF j < i THEN l[j] ELSE IF j = i THEN r ELSE IF j = i + 1 THEN q ELSE l[j - 1]
    BY <2>5, <1>3, <1>1, <1>8a
  <2>7. Sorted(l2) /\ Swapped(Elems(l), l[i], {r, q}, Elems(l2))
    <3>1. r.end <= q.start /\ (i > 1 => l[i - 1].end <= r.start) /\ (i < Len(l) => q.end <= l[i + 1].start)
      BY <2>1, <1>6, <1>13
    <3>2. TwoFor(l, i, r, q, l2)
      BY ONLY <2>5, <2>6 DEF TwoFor
    <3>3. QED  BY ONLY <2>1, <2>2, <3>1, <3>2, <1>1, <1>3, <1>12, Place2
  <2>8. ListOK(v2) /\ v2.list = l2
    <3>1. i + 1 \in 0 .. Len(l2) /\ Len(l) + 1 = Len(l2)
      BY <2>5, <1>3, <1>1
    <3>2. QED  BY <2>4, <2>5, <2>7, <3>1, <1>11, MakeList
  <2>9. RangesInv' /\ Rs' = [Rs EXCEPT ![m] = Elems(l2)]
    BY <2>3, <2>8, ListStep
  <2>10. Given(Elems(l), Elems(l2), at, n)
    <3>1. \A s \in Elems(l) : s.end <= at \/ at + n <= s.start
      BY <1>1, <1>9, ElemsIndex
    <3>2. Elems(l2) = Elems(l) \cup {q}
      BY <2>7, <1>8a, <1>12 DEF Swapped, Swap
    <3>3. at + n <= END
      BY <1>5, <1>7, <1>10
    <3>4. QED  BY <2>1, <3>1, <3>2, <3>3, <1>6, <1>8 DEF Given
  <2>11. QED  BY <2>9, <2>10, <1>1
<1>16. QED  BY <1>2, <1>14, <1>15

-----------------------------------------------------------------------------
(* Pieces that come back.                                                   *)

\* Ranges W are what is left of range r without the n half pages at start.
Rest(r, start, n, W) ==
    /\ \A w \in W : w \in Dsc /\ w.box = r.box /\ w.start < w.end /\ r.start <= w.start /\ w.end <= r.end
    /\ \A a \in Nat : (\E w \in W : w.start <= a /\ a < w.end)
                      <=> r.start <= a /\ a < r.end /\ ~ (start <= a /\ a < start + n)

\* The ranges of m without that piece of r, with what became of the box of r.
Back(m, start, n, r, W) ==
    LET u == vma_del_unmapping_phyadrs(m, r.box, start, n)
        p == knl_put_kvmemcbox(r.box, u.box)
    IN  /\ Rs' = [Rs EXCEPT ![m] = Swap(Rs[m], r, W)]
        /\ r \in Rs[m] /\ r.start <= start /\ start + n <= r.end
        /\ Rest(r, start, n, W)
        /\ \/ W = {} /\ box' = p.box /\ mgr' = p.mgr
           \/ (\E q : W = {q}) /\ box' = u.box /\ mgr' = mgr
           \/ /\ \E q, s : q # s /\ W = {q, s}
              /\ box' = IF r.box = NULL THEN box ELSE [u.box EXCEPT ![r.box].cont = @ + 1]
              /\ mgr' = mgr
        /\ map' = u.map /\ ufree' = u.ufree /\ lost' = lost

\* Counts are naturals.
LEMMA Modulo ==
    ASSUME NEW k \in Nat
    PROVE  (k + WIDTH - 1) % WIDTH \in Nat /\ (k + 1) % WIDTH \in Nat
BY VmaAssumption

\* The three ways in which something is left of a range.
LEMMA RestIs ==
    ASSUME NEW r \in Dsc, Proper(r), NEW start \in Nat, start % PGSZ = 0, NEW n \in Nat, n > 0, n % PGSZ = 0,
           r.start <= start, start + n <= r.end
    PROVE  LET q == [r EXCEPT !.end = start]
               s == [r EXCEPT !.start = start + n]
           IN  /\ r.start = start /\ r.end = start + n => Rest(r, start, n, {})
               /\ r.start = start /\ r.end > start + n => s \in Dsc /\ Proper(s) /\ Rest(r, start, n, {s})
               /\ r.start < start /\ r.end = start + n => q \in Dsc /\ Proper(q) /\ Rest(r, start, n, {q})
               /\ r.start < start /\ r.end > start + n =>
                      /\ q \in Dsc /\ Proper(q) /\ s \in Dsc /\ Proper(s)
                      /\ q # s /\ Rest(r, start, n, {q, s})
<1> DEFINE q == [r EXCEPT !.end = start]
           s == [r EXCEPT !.start = start + n]
<1>1. r.start \in Nat /\ r.end \in Nat /\ r.start < r.end /\ END \in Nat /\ PGSZ \in Nat
  BY VmaAssumption DEF Dsc, Proper, PGSZ
<1>2. (start + n) % PGSZ = 0 /\ start + n \in Nat
  BY EvenSum
<1>3. q \in Dsc /\ q.start = r.start /\ q.end = start /\ q.box = r.box
  BY DEF Dsc
<1>4. s \in Dsc /\ s.start = start + n /\ s.end = r.end /\ s.box = r.box
  BY <1>2 DEF Dsc
<1> HIDE DEF q, s
<1>5. r.start < start => Proper(q)
  BY <1>1, <1>3 DEF Proper
<1>6. r.end > start + n => Proper(s)
  BY <1>1, <1>2, <1>4 DEF Proper
<1>7. r.start = start /\ r.end = start + n => Rest(r, start, n, {})
  BY <1>1 DEF Rest
<1>8. r.start = start /\ r.end > start + n => Rest(r, start, n, {s})
  BY <1>1, <1>2, <1>4 DEF Rest
<1>9. r.start < start /\ r.end = start + n => Rest(r, start, n, {q})
  BY <1>1, <1>3 DEF Rest
<1>10. r.start < start /\ r.end > start + n => q # s /\ Rest(r, start, n, {q, s})
  BY <1>1, <1>2, <1>3, <1>4 DEF Rest
<1>11. QED  BY <1>3, <1>4, <1>5, <1>6, <1>7, <1>8, <1>9, <1>10 DEF q, s

\* A step that puts range w in place i of the list of one process.
LEMMA PutRange ==
    ASSUME RangesInv, NEW m \in Mms, NEW i, NEW w, vs' = [vs EXCEPT ![m].list[i] = w]
    PROVE  vs' = [vs EXCEPT ![m] = [list |-> [vs[m].list EXCEPT ![i] = w], curr |-> vs[m].curr,
                                    end |-> vs[m].end, nr |-> vs[m].nr]]
<1> DEFINE l2 == [vs[m].list EXCEPT ![i] = w]
           v2 == [vs[m] EXCEPT !.list = l2]
<1>1. vs' = [vs EXCEPT ![m] = v2]
  OBVIOUS
<1> HIDE DEF l2
<1>2. v2 = [list |-> l2, curr |-> vs[m].curr, end |-> vs[m].end, nr |-> vs[m].nr]
  BY DEF RangesInv, Space_t
<1>3. QED  BY <1>1, <1>2 DEF l2

\* vma_del_vadrs_core takes a piece out of one range.
LEMMA OldPiece ==
    ASSUME RangesInv, NEW m \in Mms, NEW start \in Nat, start % PGSZ = 0,
           NEW n \in Nat, n > 0, n % PGSZ = 0, vma_del_vadrs_core(m, start, n)
    PROVE  RangesInv' /\ \E r, W : Back(m, start, n, r, W)
<1> DEFINE v == vs[m]
           l == v.list
           i == vma_del_find_kmvarsdsc(v, start, n)
           r == l[i]
           u == vma_del_unmapping_phyadrs(m, r.box, start, n)
           p == knl_put_kvmemcbox(r.box, u.box)
           q == [r EXCEPT !.end = start]
           s == [r EXCEPT !.start = start + n]
<1>1. ListOK(v) /\ v \in Space_t /\ l \in Seq(Dsc) /\ Sorted(l) /\ Rs[m] = Elems(l) /\ Len(l) \in Nat
  BY DEF RangesInv, ListOK, Space_t, Rs, Ranges, Elems
<1>2. /\ i # 0 /\ map' = u.map /\ ufree' = u.ufree /\ lost' = lost
      /\ \/ /\ r.start = start /\ r.end = start + n
            /\ vs' = [vs EXCEPT ![m] = [ListDel(v, i) EXCEPT !.nr = (v.nr + WIDTH - 1) % WIDTH]]
            /\ box' = p.box /\ mgr' = p.mgr
         \/ /\ r.start = start /\ r.end > start + n
            /\ vs' = [vs EXCEPT ![m].list[i].start = start + n] /\ box' = u.box /\ mgr' = mgr
         \/ /\ r.start < start /\ r.end = start + n
            /\ vs' = [vs EXCEPT ![m].list[i].end = start] /\ box' = u.box /\ mgr' = mgr
         \/ /\ r.start < start /\ r.end > start + n
            /\ vs' = [vs EXCEPT ![m] = [ListAdd(v, i, s) EXCEPT !.list[i].end = start, !.nr = (v.nr + 1) % WIDTH]]
            /\ box' = IF r.box = NULL THEN box ELSE [u.box EXCEPT ![r.box].cont = @ + 1]
            /\ mgr' = mgr
  BY DEF vma_del_vadrs_core
<1>3. i \in 1 .. Len(l) /\ r.start <= start /\ start + n <= r.end
  BY <1>1, <1>2, FoundDel
<1> HIDE DEF v, l, i
<1>4. r = l[i] /\ r \in Dsc /\ Proper(r) /\ r \in Elems(l) /\ r.start \in Nat /\ r.end \in Nat /\ r.start < r.end
  BY <1>1, <1>3, ListDsc, ElemsIndex DEF Sorted, Proper
<1>5. /\ s.start = start + n /\ s.end = r.end /\ q.start = r.start /\ q.end = start
      /\ s = [l[i] EXCEPT !.start = start + n] /\ q = [l[i] EXCEPT !.end = start]
  BY <1>4 DEF Dsc
<1> HIDE DEF r, u, p
<1>6. /\ r.start = start /\ r.end = start + n => Rest(r, start, n, {})
      /\ r.start = start /\ r.end > start + n => s \in Dsc /\ Proper(s) /\ Rest(r, start, n, {s})
      /\ r.start < start /\ r.end = start + n => q \in Dsc /\ Proper(q) /\ Rest(r, start, n, {q})
      /\ r.start < start /\ r.end > start + n =>
             q \in Dsc /\ Proper(q) /\ s \in Dsc /\ Proper(s) /\ q # s /\ Rest(r, start, n, {q, s})
  BY <1>3, <1>4, RestIs
<1> HIDE DEF q, s
<1>7. (i > 1 => l[i - 1].end <= r.start /\ l[i - 1].end \in Nat)
      /\ (i < Len(l) => r.end <= l[i + 1].start /\ l[i + 1].start \in Nat)
  <2>1. \A j \in 1 .. Len(l) : l[j].start \in Nat /\ l[j].end \in Nat
    BY <1>1, ListDsc
  <2>2. QED  BY <2>1, <1>1, <1>3, <1>4 DEF Sorted
<1>9. v.end = Len(l) /\ v.nr \in Nat /\ v.curr \in 0 .. Len(l) /\ v.list = l /\ vs[m] = v
  BY <1>1 DEF Space_t, ListOK, l, v
<1>10. ASSUME NEW l2, NEW v2, ListOK(v2), v2.list = l2, vs' = [vs EXCEPT ![m] = v2], NEW W,
              Swapped(Elems(l), r, W, Elems(l2))
       PROVE  RangesInv' /\ Rs' = [Rs EXCEPT ![m] = Swap(Rs[m], r, W)]
  BY <1>10, <1>1, ListStep DEF Swapped
<1>11. CASE /\ r.start = start /\ r.end = start + n
            /\ vs' = [vs EXCEPT ![m] = [ListDel(v, i) EXCEPT !.nr = (v.nr + WIDTH - 1) % WIDTH]]
            /\ box' = p.box /\ mgr' = p.mgr
  <2> DEFINE l2 == SubSeq(l, 1, i - 1) \o SubSeq(l, i + 1, Len(l))
             c == IF i = Len(l) THEN i - 1 ELSE i
             k == (v.nr + WIDTH - 1) % WIDTH
             v2 == [list |-> l2, curr |-> c, end |-> Len(l) - 1, nr |-> k]
  <2>1. ListDel(v, i) = [list |-> l2, curr |-> c, end |-> Len(l) - 1, nr |-> v.nr]
    BY <1>1, <1>3, <1>9, ListDelIs
  <2>2. /\ l2 \in Seq(Dsc) /\ Len(l2) = Len(l) - 1
        /\ \A j \in 1 .. Len(l) - 1 : l2[j] = IF j < i THEN l[j] ELSE l[j + 1]
    BY <1>1, <1>3, Removed
  <2> HIDE DEF l2
  <2>3. vs' = [vs EXCEPT ![m] = v2]
    <3> HIDE DEF c
    <3>1. [ListDel(v, i) EXCEPT !.nr = (v.nr + WIDTH - 1) % WIDTH] = v2
      BY <2>1
    <3>2. QED  BY <3>1, <1>11
  <2>4. Sorted(l2) /\ Swapped(Elems(l), r, {}, Elems(l2))
    BY <2>2, <1>1, <1>3, <1>4, Place0
  <2>5. c \in 0 .. Len(l2)
    BY <2>2, <1>1, <1>3
  <2>5a. k \in Nat
    BY <1>9, Modulo
  <2> HIDE DEF c, k
  <2>6. ListOK(v2) /\ v2.list = l2
    BY ONLY <2>2, <2>4, <2>5, <2>5a, MakeList
  <2> HIDE DEF v2
  <2>7. RangesInv' /\ Rs' = [Rs EXCEPT ![m] = Swap(Rs[m], r, {})]
    BY <2>3, <2>4, <2>6, <1>10
  <2>8. Back(m, start, n, r, {})
    <3>1. r \in Rs[m] /\ Rest(r, start, n, {})
      BY <1>1, <1>4, <1>6, <1>11
    <3>2. QED  BY ONLY <3>1, <2>7, <1>2, <1>3, <1>11 DEF Back, u, p
  <2>9. QED  BY <2>7, <2>8
<1>12. ASSUME NEW w \in Dsc, Proper(w), w.start >= r.start, w.end <= r.end, Rest(r, start, n, {w}),
              vs' = [vs EXCEPT ![m].list[i] = w], box' = u.box, mgr' = mgr
       PROVE  RangesInv' /\ Back(m, start, n, r, {w})
  <2> DEFINE l2 == [l EXCEPT ![i] = w]
             v2 == [list |-> l2, curr |-> v.curr, end |-> v.end, nr |-> v.nr]
  <2>1. vs' = [vs EXCEPT ![m] = v2]
    BY <1>12, PutRange DEF v, l
  <2>2. (i > 1 => l[i - 1].end <= w.start) /\ (i < Len(l) => w.end <= l[i + 1].start)
    BY <1>4, <1>7, <1>12 DEF Dsc
  <2> HIDE DEF l2
  <2>3. l2 \in Seq(Dsc) /\ Len(l2) = Len(l) /\ Sorted(l2) /\ Swapped(Elems(l), r, {w}, Elems(l2))
    BY <2>2, <1>1, <1>3, <1>4, <1>12, Place1 DEF l2
  <2>4. ListOK(v2) /\ v2.list = l2
    BY <2>3, <1>9, MakeList
  <2> HIDE DEF v2
  <2>5. RangesInv' /\ Rs' = [Rs EXCEPT ![m] = Swap(Rs[m], r, {w})]
    BY <2>1, <2>3, <2>4, <1>10
  <2>6. QED  BY <2>5, <1>1, <1>2, <1>3, <1>4, <1>12 DEF Back, u
<1>13. CASE /\ r.start = start /\ r.end > start + n
            /\ vs' = [vs EXCEPT ![m].list[i].start = start + n] /\ box' = u.box /\ mgr' = mgr
  <2>1. vs' = [vs EXCEPT ![m].list[i] = s]
    BY <1>5, <1>9, <1>13 DEF v
  <2>2. s.start >= r.start /\ s.end <= r.end
    BY <1>3, <1>4, <1>5
  <2>3. QED  BY <2>1, <2>2, <1>6, <1>12, <1>13
<1>14. CASE /\ r.start < start /\ r.end = start + n
            /\ vs' = [vs EXCEPT ![m].list[i].end = start] /\ box' = u.box /\ mgr' = mgr
  <2>1. vs' = [vs EXCEPT ![m].list[i] = q]
    BY <1>5, <1>9, <1>14 DEF v
  <2>2. q.start >= r.start /\ q.end <= r.end
    BY <1>3, <1>4, <1>5
  <2>3. QED  BY <2>1, <2>2, <1>6, <1>12, <1>14
<1>15. CASE /\ r.start < start /\ r.end > start + n
            /\ vs' = [vs EXCEPT ![m] = [ListAdd(v, i, s) EXCEPT !.list[i].end = start, !.nr = (v.nr + 1) % WIDTH]]
            /\ box' = IF r.box = NULL THEN box ELSE [u.box EXCEPT ![r.box].cont = @ + 1]
            /\ mgr' = mgr
  <2> DEFINE l1 == SubSeq(l, 1, i) \o <<s>> \o SubSeq(l, i + 1, Len(l))
             l2 == [l1 EXCEPT ![i] = q]
             k == (v.nr + 1) % WIDTH
             v2 == [list |-> l2, curr |-> i + 1, end |-> Len(l) + 1, nr |-> k]
  <2>1. q \in Dsc /\ Proper(q) /\ s \in Dsc /\ Proper(s) /\ q # s /\ Rest(r, start, n, {q, s})
    BY <1>6, <1>15
  <2>2. ListAdd(v, i, s) = [list |-> l1, curr |-> i + 1, end |-> Len(l) + 1, nr |-> v.nr]
    BY <1>1, <1>3, <1>9, ListAddIs
  <2>2a. PutAfter(l, i, s, l1)
    <3>1. l \in Seq(Dsc) /\ i \in 1 .. Len(l) /\ s \in Dsc
      BY <2>1, <1>1, <1>3
    <3>2. QED  BY ONLY <3>1, Inserted
  <2> HIDE DEF l1
  <2>3. /\ l1 \in Seq(Dsc) /\ Len(l1) = Len(l) + 1
        /\ \A j \in 1 .. Len(l) + 1 : l1[j] = IF j <= i THEN l[j] ELSE IF j = i + 1 THEN s ELSE l[j - 1]
    BY ONLY <2>2a DEF PutAfter
  <2>4. l1[i] = l[i] /\ i \in 1 .. Len(l1)
    BY <2>3, <1>1, <1>3
  <2>5. vs' = [vs EXCEPT ![m] = v2]
    <3>1. [ListAdd(v, i, s) EXCEPT !.list[i].end = start, !.nr = (v.nr + 1) % WIDTH] = v2
      <4> DEFINE x == ListAdd(v, i, s)
      <4>1. [x EXCEPT !.list[i].end = start, !.nr = (v.nr + 1) % WIDTH]
            = [x EXCEPT !.list = [x.list EXCEPT ![i] = [x.list[i] EXCEPT !.end = start]], !.nr = k]
        OBVIOUS
      <4>2. x.list = l1 /\ [x.list[i] EXCEPT !.end = start] = q
        BY <2>2, <2>4, <1>5
      <4> HIDE DEF x, l2, k
      <4>3. [x EXCEPT !.list = l2, !.nr = k] = v2
        <5>1. x.curr = i + 1 /\ x.end = Len(l) + 1 /\ x \in Space_t
          BY <2>2, <2>3, <1>1, <1>3, <1>9 DEF x, Space_t
        <5> DEFINE y == [x EXCEPT !.list = l2]
        <5>2. y = [list |-> l2, curr |-> i + 1, end |-> Len(l) + 1, nr |-> x.nr]
          BY <5>1 DEF Space_t
        <5> HIDE DEF y
        <5>3. [y EXCEPT !.nr = k] = v2
          BY <5>2
        <5>4. QED  BY <5>3 DEF y
      <4>4. QED  BY <4>1, <4>2, <4>3 DEF l2, x
    <3>2. QED  BY <3>1, <1>15
  <2>6. l2 \in Seq(Dsc) /\ Len(l2) = Len(l) + 1 /\ \A j \in 1 .. Len(l1) : l2[j] = IF j = i THEN q ELSE l1[j]
    BY <2>1, <2>3, <2>4, ExceptSeq
  <2> HIDE DEF l2
  <2>7. \A j \in 1 .. Len(l) + 1 :
            l2[j] = IF j < i THEN l[j] ELSE IF j = i THEN q ELSE IF j = i + 1 THEN s ELSE l[j - 1]
    BY <2>3, <2>6, <1>1, <1>3
  <2>8. Sorted(l2) /\ Swapped(Elems(l), r, {q, s}, Elems(l2))
    <3>1. q.end <= s.start /\ (i > 1 => l[i - 1].end <= q.start) /\ (i < Len(l) => s.end <= l[i + 1].start)
      BY <1>5, <1>7
    <3>2. TwoFor(l, i, q, s, l2)
      BY ONLY <2>6, <2>7 DEF TwoFor
    <3>3. QED  BY ONLY <2>1, <3>1, <3>2, <1>1, <1>3, <1>4, Place2
  <2>9. k \in Nat
    BY <1>9, Modulo
  <2> HIDE DEF k
  <2>10. ListOK(v2) /\ v2.list = l2
    <3>1. i + 1 \in 0 .. Len(l2) /\ Len(l) + 1 = Len(l2)
      BY <2>6, <1>1, <1>3
    <3>2. QED  BY <2>6, <2>8, <2>9, <3>1, MakeList
  <2> HIDE DEF v2
  <2>11. RangesInv' /\ Rs' = [Rs EXCEPT ![m] = Swap(Rs[m], r, {q, s})]
    BY <2>5, <2>8, <2>10, <1>10
  <2>12. Back(m, start, n, r, {q, s})
    <3>1. r \in Rs[m] /\ Rest(r, start, n, {q, s}) /\ q # s
      BY <2>1, <1>1, <1>4
    <3>2. QED  BY ONLY <3>1, <2>11, <1>2, <1>3, <1>4, <1>15 DEF Back, u
  <2>13. QED  BY <2>11, <2>12
<1>16. QED  BY <1>2, <1>11, <1>13, <1>14, <1>15

-----------------------------------------------------------------------------
(* Boxes.                                                                   *)

\* A step changes the ranges of process m, and among the boxes only the users
\* and the count of c, which no other process has.
Recounts(R, R2, ct, ct2, hd, hd2, m, c) ==
    /\ \A k \in Mms \ {m} : R2[k] = R[k]
    /\ IsFiniteSet(R2[m])
    /\ \A b \in Boxes \ {c} :
           Users(R2[m], b) = Users(R[m], b) /\ ct2[b] = ct[b] /\ (b \in hd2 <=> b \in hd)
    /\ c \in Boxes =>
           /\ \A k \in Mms \ {m} : Users(R[k], c) = {}
           /\ c \in hd2 <=> Users(R2[m], c) # {}
           /\ Users(R2[m], c) # {} => ct2[c] = Cardinality(Users(R2[m], c))

\* Such a step keeps the boxes in order.
LEMMA Recount ==
    ASSUME NEW R, NEW R2, NEW ct, NEW ct2, NEW hd, NEW hd2, NEW m \in Mms, NEW c, UseOK(R, ct, hd),
           Recounts(R, R2, ct, ct2, hd, hd2, m, c)
    PROVE  UseOK(R2, ct2, hd2)
<1>1. \A k \in Mms : IsFiniteSet(R2[k])
  BY DEF UseOK, Recounts
<1>2. ASSUME NEW b \in Boxes, b # c
      PROVE  /\ \A k \in Mms : Users(R2[k], b) = Users(R[k], b)
             /\ ct2[b] = ct[b] /\ (b \in hd2 <=> b \in hd)
  BY <1>2 DEF Recounts
<1>3. ASSUME c \in Boxes
      PROVE  /\ \A k \in Mms \ {m} : Users(R2[k], c) = {}
             /\ c \in hd2 <=> Users(R2[m], c) # {}
             /\ Users(R2[m], c) # {} => ct2[c] = Cardinality(Users(R2[m], c))
  BY <1>3 DEF Recounts
<1>4. ASSUME NEW b \in Boxes PROVE b \in hd2 <=> \E k \in Mms : Users(R2[k], b) # {}
  <2>1. CASE b = c  BY <2>1, <1>3
  <2>2. CASE b # c  BY <2>2, <1>2 DEF UseOK
  <2>3. QED  BY <2>1, <2>2
<1>5. ASSUME NEW b \in Boxes, NEW j \in Mms, NEW k \in Mms, Users(R2[j], b) # {}, Users(R2[k], b) # {}
      PROVE  j = k
  <2>1. CASE b = c  BY <2>1, <1>3, <1>5
  <2>2. CASE b # c  BY <2>2, <1>2, <1>5 DEF UseOK
  <2>3. QED  BY <2>1, <2>2
<1>6. ASSUME NEW b \in Boxes, NEW k \in Mms, Users(R2[k], b) # {}
      PROVE  ct2[b] = Cardinality(Users(R2[k], b))
  <2>1. CASE b = c  BY <2>1, <1>3, <1>6
  <2>2. CASE b # c  BY <2>2, <1>2, <1>6 DEF UseOK
  <2>3. QED  BY <2>1, <2>2
<1>7. QED  BY <1>1, <1>4, <1>5, <1>6 DEF UseOK

\* Ranges W in the place of r, all with the box c of r: other boxes keep their
\* users, and the users of c are W instead of r.
LEMMA UsersSwapped ==
    ASSUME NEW E, NEW r \in E, NEW W, \A w \in W : w.box = r.box
    PROVE  /\ \A b : b # r.box => Users(Swap(E, r, W), b) = Users(E, b)
           /\ Users(Swap(E, r, W), r.box) = Swap(Users(E, r.box), r, W)
BY DEF Users, Swap

\* How many they are.
LEMMA SwapCount ==
    ASSUME NEW E, IsFiniteSet(E), NEW r \in E, NEW U, U \subseteq E, r \in U
    PROVE  /\ Cardinality(U) \in Nat /\ Cardinality(U) >= 1
           /\ Cardinality(Swap(U, r, {})) = Cardinality(U) - 1
           /\ Swap(U, r, {}) = {} <=> Cardinality(U) = 1
           /\ \A q : q \notin E \ {r} => Cardinality(Swap(U, r, {q})) = Cardinality(U)
           /\ \A q, s : q \notin E \ {r} /\ s \notin E \ {r} /\ q # s =>
                  Cardinality(Swap(U, r, {q, s})) = Cardinality(U) + 1
<1>1. IsFiniteSet(U) /\ Cardinality(U) \in Nat
  BY FS_Subset, FS_CardinalityType
<1>2. IsFiniteSet(U \ {r}) /\ Cardinality(U \ {r}) = Cardinality(U) - 1
  BY <1>1, FS_RemoveElement
<1>3. Cardinality(U \ {r}) \in Nat /\ (Cardinality(U \ {r}) = 0 <=> U \ {r} = {})
  <2> DEFINE D == U \ {r}
  <2>1. IsFiniteSet(D)
    BY <1>2
  <2> HIDE DEF D
  <2>2. Cardinality(D) \in Nat /\ (Cardinality(D) = 0 <=> D = {})
    BY <2>1, FS_CardinalityType, FS_EmptySet
  <2>3. QED  BY <2>2 DEF D
<1>4. ASSUME NEW q, q \notin E \ {r}
      PROVE  /\ IsFiniteSet((U \ {r}) \cup {q}) /\ Cardinality((U \ {r}) \cup {q}) = Cardinality(U)
  <2> DEFINE D == U \ {r}
  <2>1. IsFiniteSet(D) /\ q \notin D /\ Cardinality(D) = Cardinality(U) - 1
    BY <1>2, <1>4
  <2> HIDE DEF D
  <2>2. IsFiniteSet(D \cup {q}) /\ Cardinality(D \cup {q}) = Cardinality(D) + 1
    BY <2>1, FS_AddElement
  <2>3. QED  BY <2>1, <2>2, <1>1 DEF D
<1>5. ASSUME NEW q, NEW s, q \notin E \ {r}, s \notin E \ {r}, q # s
      PROVE  Cardinality((U \ {r}) \cup {q, s}) = Cardinality(U) + 1
  <2>1. IsFiniteSet((U \ {r}) \cup {q}) /\ Cardinality((U \ {r}) \cup {q}) = Cardinality(U)
    BY <1>4, <1>5
  <2>2. s \notin (U \ {r}) \cup {q} /\ (U \ {r}) \cup {q, s} = ((U \ {r}) \cup {q}) \cup {s}
    BY <1>5
  <2>3. QED  BY <2>1, <2>2, FS_AddElement
<1>6. Swap(U, r, {}) = U \ {r}
  BY DEF Swap
<1>7. QED  BY <1>1, <1>2, <1>3, <1>4, <1>5, <1>6 DEF Swap

\* Ranges W, with the box of r, took its place, and the box was counted again.
SwapsUse(R, R2, ct, ct2, hd, hd2, m, r, W) ==
    LET U == Swap(Users(R[m], r.box), r, W)
    IN  /\ \A k \in Mms \ {m} : R2[k] = R[k]
        /\ R2[m] = Swap(R[m], r, W)
        /\ IsFiniteSet(W) /\ \A w \in W : w.box = r.box
        /\ \A b \in Boxes \ {r.box} : ct2[b] = ct[b] /\ (b \in hd2 <=> b \in hd)
        /\ r.box \in Boxes => (r.box \in hd2 <=> U # {}) /\ ct2[r.box] = Cardinality(U)

\* Such a step keeps the boxes in order.
LEMMA SwapUse ==
    ASSUME NEW R, NEW R2, NEW ct, NEW ct2, NEW hd, NEW hd2, NEW m \in Mms, UseOK(R, ct, hd),
           NEW r \in R[m], NEW W, SwapsUse(R, R2, ct, ct2, hd, hd2, m, r, W)
    PROVE  UseOK(R2, ct2, hd2)
<1>1. IsFiniteSet(R2[m])
  <2> DEFINE D == R[m] \ {r}
  <2>1. IsFiniteSet(D)
    BY FS_RemoveElement DEF UseOK
  <2> HIDE DEF D
  <2>2. IsFiniteSet(D \cup W)
    BY <2>1, FS_Union DEF SwapsUse
  <2>3. QED  BY <2>2 DEF D, Swap, SwapsUse
<1>2. /\ \A b : b # r.box => Users(R2[m], b) = Users(R[m], b)
      /\ Users(R2[m], r.box) = Swap(Users(R[m], r.box), r, W)
  <2>1. R2[m] = Swap(R[m], r, W) /\ \A w \in W : w.box = r.box
    BY DEF SwapsUse
  <2>2. /\ \A b : b # r.box => Users(Swap(R[m], r, W), b) = Users(R[m], b)
        /\ Users(Swap(R[m], r, W), r.box) = Swap(Users(R[m], r.box), r, W)
    BY ONLY <2>1, r \in R[m], UsersSwapped
  <2>3. QED  BY ONLY <2>1, <2>2
<1>3. r \in Users(R[m], r.box)
  BY DEF Users
<1>4. r.box \in Boxes => \A k \in Mms \ {m} : Users(R[k], r.box) = {}
  BY <1>3 DEF UseOK
<1>5. \A b \in Boxes \ {r.box} :
          Users(R2[m], b) = Users(R[m], b) /\ ct2[b] = ct[b] /\ (b \in hd2 <=> b \in hd)
  BY <1>2 DEF SwapsUse
<1>6. r.box \in Boxes =>
          /\ \A k \in Mms \ {m} : Users(R[k], r.box) = {}
          /\ r.box \in hd2 <=> Users(R2[m], r.box) # {}
          /\ Users(R2[m], r.box) # {} => ct2[r.box] = Cardinality(Users(R2[m], r.box))
  BY <1>2, <1>4 DEF SwapsUse
<1>7. Recounts(R, R2, ct, ct2, hd, hd2, m, r.box)
  BY <1>1, <1>5, <1>6 DEF Recounts, SwapsUse
<1>8. QED  BY <1>7, Recount

\* The ranges of a process.
LEMMA RsFacts ==
    ASSUME RangesInv, NEW m \in Mms
    PROVE  /\ Rs[m] \subseteq Dsc /\ Apart(Rs[m])
           /\ \A r \in Rs[m] : /\ Proper(r) /\ r.start \in Nat /\ r.end \in Nat /\ r.box \in Boxes \cup {NULL}
                               /\ r.start < r.end /\ r.end <= END /\ PGSZ <= r.start
<1>1. vs[m].list \in Seq(Dsc) /\ Sorted(vs[m].list) /\ Rs[m] = Elems(vs[m].list)
  BY DEF RangesInv, ListOK, Space_t, Rs, Ranges, Elems
<1>2. Rs[m] \subseteq Dsc /\ Apart(Rs[m]) /\ \A r \in Rs[m] : Proper(r)
  BY <1>1, SortedApart
<1>3. QED  BY <1>2 DEF Dsc, Proper

\* Ranges that begin in r are not other ranges of the process.
LEMMA NotAnother ==
    ASSUME RangesInv, NEW m \in Mms, NEW r \in Rs[m], NEW q, q.start \in Nat,
           r.start <= q.start, q.start < r.end
    PROVE  q \notin Rs[m] \ {r}
<1> SUFFICES ASSUME q \in Rs[m], q # r PROVE FALSE
  OBVIOUS
<1>1. r.end <= q.start \/ q.end <= r.start
  BY RsFacts DEF Apart
<1>2. q.start < q.end /\ {q.start, q.end, r.start, r.end} \subseteq Nat
  BY RsFacts
<1>3. QED  BY <1>1, <1>2

\* Every range is part of one with the same box.
Grown(R, R2) ==
    \A k \in Mms : \A r \in R[k] : \E q \in R2[k] :
        /\ {q.start, q.end, r.start, r.end} \subseteq Nat
        /\ q.start <= r.start /\ r.end <= q.end /\ q.box = r.box

\* Pages stay behind addresses when ranges grow.
LEMMA BehindGrown ==
    ASSUME NEW R, NEW R2, NEW ms, NEW mp, Behind(R, ms, mp), Grown(R, R2)
    PROVE  Behind(R2, ms, mp)
<1> SUFFICES ASSUME NEW k \in Mms, NEW a \in Addrs \ {END}, mp[k][Page(a)] # NULL
             PROVE  \E q \in R2[k] : /\ q.start <= a /\ a < q.end
                                     /\ q.box # NULL /\ mp[k][Page(a)] \in ms[q.box]
  BY DEF Behind
<1>1. PICK r \in R[k] : /\ r.start <= a /\ a < r.end
                        /\ r.box # NULL /\ mp[k][Page(a)] \in ms[r.box]
  BY DEF Behind
<1>2. PICK q \in R2[k] : /\ {q.start, q.end, r.start, r.end} \subseteq Nat
                         /\ q.start <= r.start /\ r.end <= q.end /\ q.box = r.box
  BY DEF Grown
<1>3. a \in Nat
  BY VmaAssumption DEF Addrs
<1>4. q.start <= a /\ a < q.end
  BY <1>1, <1>2, <1>3
<1>5. QED  BY <1>1, <1>2, <1>4

\* Giving out a piece changes no box and no page.
LEMMA GivenStep ==
    ASSUME RangesInv, PhysInv, NEW m \in Mms, NEW R2, NEW at, NEW n \in Nat, n > 0,
           Rs' = [Rs EXCEPT ![m] = R2], Given(Rs[m], R2, at, n), UNCHANGED phys
    PROVE  PhysInv' /\ Grown(Rs, Rs')
<1>1. UseOK(Rs, Conts, mgr.head) /\ Behind(Rs, Msas, map)
  BY DEF PhysInv
<1>2. Rs'[m] = R2 /\ \A k \in Mms \ {m} : Rs'[k] = Rs[k]
  BY DEF Rs
<1>3. \A k \in Mms : \A r \in Rs[k] : r \in Dsc /\ r.start \in Nat /\ r.end \in Nat
  BY RsFacts
<1>4. UseOK(Rs', Conts, mgr.head) /\ Behind(Rs', Msas, map) /\ Grown(Rs, Rs')
  <2>1. CASE \E r \in Rs[m] : r.end = at /\ R2 = Swap(Rs[m], r, {[r EXCEPT !.end = at + n]})
    <3>1. PICK r \in Rs[m] : r.end = at /\ R2 = Swap(Rs[m], r, {[r EXCEPT !.end = at + n]})
      BY <2>1
    <3> DEFINE q == [r EXCEPT !.end = at + n]
               U == Users(Rs[m], r.box)
    <3>2. q.box = r.box /\ q.start = r.start /\ q.end = r.end + n /\ r.end \in Nat /\ r.start \in Nat /\ r.start < r.end
      BY <3>1, <1>3, RsFacts DEF Dsc
    <3> HIDE DEF q
    <3>3. q \notin Rs[m] \ {r}
      BY <3>2, NotAnother
    <3>4. r \in U /\ U \subseteq Rs[m] /\ IsFiniteSet(Rs[m])
      BY <1>1 DEF Users, UseOK
    <3>5. r.box \in Boxes => r.box \in mgr.head /\ Conts[r.box] = Cardinality(U)
      BY <1>1, <3>4 DEF UseOK
    <3> HIDE DEF U
    <3>6. Cardinality(Swap(U, r, {q})) = Cardinality(U)
      BY <3>3, <3>4, SwapCount
    <3>7. Swap(U, r, {q}) # {} /\ IsFiniteSet({q})
      BY FS_Singleton DEF Swap
    <3>8. UseOK(Rs', Conts, mgr.head)
      <4>1. SwapsUse(Rs, Rs', Conts, Conts, mgr.head, mgr.head, m, r, {q})
        BY <3>1, <3>2, <3>5, <3>6, <3>7, <1>2 DEF SwapsUse, U, q
      <4>2. QED  BY ONLY <4>1, <1>1, <3>4, m \in Mms, SwapUse
    <3>9. ASSUME NEW k \in Mms, NEW s \in Rs[k]
          PROVE  \E w \in Rs'[k] : /\ {w.start, w.end, s.start, s.end} \subseteq Nat
                                   /\ w.start <= s.start /\ s.end <= w.end /\ w.box = s.box
      <4>1. CASE k = m /\ s = r
        <5>1. q \in Rs'[m]
          BY <3>1, <1>2 DEF Swap, q
        <5>2. {q.start, q.end, s.start, s.end} \subseteq Nat /\ q.start <= s.start /\ s.end <= q.end /\ q.box = s.box
          BY <4>1, <3>2
        <5>3. QED  BY <4>1, <5>1, <5>2
      <4>2. CASE ~ (k = m /\ s = r)
        <5>1. s \in Rs'[k]
          BY <4>2, <3>1, <1>2 DEF Swap
        <5>2. QED  BY <5>1, <1>3
      <4>3. QED  BY <4>1, <4>2
    <3>10. Behind(Rs', Msas, map) /\ Grown(Rs, Rs')
      <4>1. Grown(Rs, Rs')
        BY <3>9 DEF Grown
      <4>2. QED  BY <4>1, <1>1, BehindGrown
    <3>11. QED  BY <3>8, <3>10
  <2>2. CASE \E q \in Dsc : q.start = at /\ q.end = at + n /\ q.box = NULL /\ R2 = Rs[m] \cup {q}
    <3>1. PICK q \in Dsc : q.box = NULL /\ R2 = Rs[m] \cup {q}
      BY <2>2
    <3>2. IsFiniteSet(R2)
      BY <3>1, <1>1, FS_AddElement DEF UseOK
    <3>3. \A b \in Boxes : Users(R2, b) = Users(Rs[m], b)
      BY <3>1, VmaAssumption DEF Users
    <3>4. UseOK(Rs', Conts, mgr.head)
      <4>1. Recounts(Rs, Rs', Conts, Conts, mgr.head, mgr.head, m, NULL)
        <5>1. NULL \notin Boxes
          BY VmaAssumption
        <5>2. IsFiniteSet(Rs'[m]) /\ \A b \in Boxes : Users(Rs'[m], b) = Users(Rs[m], b)
          BY <3>2, <3>3, <1>2
        <5>3. QED  BY ONLY <5>1, <5>2, <1>2 DEF Recounts
      <4>2. QED  BY ONLY <4>1, <1>1, m \in Mms, Recount
    <3>5. \A k \in Mms : \A s \in Rs[k] : s \in Rs'[k]
      BY <3>1, <1>2
    <3>6. Behind(Rs', Msas, map) /\ Grown(Rs, Rs')
      <4>1. Grown(Rs, Rs')
        <5>1. \A k \in Mms : \A s \in Rs[k] : s \in Rs'[k] /\ s.start \in Nat /\ s.end \in Nat
          BY ONLY <3>5, <1>3
        <5>2. QED  BY ONLY <5>1 DEF Grown
      <4>2. QED  BY <4>1, <1>1, BehindGrown
    <3>7. QED  BY <3>4, <3>6
  <2>3. QED  BY <2>1, <2>2 DEF Given
<1>5. QED  BY <1>4 DEF PhysInv, phys, Conts, Msas

\* kvma_inituserspace_virmemadrs makes three ranges without boxes.
LEMMA FirstRanges ==
    ASSUME RangesInv, PhysInv, NEW m \in Mms, kvma_inituserspace_virmemadrs(m)
    PROVE  /\ RangesInv' /\ PhysInv' /\ Grown(Rs, Rs')
           /\ \A k \in Mms \ {m} : Rs'[k] = Rs[k]
<1> DEFINE x == kmvarsdsc_t_init(PGSZ, 2 * PGSZ, "none")
           y == kmvarsdsc_t_init(HEAP, HEAP + PGSZ, "heap")
           z == kmvarsdsc_t_init(STACK, END, "stack")
           l == <<x, y, z>>
           k3 == 3 % WIDTH
           v == [list |-> l, curr |-> 0, end |-> 3, nr |-> k3]
<1>1. vs[m] = virmemadrs_t_init /\ vs' = [vs EXCEPT ![m] = v] /\ UNCHANGED phys
  BY DEF kvma_inituserspace_virmemadrs
<1>2. /\ {APPRUN, HEAP, STACK, END} \subseteq Nat /\ HEAP % 2 = 0 /\ STACK % 2 = 0
      /\ 4 <= APPRUN /\ APPRUN < HEAP /\ HEAP + 2 <= STACK /\ STACK < END
  BY VmaAssumption DEF PGSZ
<1>3. x \in Dsc /\ x.start = 2 /\ x.end = 4 /\ x.box = NULL
  BY DEF kmvarsdsc_t_init, Dsc, Types, PGSZ
<1>4. y \in Dsc /\ y.start = HEAP /\ y.end = HEAP + 2 /\ y.box = NULL
  BY <1>2 DEF kmvarsdsc_t_init, Dsc, Types, PGSZ
<1>5. z \in Dsc /\ z.start = STACK /\ z.end = END /\ z.box = NULL
  BY <1>2 DEF kmvarsdsc_t_init, Dsc, Types, PGSZ
<1>6. k3 \in Nat
  BY VmaAssumption
<1> HIDE DEF x, y, z, k3
<1>7. Proper(x) /\ Proper(y) /\ Proper(z)
  BY <1>2, <1>3, <1>4, <1>5 DEF Proper, PGSZ
<1>8. l \in Seq(Dsc) /\ Len(l) = 3 /\ l[1] = x /\ l[2] = y /\ l[3] = z
  BY <1>3, <1>4, <1>5
<1> HIDE DEF l
<1>9. Sorted(l)
  <2>1. \A i \in 1 .. Len(l) : i = 1 \/ i = 2 \/ i = 3
    BY <1>8
  <2>2. \A i \in 1 .. Len(l) : Proper(l[i])
    BY <2>1, <1>7, <1>8
  <2>3. x.end <= y.start /\ x.end <= z.start /\ y.end <= z.start
    BY <1>2, <1>3, <1>4, <1>5
  <2>4. ASSUME NEW i \in 1 .. Len(l), NEW j \in 1 .. Len(l), i < j PROVE l[i].end <= l[j].start
    BY <2>1, <2>3, <2>4, <1>8
  <2>5. QED  BY <2>2, <2>4 DEF Sorted
<1>10. ListOK(v) /\ v.list = l
  <2>1. 0 \in 0 .. Len(l) /\ 3 = Len(l)
    BY <1>8
  <2>2. QED  BY <2>1, <1>6, <1>8, <1>9, MakeList
<1> HIDE DEF v
<1>11. RangesInv' /\ Rs' = [Rs EXCEPT ![m] = Elems(l)]
  BY <1>1, <1>10, ListStep
<1>12. Elems(l) = {x, y, z}
  BY <1>8 DEF Elems
<1>13. Rs'[m] = {x, y, z} /\ Rs[m] = {} /\ \A k \in Mms \ {m} : Rs'[k] = Rs[k]
  BY <1>1, <1>11, <1>12 DEF Rs, Ranges, virmemadrs_t_init
<1>14. IsFiniteSet({x, y, z})
  <2>1. IsFiniteSet({x}) /\ IsFiniteSet({x} \cup {y}) /\ IsFiniteSet(({x} \cup {y}) \cup {z})
    BY FS_Singleton, FS_AddElement
  <2>2. QED  BY <2>1
<1>15. \A b \in Boxes : Users({x, y, z}, b) = {} /\ Users({}, b) = {}
  BY <1>3, <1>4, <1>5, VmaAssumption DEF Users
<1>16. UseOK(Rs, Conts, mgr.head) /\ Behind(Rs, Msas, map)
  BY DEF PhysInv
<1>17. UseOK(Rs', Conts, mgr.head)
  <2>1. Recounts(Rs, Rs', Conts, Conts, mgr.head, mgr.head, m, NULL)
    BY <1>13, <1>14, <1>15, VmaAssumption DEF Recounts
  <2>2. QED  BY <2>1, <1>16, Recount
<1>18. Grown(Rs, Rs')
  <2>1. \A k \in Mms : \A s \in Rs[k] : s \in Rs'[k] /\ {s.start, s.end} \subseteq Nat
    BY <1>13, RsFacts
  <2>2. QED  BY <2>1 DEF Grown
<1>19. Behind(Rs', Msas, map)
  BY <1>16, <1>18, BehindGrown
<1>20. QED  BY <1>1, <1>11, <1>13, <1>17, <1>18, <1>19 DEF PhysInv, phys, Conts, Msas

-----------------------------------------------------------------------------
(* Page faults.                                                             *)

\* Box b is put into range i of m, or range r among the ranges of m.
PutBox(m, i, b) == vs' = [vs EXCEPT ![m].list[i].box = b]
BoxPut(m, r, b) == Rs' = [Rs EXCEPT ![m] = Swap(Rs[m], r, {[r EXCEPT !.box = b]})]

\* krluserspace_accessfailed puts a box into the range that has the address.
LEMMA FaultRange ==
    ASSUME RangesInv, NEW m \in Mms, NEW a, NEW i, i = vma_map_find_kmvarsdsc(vs[m], a), i # 0,
           NEW b \in Boxes, PutBox(m, i, b), NEW r, r = vs[m].list[i]
    PROVE  RangesInv' /\ r \in Rs[m] /\ r.start <= a /\ a < r.end /\ BoxPut(m, r, b)
<1> DEFINE v == vs[m]
           l == v.list
           q == [r EXCEPT !.box = b]
           l2 == [l EXCEPT ![i] = q]
           v2 == [list |-> l2, curr |-> v.curr, end |-> v.end, nr |-> v.nr]
<1>1. ListOK(v) /\ v \in Space_t /\ l \in Seq(Dsc) /\ Sorted(l) /\ Rs[m] = Elems(l) /\ Len(l) \in Nat
  BY DEF RangesInv, ListOK, Space_t, Rs, Ranges, Elems
<1>2. i \in 1 .. Len(l) /\ r.start <= a /\ a < r.end
  BY <1>1, FoundMap
<1>3. vs' = [vs EXCEPT ![m] = v2]
  <2>1. vs' = [vs EXCEPT ![m].list[i] = q]
    BY <1>1, <1>2 DEF RangesInv, PutBox
  <2>2. RangesInv /\ m \in Mms
    OBVIOUS
  <2> HIDE DEF q
  <2>3. QED  BY ONLY <2>1, <2>2, PutRange
<1>4. v.end = Len(l) /\ v.nr \in Nat /\ v.curr \in 0 .. Len(l)
  BY <1>1 DEF Space_t, ListOK
<1> HIDE DEF v, l
<1>5. r \in Dsc /\ Proper(r) /\ r \in Elems(l) /\ r = l[i]
  BY <1>1, <1>2, ListDsc, ElemsIndex DEF Sorted, v, l
<1>6. q \in Dsc /\ q.start = r.start /\ q.end = r.end
  BY <1>5 DEF Dsc
<1> HIDE DEF q
<1>7. Proper(q)
  BY <1>5, <1>6 DEF Proper
<1>8. (i > 1 => l[i - 1].end <= q.start) /\ (i < Len(l) => q.end <= l[i + 1].start)
  <2>1. i > 1 => i - 1 \in 1 .. Len(l) /\ i - 1 < i
    BY <1>1, <1>2
  <2>2. i < Len(l) => i + 1 \in 1 .. Len(l) /\ i < i + 1
    BY <1>1, <1>2
  <2>3. QED  BY <2>1, <2>2, <1>1, <1>2, <1>5, <1>6 DEF Sorted
<1>9. l2 \in Seq(Dsc) /\ Len(l2) = Len(l) /\ Sorted(l2) /\ Swapped(Elems(l), r, {q}, Elems(l2))
  <2>1. l2 = [l EXCEPT ![i] = q] /\ r = l[i]
    BY DEF v, l
  <2>2. l \in Seq(Dsc) /\ Sorted(l) /\ i \in 1 .. Len(l) /\ q \in Dsc
    BY <1>1, <1>2, <1>6
  <2> HIDE DEF l2
  <2>3. /\ l2 \in Seq(Dsc) /\ Len(l2) = Len(l) /\ Sorted(l2)
        /\ Swapped(Elems(l), l[i], {q}, Elems(l2))
    BY ONLY <2>1, <2>2, <1>7, <1>8, Place1
  <2>4. QED  BY <2>1, <2>3
<1> HIDE DEF l2
<1>10. ListOK(v2) /\ v2.list = l2
  BY <1>4, <1>9, MakeList
<1> HIDE DEF v2
<1>11. RangesInv' /\ Rs' = [Rs EXCEPT ![m] = Elems(l2)]
  BY <1>3, <1>10, ListStep
<1>12. QED  BY <1>1, <1>2, <1>5, <1>9, <1>11 DEF Swapped, q, BoxPut
=============================================================================
