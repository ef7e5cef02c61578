----------------------------- MODULE VmaProofs -----------------------------
(***************************************************************************)
(* Proofs about virtual address spaces, continued from VmaListProofs: the   *)
(* boxes and the pages behind ranges, the inductive invariant, and the      *)
(* refinement of AddressSpace.                                              *)
(***************************************************************************)
EXTENDS VmaListProofs

-----------------------------------------------------------------------------
(* Page faults: the manager of boxes and the page that a fault takes.       *)

\* Boxes h in use and boxes c in the cache, no box twice.
Kept(h, c) ==
    /\ h \subseteq Boxes /\ IsFiniteSet(h) /\ c \in Seq(Boxes)
    /\ \A i, j \in 1 .. Len(c) : c[i] = c[j] => i = j
    /\ \A i \in 1 .. Len(c) : c[i] \notin h

\* The manager that counts them.
LEMMA MakeMgr ==
    ASSUME NEW h, NEW c, Kept(h, c), NEW k, k = Cardinality(h), NEW d, d = Len(c)
    PROVE  MgrOK([head |-> h, nr |-> k, cache |-> c, cachenr |-> d])
<1>1. k \in Int /\ d \in Int
  BY FS_CardinalityType DEF Kept
<1>2. QED  BY <1>1 DEF MgrOK, Kept

\* knl_get_kvmemcbox gives a box that no range has; the manager then counts it.
LEMMA GetOK ==
    ASSUME MgrOK(mgr), NEW b \in knl_get_kvmemcbox
    PROVE  b \in Boxes /\ b \notin mgr.head /\ MgrOK(GetBox(b)) /\ GetBox(b).head = mgr.head \cup {b}
<1> DEFINE c == mgr.cache
           h == mgr.head
<1>1. /\ mgr \in [head : SUBSET Boxes, nr : Int, cache : Seq(Boxes), cachenr : Int]
      /\ c \in Seq(Boxes) /\ Len(c) \in Nat /\ DOMAIN c = 1 .. Len(c) /\ h \subseteq Boxes
      /\ IsFiniteSet(h) /\ mgr.nr = Cardinality(h) /\ mgr.cachenr = Len(c)
      /\ \A i, j \in 1 .. Len(c) : c[i] = c[j] => i = j
      /\ \A i \in 1 .. Len(c) : c[i] \notin h
  BY DEF MgrOK
<1>2. \/ c # <<>> /\ b = c[1]
      \/ b \in Boxes /\ b \notin h /\ b \notin Cached
  BY DEF knl_get_kvmemcbox
<1>3. \A i \in 1 .. Len(c) : c[i] \in Cached
  BY <1>1 DEF Cached
<1> DEFINE h2 == h \cup {b}
           k == mgr.nr + 1
<1>4. CASE c # <<>> /\ b = c[1]
  <2> DEFINE t == Tail(c)
             d == mgr.cachenr - 1
  <2>1. 1 \in 1 .. Len(c) /\ b \in Boxes /\ b \notin h /\ b \in Cached
    BY <1>4, <1>1, <1>3
  <2>2. t \in Seq(Boxes) /\ Len(t) = Len(c) - 1 /\ Len(t) \in Nat /\ \A i \in 1 .. Len(t) : t[i] = c[i + 1]
    BY <1>4, <1>1
  <2>3. \A i \in 1 .. Len(t) : i + 1 \in 1 .. Len(c) /\ i + 1 # 1
    BY <2>2, <1>1
  <2>4. IsFiniteSet(h2) /\ Cardinality(h2) = k /\ h2 \subseteq Boxes
    BY <2>1, <1>1, FS_AddElement
  <2>5. GetBox(b) = [head |-> h2, nr |-> k, cache |-> t, cachenr |-> d]
    BY <2>1 DEF GetBox
  <2>6. d = Len(t)
    BY <2>2, <1>1
  <2> HIDE DEF t, d, k
  <2>7. \A i, j \in 1 .. Len(t) : t[i] = t[j] => i = j
    <3> SUFFICES ASSUME NEW i \in 1 .. Len(t), NEW j \in 1 .. Len(t), t[i] = t[j] PROVE i = j
      OBVIOUS
    <3>1. i + 1 = j + 1
      BY <2>2, <2>3, <1>1
    <3>2. QED  BY <3>1, <2>2
  <2>8. \A i \in 1 .. Len(t) : t[i] \notin h2
    <3> SUFFICES ASSUME NEW i \in 1 .. Len(t) PROVE t[i] \notin h2
      OBVIOUS
    <3>1. c[i + 1] # c[1] /\ c[i + 1] \notin h
      BY <2>1, <2>3, <1>1
    <3>2. QED  BY <3>1, <2>2, <1>4
  <2> HIDE DEF h2
  <2>9. MgrOK(GetBox(b))
    <3>1. Kept(h2, t)
      BY <2>2, <2>4, <2>7, <2>8 DEF Kept
    <3>2. QED  BY <3>1, <2>4, <2>5, <2>6, MakeMgr
  <2>10. QED  BY <2>1, <2>5, <2>9 DEF h2
<1>5. CASE b \in Boxes /\ b \notin h /\ b \notin Cached
  <2>1. \A i \in 1 .. Len(c) : c[i] \notin h2
    BY <1>1, <1>3, <1>5
  <2>2. IsFiniteSet(h2) /\ Cardinality(h2) = k /\ h2 \subseteq Boxes
    BY <1>1, <1>5, FS_AddElement
  <2>3. GetBox(b) = [mgr EXCEPT !.head = h2, !.nr = k]
    BY <1>5 DEF GetBox
  <2> HIDE DEF h2, k
  <2> DEFINE x == [mgr EXCEPT !.head = h2]
  <2>5. x = [head |-> h2, nr |-> mgr.nr, cache |-> c, cachenr |-> mgr.cachenr]
    BY <1>1
  <2>6. GetBox(b) = [x EXCEPT !.nr = k]
    BY <2>3
  <2> HIDE DEF x
  <2>7. GetBox(b) = [head |-> h2, nr |-> k, cache |-> c, cachenr |-> mgr.cachenr]
    BY <2>5, <2>6
  <2> HIDE DEF c
  <2>9. MgrOK(GetBox(b))
    <3>1. Kept(h2, c)
      BY <2>1, <2>2, <1>1 DEF Kept
    <3>2. QED  BY <3>1, <2>2, <2>7, <1>1, MakeMgr
  <2>10. QED  BY <2>7, <2>9, <1>5 DEF h2
<1>6. QED  BY <1>2, <1>4, <1>5

\* A range without a box gets box b, which no range has.
LEMMA Furnished ==
    ASSUME RangesInv, PhysInv, NEW m \in Mms, NEW r \in Rs[m], r.box = NULL,
           NEW b \in Boxes, b \notin mgr.head,
           NEW R2, R2 = [Rs EXCEPT ![m] = Swap(Rs[m], r, {[r EXCEPT !.box = b]})],
           NEW ct2, ct2 = [Conts EXCEPT ![b] = 1], NEW ms2, ms2 = [Msas EXCEPT ![b] = {}]
    PROVE  UseOK(R2, ct2, mgr.head \cup {b}) /\ Behind(R2, ms2, map)
<1> DEFINE q == [r EXCEPT !.box = b]
<1>1. UseOK(Rs, Conts, mgr.head) /\ Behind(Rs, Msas, map)
  BY DEF PhysInv
<1>2. R2[m] = Swap(Rs[m], r, {q}) /\ \A k \in Mms \ {m} : R2[k] = Rs[k]
  BY DEF Rs
<1>3. r \in Dsc
  BY RsFacts
<1>4. q.box = b
  BY <1>3 DEF Dsc
<1> HIDE DEF q
<1>5. \A k \in Mms : Users(Rs[k], b) = {}
  BY <1>1 DEF UseOK
<1>6. b # NULL
  BY VmaAssumption
<1>7. /\ \A c \in Boxes \ {b} : Users(R2[m], c) = Users(Rs[m], c)
      /\ Users(R2[m], b) = {q}
  <2>1. \A c \in Boxes \ {b} : Users(R2[m], c) = Users(Rs[m], c)
    BY <1>2, <1>4, VmaAssumption DEF Users, Swap
  <2>2. Users(R2[m], b) = {q}
    BY <1>2, <1>4, <1>5, <1>6 DEF Users, Swap
  <2>3. QED  BY <2>1, <2>2
<1>8. /\ ct2[b] = 1 /\ \A c \in Boxes \ {b} : ct2[c] = Conts[c]
      /\ ms2[b] = {} /\ \A c \in Boxes \ {b} : ms2[c] = Msas[c]
  BY DEF Conts, Msas
<1>9. IsFiniteSet(R2[m])
  <2> DEFINE D == Rs[m] \ {r}
  <2>1. IsFiniteSet(D)
    BY <1>1, FS_RemoveElement DEF UseOK
  <2> HIDE DEF D
  <2>2. IsFiniteSet(D \cup {q})
    BY <2>1, FS_AddElement
  <2>3. QED  BY <2>2, <1>2 DEF D, Swap
<1>10. Cardinality({q}) = 1
  BY FS_Singleton
<1>11. UseOK(R2, ct2, mgr.head \cup {b})
  <2>1. Recounts(Rs, R2, Conts, ct2, mgr.head, mgr.head \cup {b}, m, b)
    BY <1>2, <1>5, <1>7, <1>8, <1>9, <1>10 DEF Recounts
  <2>2. QED  BY <2>1, <1>1, Recount
<1>12. ASSUME NEW k \in Mms, NEW a \in Addrs \ {END}, map[k][Page(a)] # NULL
       PROVE  \E s \in R2[k] : /\ s.start <= a /\ a < s.end
                               /\ s.box # NULL /\ map[k][Page(a)] \in ms2[s.box]
  <2>1. PICK s \in Rs[k] : /\ s.start <= a /\ a < s.end
                           /\ s.box # NULL /\ map[k][Page(a)] \in Msas[s.box]
    BY <1>1, <1>12 DEF Behind
  <2>2. s \in R2[k]
    BY <2>1, <1>2 DEF Swap
  <2>3. s.box \in Boxes \ {b}
    BY <2>1, <1>5, RsFacts DEF Users
  <2>4. QED  BY <2>1, <2>2, <2>3, <1>8
<1>13. QED  BY <1>11, <1>12 DEF Behind

\* Page tables mp2 are mp with page f behind virtual page v of m.
Entered(mp, mp2, m, v, f) ==
    /\ mp2[m][v] = f
    /\ \A k \in Mms, w \in VPages : k # m \/ w # v => mp2[k][w] = mp[k][w]

\* Boxes of the ranges R have the pages they had, and maybe more.
Filled(R, ms, ms2) == \A k \in Mms : \A r \in R[k] : r.box # NULL => ms[r.box] \subseteq ms2[r.box]

\* Range q has address a, and a box.
Holds(q, a) ==
    /\ q.start \in Nat /\ q.end \in Nat /\ Proper(q)
    /\ q.start <= a /\ a < q.end /\ q.box \in Boxes

\* A page f behind the address a of range q, which is in the box of q.
LEMMA PageBehind ==
    ASSUME NEW R2, NEW ms, NEW ms2, NEW mp, NEW mp2, NEW m \in Mms, NEW a \in Nat, NEW f,
           Behind(R2, ms, mp), NEW q \in R2[m], Holds(q, a), f \in ms2[q.box],
           Filled(R2, ms, ms2), Entered(mp, mp2, m, Page(a), f)
    PROVE  Behind(R2, ms2, mp2)
<1> SUFFICES ASSUME NEW k \in Mms, NEW x \in Addrs \ {END}, mp2[k][Page(x)] # NULL
             PROVE  \E r \in R2[k] : /\ r.start <= x /\ x < r.end
                                     /\ r.box # NULL /\ mp2[k][Page(x)] \in ms2[r.box]
  BY DEF Behind
<1>1. x \in Nat /\ x < END /\ END \in Nat /\ Page(x) \in VPages
  BY VmaAssumption DEF Addrs, VPages
<1>2. CASE k = m /\ Page(x) = Page(a)
  <2> USE DEF Holds
  <2>1. q.start <= x
    BY <1>1, <1>2, SamePage DEF Proper
  <2>2. x < q.end
    <3>1. CASE q.end = END  BY <3>1, <1>1
    <3>2. CASE q.end % PGSZ = 0
      <4>1. ~ (q.end <= x)
        BY <3>2, <1>1, <1>2, SamePage
      <4>2. QED  BY <4>1, <1>1
    <3>3. QED  BY <3>1, <3>2 DEF Proper
  <2>3. mp2[k][Page(x)] = f
    BY <1>2 DEF Entered
  <2>4. QED  BY <2>1, <2>2, <2>3, <1>2, VmaAssumption
<1>3. CASE ~ (k = m /\ Page(x) = Page(a))
  <2>1. mp2[k][Page(x)] = mp[k][Page(x)]
    BY <1>1, <1>3 DEF Entered
  <2>2. PICK r \in R2[k] : /\ r.start <= x /\ x < r.end
                           /\ r.box # NULL /\ mp[k][Page(x)] \in ms[r.box]
    BY <2>1 DEF Behind
  <2>3. QED  BY <2>1, <2>2 DEF Filled
<1>4. QED  BY <1>2, <1>3

\* A free page f comes behind virtual page v of m, in the place of another page
\* or of none.
LEMMA PageTaken ==
    ASSUME map \in [Mms -> [VPages -> Frames \cup {NULL}]], PagesOK(map, ufree, lost),
           ufree \subseteq Frames, lost \subseteq Frames,
           NEW m \in Mms, NEW v \in VPages, NEW f \in ufree,
           NEW mp2, mp2 = [map EXCEPT ![m][v] = f], NEW ls2, ls2 = lost \cup ({map[m][v]} \ {NULL})
    PROVE  /\ mp2 \in [Mms -> [VPages -> Frames \cup {NULL}]] /\ ls2 \subseteq Frames
           /\ PagesOK(mp2, ufree \ {f}, ls2)
           /\ Entered(map, mp2, m, v, f)
<1>1. f \in Frames /\ f # NULL /\ f \notin lost /\ \A k \in Mms, w \in VPages : map[k][w] # f
  BY VmaAssumption DEF PagesOK
<1>2. mp2[m][v] = f /\ \A k \in Mms, w \in VPages : k # m \/ w # v => mp2[k][w] = map[k][w]
  OBVIOUS
<1>3. mp2 \in [Mms -> [VPages -> Frames \cup {NULL}]] /\ ls2 \subseteq Frames
  BY <1>1
<1>4. \A x : x \in ls2 <=> x \in lost \/ (x = map[m][v] /\ x # NULL)
  OBVIOUS
<1>5. ASSUME NEW x \in Frames
      PROVE  x \in ufree \ {f} <=> x \notin ls2 /\ \A k \in Mms, w \in VPages : mp2[k][w] # x
  <2>1. x # NULL
    BY VmaAssumption
  <2>2. CASE x = f  BY <2>2, <1>1, <1>2
  <2>3. CASE x # f
    <3>1. x \in ufree <=> x \notin lost /\ \A k \in Mms, w \in VPages : map[k][w] # x
      BY DEF PagesOK
    <3>2. (\A k \in Mms, w \in VPages : map[k][w] # x)
          <=> map[m][v] # x /\ \A k \in Mms, w \in VPages : mp2[k][w] # x
      BY <2>3, <1>2
    <3>3. QED  BY <2>1, <2>3, <3>1, <3>2, <1>4
  <2>4. QED  BY <2>2, <2>3
<1>6. ASSUME NEW x \in ls2, NEW k \in Mms, NEW w \in VPages PROVE mp2[k][w] # x
  <2>1. CASE x \in lost  BY <2>1, <1>1, <1>2 DEF PagesOK
  <2>2. CASE x = map[m][v] /\ x # NULL
    <3>1. CASE k = m /\ w = v  BY <3>1, <2>2, <1>1, <1>2
    <3>2. CASE ~ (k = m /\ w = v)  BY <3>2, <2>2, <1>2 DEF PagesOK
    <3>3. QED  BY <3>1, <3>2
  <2>3. QED  BY <2>1, <2>2, <1>4
<1>7. ASSUME NEW j \in Mms, NEW k \in Mms, NEW w \in VPages, NEW x \in VPages,
             mp2[j][w] # NULL, mp2[j][w] = mp2[k][x]
      PROVE  j = k /\ w = x
  <2>1. CASE j = m /\ w = v  BY <2>1, <1>1, <1>2, <1>7
  <2>2. CASE k = m /\ x = v  BY <2>2, <1>1, <1>2, <1>7
  <2>3. CASE ~ (j = m /\ w = v) /\ ~ (k = m /\ x = v)  BY <2>3, <1>2, <1>7 DEF PagesOK
  <2>4. QED  BY <2>1, <2>2, <2>3
<1>8. QED  BY <1>2, <1>3, <1>5, <1>6, <1>7 DEF PagesOK, Entered

\* Nothing changes in a function.
LEMMA SameFun ==
    ASSUME NEW S, NEW T, NEW f \in [S -> T], NEW x \in S
    PROVE  [f EXCEPT ![x] = f[x]] = f
OBVIOUS

\* A range with another box, or none, has the same addresses.
LEMMA SameCovered ==
    ASSUME NEW E, NEW r \in E, NEW q, q.start = r.start, q.end = r.end
    PROVE  Covered(Swap(E, r, {q})) = Covered(E)
BY DEF Covered, Swap

\* A page fault keeps ranges, boxes and pages in order. It changes no address
\* range, and the page tables only by a free page behind an address of a range.
LEMMA FaultStep ==
    ASSUME RangesInv, PhysInv, NEW m \in Mms, NEW v \in VPages, NEW ok \in BOOLEAN,
           krluserspace_accessfailed(m, PGSZ * v, ok)
    PROVE  /\ RangesInv' /\ PhysInv'
           /\ \A k \in Mms : Covered(Rs'[k]) = Covered(Rs[k])
           /\ \/ map' = map
              \/ \E f \in ufree : \E x \in Covered(Rs[m]) : map' = [map EXCEPT ![m][Page(x)] = f]
<1> DEFINE a == PGSZ * v
           i == vma_map_find_kmvarsdsc(vs[m], a)
           r == vs[m].list[i]
           fresh == r.box = NULL
           B == IF fresh THEN knl_get_kvmemcbox ELSE {r.box}
           had(b) == IF fresh THEN [cont |-> 1, msas |-> {}] ELSE box[b]
           ct2(b) == [Conts EXCEPT ![b] = had(b).cont]
           ms2(b) == [Msas EXCEPT ![b] = had(b).msas]
<1>1. \/ UNCHANGED <<vs, phys>>
      \/ i # 0 /\ \E b \in B :
         /\ vs' = [vs EXCEPT ![m].list[i].box = b]
         /\ mgr' = IF fresh THEN GetBox(b) ELSE mgr
         /\ \/ \E f \in ufree :
               /\ map' = [map EXCEPT ![m][Page(a)] = f]
               /\ ufree' = ufree \ {f}
               /\ lost' = lost \cup ({map[m][Page(a)]} \ {NULL})
               /\ box' = [box EXCEPT ![b] = [had(b) EXCEPT !.msas = @ \cup {f}]]
            \/ box' = [box EXCEPT ![b] = had(b)] /\ UNCHANGED <<map, ufree, lost>>
  BY DEF krluserspace_accessfailed
<1>2. CASE UNCHANGED <<vs, phys>>
  <2>1. Rs' = Rs /\ Conts' = Conts /\ Msas' = Msas
    BY <1>2 DEF Rs, Ranges, Conts, Msas, phys
  <2>2. RangesInv' /\ PhysInv'
    BY <2>1, <1>2 DEF RangesInv, PhysInv, phys
  <2>3. QED  BY <2>1, <2>2, <1>2 DEF phys
<1>3. a \in Nat /\ Page(a) = v
  <2>1. v \in Nat
    BY VmaAssumption DEF VPages, Addrs, Page, PGSZ
  <2>2. QED  BY <2>1 DEF Page, PGSZ
<1>4. ASSUME i # 0, NEW b \in B, vs' = [vs EXCEPT ![m].list[i].box = b],
             mgr' = IF fresh THEN GetBox(b) ELSE mgr
      PROVE  /\ b \in Boxes /\ RangesInv' /\ r \in Rs[m] /\ r.start <= a /\ a < r.end
             /\ Rs' = [Rs EXCEPT ![m] = Swap(Rs[m], r, {[r EXCEPT !.box = b]})]
             /\ had(b) \in [cont : Int, msas : SUBSET Frames]
             /\ MgrOK(mgr') /\ UseOK(Rs', ct2(b), mgr'.head) /\ Behind(Rs', ms2(b), map)
  <2>1. ListOK(vs[m]) /\ vs[m].list \in Seq(Dsc)
    BY DEF RangesInv, ListOK, Space_t
  <2>2. i \in 1 .. Len(vs[m].list)
    BY <2>1, <1>4, FoundMap
  <2>3. r.box \in Boxes \cup {NULL}
    BY <2>1, <2>2, ListDsc
  <2>4. MgrOK(mgr) /\ box \in [Boxes -> [cont : Int, msas : SUBSET Frames]]
    BY DEF PhysInv
  <2>5. b \in Boxes
    <3>1. CASE fresh  BY <3>1, <2>4, <1>4, GetOK
    <3>2. CASE ~ fresh  BY <3>2, <2>3, <1>4
    <3>3. QED  BY <3>1, <3>2
  <2>5a. RangesInv' /\ r \in Rs[m] /\ r.start <= a /\ a < r.end /\ BoxPut(m, r, b)
    <3>1. /\ i = vma_map_find_kmvarsdsc(vs[m], a) /\ i # 0 /\ RangesInv /\ m \in Mms
          /\ PutBox(m, i, b) /\ r = vs[m].list[i]
      BY <1>4 DEF PutBox
    <3> HIDE DEF a, i, r
    <3>2. QED  BY ONLY <2>5, <3>1, FaultRange
  <2>6. /\ RangesInv' /\ r \in Rs[m] /\ r.start <= a /\ a < r.end
        /\ Rs' = [Rs EXCEPT ![m] = Swap(Rs[m], r, {[r EXCEPT !.box = b]})]
    BY <2>5a DEF BoxPut
  <2> HIDE DEF i, r
  <2>7. CASE fresh
    <3>1. b \notin mgr.head /\ MgrOK(GetBox(b)) /\ GetBox(b).head = mgr.head \cup {b} /\ mgr' = GetBox(b)
      BY <2>4, <2>7, <1>4, GetOK
    <3>2. had(b).cont = 1 /\ had(b).msas = {} /\ had(b) \in [cont : Int, msas : SUBSET Frames]
      BY <2>7
    <3> HIDE DEF had
    <3>3. ct2(b) = [Conts EXCEPT ![b] = 1] /\ ms2(b) = [Msas EXCEPT ![b] = {}]
      BY <3>2
    <3> HIDE DEF ct2, ms2
    <3>4. UseOK(Rs', ct2(b), mgr.head \cup {b}) /\ Behind(Rs', ms2(b), map)
      BY <2>5, <2>6, <2>7, <3>1, <3>3, Furnished
    <3>5. QED  BY <2>5, <2>6, <3>1, <3>2, <3>4
  <2>8. CASE ~ fresh
    <3>1. b = r.box /\ mgr' = mgr /\ had(b) = box[b] /\ had(b) \in [cont : Int, msas : SUBSET Frames]
      BY <2>4, <2>5, <2>8, <1>4
    <3> HIDE DEF had
    <3>2. ct2(b) = Conts /\ ms2(b) = Msas
      <4>1. had(b).cont = Conts[b] /\ had(b).msas = Msas[b]
        BY <2>5, <3>1 DEF Conts, Msas
      <4>2. [Conts EXCEPT ![b] = Conts[b]] = Conts /\ [Msas EXCEPT ![b] = Msas[b]] = Msas
        <5>1. Conts \in [Boxes -> Int] /\ Msas \in [Boxes -> SUBSET Frames]
          BY <2>4 DEF Conts, Msas
        <5>2. QED  BY <2>5, <5>1, SameFun
      <4>3. QED  BY <4>1, <4>2
    <3>3. [r EXCEPT !.box = b] = r
      BY <2>6, <3>1, RsFacts DEF Dsc
    <3>4. Swap(Rs[m], r, {r}) = Rs[m]
      BY <2>6 DEF Swap
    <3>5. Rs' = Rs
      BY <2>6, <3>3, <3>4 DEF Rs
    <3> HIDE DEF ct2, ms2
    <3>6. UseOK(Rs, Conts, mgr.head) /\ Behind(Rs, Msas, map)
      BY DEF PhysInv
    <3>7. QED  BY <2>4, <2>5, <2>6, <3>1, <3>2, <3>5, <3>6
  <2>9. QED  BY <2>7, <2>8
<1>5. ASSUME i # 0, NEW b \in B, vs' = [vs EXCEPT ![m].list[i].box = b],
             mgr' = IF fresh THEN GetBox(b) ELSE mgr
      PROVE  \A k \in Mms : Covered(Rs'[k]) = Covered(Rs[k])
  <2>1. r \in Rs[m] /\ Rs' = [Rs EXCEPT ![m] = Swap(Rs[m], r, {[r EXCEPT !.box = b]})]
    BY ONLY <1>4, <1>5
  <2> DEFINE q == [r EXCEPT !.box = b]
  <2> HIDE DEF i, r
  <2>2. q.start = r.start /\ q.end = r.end
    BY <2>1, RsFacts DEF Dsc
  <2> HIDE DEF q
  <2>3. Rs'[m] = Swap(Rs[m], r, {q}) /\ \A k \in Mms \ {m} : Rs'[k] = Rs[k]
    BY <2>1 DEF Rs, q
  <2>4. Covered(Rs'[m]) = Covered(Rs[m])
    BY <2>1, <2>2, <2>3, SameCovered
  <2>5. QED  BY <2>3, <2>4
<1>6. ASSUME i # 0, NEW b \in B, vs' = [vs EXCEPT ![m].list[i].box = b],
             mgr' = IF fresh THEN GetBox(b) ELSE mgr,
             box' = [box EXCEPT ![b] = had(b)], UNCHANGED <<map, ufree, lost>>
      PROVE  PhysInv'
  <2>1. /\ b \in Boxes /\ had(b) \in [cont : Int, msas : SUBSET Frames]
        /\ MgrOK(mgr') /\ UseOK(Rs', ct2(b), mgr'.head) /\ Behind(Rs', ms2(b), map)
    BY <1>4, <1>6
  <2> HIDE DEF i, r, B, had
  <2>2. box \in [Boxes -> [cont : Int, msas : SUBSET Frames]]
    BY DEF PhysInv
  <2>3. box' \in [Boxes -> [cont : Int, msas : SUBSET Frames]]
    BY <2>1, <2>2, <1>6
  <2>4. Conts' = ct2(b) /\ Msas' = ms2(b)
    BY <2>1, <2>2, <1>6 DEF Conts, Msas
  <2> HIDE DEF ct2, ms2
  <2>5. QED  BY <2>1, <2>3, <2>4, <1>6 DEF PhysInv
<1>7. ASSUME i # 0, NEW b \in B, vs' = [vs EXCEPT ![m].list[i].box = b],
             mgr' = IF fresh THEN GetBox(b) ELSE mgr, NEW f \in ufree,
             map' = [map EXCEPT ![m][Page(a)] = f], ufree' = ufree \ {f},
             lost' = lost \cup ({map[m][Page(a)]} \ {NULL}),
             box' = [box EXCEPT ![b] = [had(b) EXCEPT !.msas = @ \cup {f}]]
      PROVE  PhysInv'
  <2>1. /\ b \in Boxes /\ had(b) \in [cont : Int, msas : SUBSET Frames]
        /\ RangesInv' /\ r \in Rs[m] /\ r.start <= a /\ a < r.end
        /\ Rs' = [Rs EXCEPT ![m] = Swap(Rs[m], r, {[r EXCEPT !.box = b]})]
        /\ MgrOK(mgr') /\ UseOK(Rs', ct2(b), mgr'.head) /\ Behind(Rs', ms2(b), map)
    BY <1>4, <1>7
  <2> DEFINE q == [r EXCEPT !.box = b]
             h == [had(b) EXCEPT !.msas = @ \cup {f}]
  <2> HIDE DEF i, r, B, had, a
  <2>2. /\ box \in [Boxes -> [cont : Int, msas : SUBSET Frames]] /\ ufree \subseteq Frames
        /\ map \in [Mms -> [VPages -> Frames \cup {NULL}]] /\ lost \subseteq Frames
        /\ PagesOK(map, ufree, lost)
    BY DEF PhysInv
  <2>3. h \in [cont : Int, msas : SUBSET Frames] /\ h.cont = had(b).cont /\ h.msas = had(b).msas \cup {f}
    BY <2>1, <2>2
  <2> HIDE DEF h
  <2>4. box' = [box EXCEPT ![b] = h] /\ box' \in [Boxes -> [cont : Int, msas : SUBSET Frames]]
    BY <2>2, <2>3, <1>7 DEF h
  <2>5. Conts' = ct2(b)
    BY <2>1, <2>2, <2>3, <2>4 DEF Conts
  <2>6. f \in Msas'[b] /\ \A c \in Boxes : ms2(b)[c] \subseteq Msas'[c]
    BY <2>1, <2>2, <2>3, <2>4 DEF Msas
  <2> HIDE DEF ct2, ms2
  <2>7. /\ map' \in [Mms -> [VPages -> Frames \cup {NULL}]] /\ lost' \subseteq Frames
        /\ PagesOK(map', ufree', lost') /\ ufree' \subseteq Frames
        /\ Entered(map, map', m, Page(a), f)
    <3>1. Page(a) \in VPages /\ m \in Mms
      BY <1>3
    <3>2. /\ map' \in [Mms -> [VPages -> Frames \cup {NULL}]] /\ lost' \subseteq Frames
          /\ PagesOK(map', ufree \ {f}, lost') /\ Entered(map, map', m, Page(a), f)
      BY ONLY <2>2, <3>1, <1>7, PageTaken
    <3>3. QED  BY <3>2, <2>2, <1>7
  <2>8. q \in Rs'[m] /\ q.box = b /\ q.start = r.start /\ q.end = r.end
    BY <2>1, RsFacts DEF Dsc, Swap, Rs
  <2>9. Proper(q) /\ q.start \in Nat /\ q.end \in Nat
    BY <2>1, <2>8, RsFacts DEF Proper
  <2> HIDE DEF q
  <2>10. Filled(Rs', ms2(b), Msas')
    <3>1. \A k \in Mms : \A s \in Rs[k] : s.box \in Boxes \cup {NULL}
      BY RsFacts
    <3>2. \A k \in Mms : \A s \in Rs'[k] : s \in Rs[k] \/ s = q
      <4>1. Rs' = [Rs EXCEPT ![m] = Swap(Rs[m], r, {q})]
        BY <2>1 DEF q
      <4>2. Rs = [k \in Mms |-> Rs[k]] /\ m \in Mms
        BY <1>3 DEF Rs
      <4>3. Rs'[m] = Swap(Rs[m], r, {q}) /\ \A k \in Mms : k # m => Rs'[k] = Rs[k]
        BY ONLY <4>1, <4>2
      <4>4. QED  BY ONLY <4>3 DEF Swap
    <3>3. b \in Boxes /\ f \in Msas'[b] /\ q.box = b /\ \A c \in Boxes : ms2(b)[c] \subseteq Msas'[c]
      BY <2>1, <2>6, <2>8
    <3>4. QED  BY ONLY <3>1, <3>2, <3>3, VmaAssumption DEF Filled
  <2>11. Behind(Rs', Msas', map')
    <3>1. m \in Mms /\ a \in Nat /\ Holds(q, a) /\ f \in Msas'[q.box]
      BY <2>1, <2>6, <2>8, <2>9, <1>3 DEF Holds
    <3>2. QED  BY ONLY <2>1, <2>7, <2>8, <2>10, <3>1, PageBehind
  <2>12. QED  BY <2>1, <2>4, <2>5, <2>7, <2>11 DEF PhysInv
<1>8. ASSUME i # 0, NEW b \in B, vs' = [vs EXCEPT ![m].list[i].box = b],
             mgr' = IF fresh THEN GetBox(b) ELSE mgr
      PROVE  a \in Covered(Rs[m])
  <2>1. r \in Rs[m] /\ r.start <= a /\ a < r.end
    BY <1>4, <1>8
  <2> HIDE DEF i, r, a
  <2>2. a \in Addrs
    <3>1. PGSZ <= r.start /\ r.end <= END /\ r.start \in Nat /\ r.end \in Nat
      BY <2>1, RsFacts
    <3>2. QED  BY <2>1, <3>1, <1>3, VmaAssumption DEF Addrs, PGSZ
  <2>3. QED  BY <2>1, <2>2 DEF Covered
<1> HIDE DEF i, r, a, B, had, ct2, ms2
<1>9. QED  BY <1>1, <1>2, <1>4, <1>5, <1>6, <1>7, <1>8

-----------------------------------------------------------------------------
(* Pieces that come back: pages and boxes.                                  *)

\* The virtual pages of the n half pages at start.
PiecePages(start, n) == {Page(start + k) : k \in 0 .. n - 1}

\* The page of an address is one of them when the address is in the piece.
LEMMA InPiece ==
    ASSUME NEW start \in Nat, start % PGSZ = 0, NEW n \in Nat, n % PGSZ = 0, NEW x \in Nat
    PROVE  Page(x) \in PiecePages(start, n) <=> start <= x /\ x < start + n
<1>1. ASSUME start <= x, x < start + n PROVE Page(x) \in PiecePages(start, n)
  <2>1. x - start \in 0 .. n - 1 /\ start + (x - start) = x
    BY <1>1
  <2>2. QED  BY <2>1 DEF PiecePages
<1>2. ASSUME Page(x) \in PiecePages(start, n) PROVE start <= x /\ x < start + n
  <2>1. PICK k \in 0 .. n - 1 : Page(x) = Page(start + k)
    BY <1>2 DEF PiecePages
  <2>2. start + k \in Nat /\ start <= start + k /\ ~ (start + n <= start + k) /\ start + n \in Nat
    BY <2>1
  <2>3. (start + n) % PGSZ = 0
    BY EvenSum
  <2>4. start <= x /\ ~ (start + n <= x)
    BY <2>1, <2>2, <2>3, SamePage
  <2>5. QED  BY <2>2, <2>4
<1>3. QED  BY <1>1, <1>2

\* The pages behind a piece of range r are in the box of r.
LEMMA PieceInBox ==
    ASSUME RangesInv, PhysInv, NEW m \in Mms, NEW start \in Nat, NEW n \in Nat,
           NEW r \in Rs[m], r.start <= start, start + n <= r.end,
           NEW v \in PiecePages(start, n)
    PROVE  /\ v \in VPages
           /\ map[m][v] # NULL => r.box \in Boxes /\ map[m][v] \in box[r.box].msas
<1>1. PICK k \in 0 .. n - 1 : v = Page(start + k)
  BY DEF PiecePages
<1> DEFINE x == start + k
<1>2. /\ {r.start, r.end, END} \subseteq Nat /\ r.end <= END /\ 2 <= r.start /\ r.box \in Boxes \cup {NULL}
      /\ Apart(Rs[m])
  BY RsFacts, VmaAssumption DEF PGSZ
<1>3. x \in Addrs \ {END} /\ x \in Nat /\ r.start <= x /\ x < r.end
  BY <1>1, <1>2 DEF Addrs
<1>4. v = Page(x) /\ v \in VPages
  BY <1>1, <1>3 DEF VPages
<1> HIDE DEF x
<1>5. ASSUME map[m][v] # NULL PROVE r.box \in Boxes /\ map[m][v] \in box[r.box].msas
  <2>1. PICK s \in Rs[m] : s.start <= x /\ x < s.end /\ s.box # NULL /\ map[m][v] \in Msas[s.box]
    BY <1>3, <1>4, <1>5 DEF PhysInv, Behind
  <2>2. s.start \in Nat /\ s.end \in Nat
    BY RsFacts
  <2>3. ~ (s.end <= r.start) /\ ~ (r.end <= s.start)
    BY <2>1, <2>2, <1>2, <1>3
  <2>4. s = r
    BY <2>3, <1>2 DEF Apart
  <2>5. QED  BY <2>1, <2>4, <1>2 DEF Msas
<1>6. QED  BY <1>4, <1>5

\* Page tables mp2 are those of map without the virtual pages P of m.
Unmaps(mp2, m, P) == mp2 = [map EXCEPT ![m] = [v \in VPages |-> IF v \in P THEN NULL ELSE map[m][v]]]

\* What is freed are all pages behind virtual pages P of m.
LEMMA PagesFreed ==
    ASSUME map \in [Mms -> [VPages -> Frames \cup {NULL}]], PagesOK(map, ufree, lost),
           ufree \subseteq Frames, lost \subseteq Frames, NEW m \in Mms, NEW P, P \subseteq VPages,
           NEW mp2, Unmaps(mp2, m, P), NEW uf2, uf2 = ufree \cup ({map[m][v] : v \in P} \ {NULL})
    PROVE  mp2 \in [Mms -> [VPages -> Frames \cup {NULL}]] /\ uf2 \subseteq Frames /\ PagesOK(mp2, uf2, lost)
<1> DEFINE F == {map[m][v] : v \in P} \ {NULL}
<1>1. /\ \A v \in VPages : mp2[m][v] = IF v \in P THEN NULL ELSE map[m][v]
      /\ \A k \in Mms \ {m} : mp2[k] = map[k]
  BY DEF Unmaps
<1>2. mp2 \in [Mms -> [VPages -> Frames \cup {NULL}]] /\ uf2 \subseteq Frames
  BY DEF Unmaps
<1>3. \A f : f \in F <=> f # NULL /\ \E v \in P : map[m][v] = f
  OBVIOUS
<1>4. uf2 = ufree \cup F
  OBVIOUS
<1> HIDE DEF F
<1>5. \A k \in Mms, v \in VPages : mp2[k][v] # NULL => mp2[k][v] = map[k][v] /\ ~ (k = m /\ v \in P)
  BY <1>1
<1>6. \A k \in Mms, v \in VPages : ~ (k = m /\ v \in P) => mp2[k][v] = map[k][v]
  BY <1>1
<1>7. ASSUME NEW f \in Frames
      PROVE  f \in uf2 <=> f \notin lost /\ \A k \in Mms, v \in VPages : mp2[k][v] # f
  <2>1. f # NULL
    BY VmaAssumption
  <2>2. f \in ufree <=> f \notin lost /\ \A k \in Mms, v \in VPages : map[k][v] # f
    BY DEF PagesOK
  <2>3. ASSUME f \in ufree PROVE f \notin lost /\ \A k \in Mms, v \in VPages : mp2[k][v] # f
    BY <2>1, <2>2, <2>3, <1>5
  <2>4. ASSUME f \in F PROVE f \notin lost /\ \A k \in Mms, v \in VPages : mp2[k][v] # f
    <3>1. PICK w \in P : map[m][w] = f
      BY <2>4, <1>3
    <3>2. f \notin lost
      BY <3>1 DEF PagesOK
    <3>3. ASSUME NEW k \in Mms, NEW v \in VPages, mp2[k][v] = f PROVE FALSE
      <4>1. map[k][v] = f /\ ~ (k = m /\ v \in P)
        BY <3>3, <2>1, <1>5
      <4>2. k = m /\ v = w
        BY <4>1, <3>1, <2>1 DEF PagesOK
      <4>3. QED  BY <4>1, <4>2, <3>1
    <3>4. QED  BY <3>2, <3>3
  <2>5. ASSUME f \notin lost, \A k \in Mms, v \in VPages : mp2[k][v] # f PROVE f \in ufree \cup F
    <3>1. CASE \A k \in Mms, v \in VPages : map[k][v] # f  BY <3>1, <2>2, <2>5
    <3>2. CASE \E k \in Mms, v \in VPages : map[k][v] = f
      BY <3>2, <2>1, <2>5, <1>3, <1>6
    <3>3. QED  BY <3>1, <3>2
  <2>6. QED  BY <2>3, <2>4, <2>5, <1>4
<1>8. ASSUME NEW f \in lost, NEW k \in Mms, NEW v \in VPages PROVE mp2[k][v] # f
  BY <1>5, VmaAssumption DEF PagesOK
<1>9. ASSUME NEW j \in Mms, NEW k \in Mms, NEW v \in VPages, NEW w \in VPages,
             mp2[j][v] # NULL, mp2[j][v] = mp2[k][w]
      PROVE  j = k /\ v = w
  BY <1>5, <1>9 DEF PagesOK
<1>10. QED  BY <1>2, <1>7, <1>8, <1>9 DEF PagesOK

\* Boxes bx have the counts of the boxes, and their pages but for those behind
\* virtual pages P of m.
Emptied(bx, m, P) ==
    /\ bx \in [Boxes -> [cont : Int, msas : SUBSET Frames]]
    /\ \A c \in Boxes :
           /\ bx[c].cont = box[c].cont
           /\ \A f \in box[c].msas : f \in bx[c].msas \/ \E v \in P : map[m][v] = f

\* vma_del_unmapping_phyadrs frees every page behind the piece.
LEMMA Unmapped ==
    ASSUME RangesInv, PhysInv, NEW m \in Mms, NEW start \in Nat, NEW n \in Nat,
           NEW r \in Rs[m], r.start <= start, start + n <= r.end,
           NEW u, u = vma_del_unmapping_phyadrs(m, r.box, start, n)
    PROVE  /\ PiecePages(start, n) \subseteq VPages
           /\ Unmaps(u.map, m, PiecePages(start, n))
           /\ u.map \in [Mms -> [VPages -> Frames \cup {NULL}]] /\ u.ufree \subseteq Frames
           /\ PagesOK(u.map, u.ufree, lost) /\ Emptied(u.box, m, PiecePages(start, n))
           /\ r.box = NULL => u.box = box
<1> DEFINE P == PiecePages(start, n)
           F == {map[m][v] : v \in P} \ {NULL}
           b == r.box
           del == IF b = NULL THEN {} ELSE F \cap box[b].msas
<1>1. /\ u.map = [map EXCEPT ![m] = [v \in VPages |-> IF v \in P THEN NULL ELSE map[m][v]]]
      /\ u.box = IF b = NULL THEN box ELSE [box EXCEPT ![b].msas = @ \ del]
      /\ u.ufree = ufree \cup del
  BY DEF vma_del_unmapping_phyadrs, PiecePages
<1>2. /\ map \in [Mms -> [VPages -> Frames \cup {NULL}]] /\ PagesOK(map, ufree, lost)
      /\ ufree \subseteq Frames /\ lost \subseteq Frames
      /\ box \in [Boxes -> [cont : Int, msas : SUBSET Frames]]
  BY DEF PhysInv
<1>3. \A v \in P : v \in VPages /\ (map[m][v] # NULL => b \in Boxes /\ map[m][v] \in box[b].msas)
  BY PieceInBox
<1>4. b \in Boxes \cup {NULL} /\ NULL \notin Boxes
  BY RsFacts, VmaAssumption
<1>5. \A f \in F : b \in Boxes /\ f \in box[b].msas
  BY <1>3
<1> HIDE DEF P, b
<1>6. del = F
  BY <1>4, <1>5
<1>7. Unmaps(u.map, m, P)
  BY <1>1 DEF Unmaps
<1>8. \A f \in F : \E v \in P : map[m][v] = f
  OBVIOUS
<1> HIDE DEF del
<1>9. u.map \in [Mms -> [VPages -> Frames \cup {NULL}]] /\ u.ufree \subseteq Frames /\ PagesOK(u.map, u.ufree, lost)
  <2>1. P \subseteq VPages /\ u.ufree = ufree \cup F
    BY <1>1, <1>3, <1>6
  <2>2. QED  BY <2>1, <1>2, <1>7, PagesFreed
<1> HIDE DEF F
<1>10. Emptied(u.box, m, P)
  <2>1. CASE b = NULL
    <3>1. u.box = box
      BY <2>1, <1>1
    <3>2. QED  BY <3>1, <1>2 DEF Emptied
  <2>2. CASE b # NULL
    <3> DEFINE h == [box[b] EXCEPT !.msas = @ \ F]
    <3>1. b \in Boxes /\ box[b] \in [cont : Int, msas : SUBSET Frames] /\ u.box = [box EXCEPT ![b] = h]
      BY <2>2, <1>1, <1>2, <1>4, <1>6
    <3>2. h \in [cont : Int, msas : SUBSET Frames] /\ h.cont = box[b].cont /\ h.msas = box[b].msas \ F
      BY <3>1
    <3> HIDE DEF h
    <3>3. u.box \in [Boxes -> [cont : Int, msas : SUBSET Frames]]
      BY <3>1, <3>2, <1>2
    <3>4. u.box[b] = h /\ \A c \in Boxes \ {b} : u.box[c] = box[c]
      BY <3>1, <1>2
    <3>5. QED  BY <3>2, <3>3, <3>4, <1>8 DEF Emptied
  <2>3. QED  BY <2>1, <2>2
<1>11. P \subseteq VPages
  BY <1>3
<1>12. QED  BY <1>1, <1>7, <1>9, <1>10, <1>11 DEF P, b

\* The pages ms[c] of the boxes are those of bx. Ranges R2 are those of the
\* processes, with W in the place of r.
MsasOf(ms, bx) == \A c \in Boxes : ms[c] = bx[c].msas
Replaces(R2, m, r, W) == R2[m] = Swap(Rs[m], r, W) /\ \A k \in Mms \ {m} : R2[k] = Rs[k]

\* Pages stay behind the addresses that are left.
LEMMA BehindRest ==
    ASSUME RangesInv, PhysInv, NEW m \in Mms, NEW start \in Nat, start % PGSZ = 0, NEW n \in Nat, n % PGSZ = 0,
           NEW r \in Rs[m], NEW W, Rest(r, start, n, W),
           NEW R2, Replaces(R2, m, r, W), NEW mp2, Unmaps(mp2, m, PiecePages(start, n)),
           NEW bx, Emptied(bx, m, PiecePages(start, n)), PiecePages(start, n) \subseteq VPages,
           NEW ms2, MsasOf(ms2, bx)
    PROVE  Behind(R2, ms2, mp2)
<1> DEFINE P == PiecePages(start, n)
<1> SUFFICES ASSUME NEW k \in Mms, NEW x \in Addrs \ {END}, mp2[k][Page(x)] # NULL
             PROVE  \E s \in R2[k] : /\ s.start <= x /\ x < s.end
                                     /\ s.box # NULL /\ mp2[k][Page(x)] \in ms2[s.box]
  BY DEF Behind
<1>1. x \in Nat /\ Page(x) \in VPages
  BY VmaAssumption DEF Addrs, VPages
<1>2. map \in [Mms -> [VPages -> Frames \cup {NULL}]] /\ PagesOK(map, ufree, lost) /\ Behind(Rs, Msas, map)
  BY DEF PhysInv
<1>3. mp2[k][Page(x)] = map[k][Page(x)] /\ ~ (k = m /\ Page(x) \in P)
  BY <1>1, <1>2 DEF Unmaps
<1>4. PICK s \in Rs[k] : s.start <= x /\ x < s.end /\ s.box # NULL /\ map[k][Page(x)] \in Msas[s.box]
  BY <1>2, <1>3 DEF Behind
<1>5. s.box \in Boxes
  BY <1>4, RsFacts
<1>6. map[k][Page(x)] \in ms2[s.box]
  <2>1. map[k][Page(x)] \in box[s.box].msas
    BY <1>4, <1>5 DEF Msas
  <2>2. ASSUME NEW v \in P, map[m][v] = map[k][Page(x)] PROVE FALSE
    BY <2>2, <1>1, <1>2, <1>3 DEF PagesOK
  <2>3. QED  BY <2>1, <2>2, <1>5 DEF Emptied, MsasOf
<1>7. R2[m] = Swap(Rs[m], r, W) /\ \A j \in Mms \ {m} : R2[j] = Rs[j]
  BY DEF Replaces
<1>8. CASE k = m /\ s = r
  <2>1. ~ (start <= x /\ x < start + n)
    BY <1>1, <1>3, <1>8, InPiece
  <2>2. PICK w \in W : w.start <= x /\ x < w.end
    BY <2>1, <1>1, <1>4, <1>8 DEF Rest
  <2>3. w \in R2[m] /\ w.box = r.box
    BY <1>7 DEF Swap, Rest
  <2>4. QED  BY <2>2, <2>3, <1>3, <1>4, <1>6, <1>8
<1>9. CASE ~ (k = m /\ s = r)
  <2>1. s \in R2[k]
    BY <1>7, <1>9 DEF Swap
  <2>2. QED  BY <2>1, <1>3, <1>4, <1>6
<1>10. QED  BY <1>8, <1>9

\* knl_put_kvmemcbox counts a user less; with the last one the box is put into
\* the cache or given up.
LEMMA PutOK ==
    ASSUME MgrOK(mgr), NEW b \in Boxes, b \in mgr.head, NEW bx, bx \in [Boxes -> [cont : Int, msas : SUBSET Frames]],
           NEW p, p = knl_put_kvmemcbox(b, bx)
    PROVE  /\ p.box = [bx EXCEPT ![b].cont = @ - 1]
           /\ MgrOK(p.mgr)
           /\ p.mgr.head = IF bx[b].cont - 1 >= 1 THEN mgr.head ELSE mgr.head \ {b}
<1> DEFINE bx1 == [bx EXCEPT ![b].cont = @ - 1]
           h2 == mgr.head \ {b}
           k == mgr.nr - 1
           c == mgr.cache
           c2 == <<b>> \o c
           d == mgr.cachenr + 1
<1>1. bx1[b].cont = bx[b].cont - 1
  OBVIOUS
<1>2. b # NULL
  BY VmaAssumption
<1>3. /\ mgr \in [head : SUBSET Boxes, nr : Int, cache : Seq(Boxes), cachenr : Int]
      /\ c \in Seq(Boxes) /\ Len(c) \in Nat /\ mgr.head \subseteq Boxes
      /\ IsFiniteSet(mgr.head) /\ mgr.nr = Cardinality(mgr.head) /\ mgr.cachenr = Len(c)
      /\ \A i, j \in 1 .. Len(c) : c[i] = c[j] => i = j
      /\ \A i \in 1 .. Len(c) : c[i] \notin mgr.head
  BY DEF MgrOK
<1>4. IsFiniteSet(h2) /\ Cardinality(h2) = k /\ h2 \subseteq Boxes
  BY <1>3, FS_RemoveElement
<1>5. CASE bx1[b].cont >= 1
  <2>1. p = [box |-> bx1, mgr |-> mgr]
    BY <1>2, <1>5 DEF knl_put_kvmemcbox
  <2> HIDE DEF bx1
  <2>2. p.box = bx1 /\ p.mgr = mgr
    BY <2>1
  <2>3. QED  BY <2>2, <1>1, <1>5 DEF bx1
<1>6. CASE ~ (bx1[b].cont >= 1) /\ mgr.cachenr >= CACHEMAX
  <2> DEFINE g == [mgr EXCEPT !.head = h2, !.nr = k]
             x == [mgr EXCEPT !.head = h2]
  <2>1. p = [box |-> bx1, mgr |-> g]
    BY <1>2, <1>6 DEF knl_put_kvmemcbox
  <2> HIDE DEF bx1, h2, k
  <2>2. x = [head |-> h2, nr |-> mgr.nr, cache |-> c, cachenr |-> mgr.cachenr]
    <3>1. mgr \in [head : SUBSET Boxes, nr : Int, cache : Seq(Boxes), cachenr : Int]
      BY <1>3
    <3>2. QED  BY ONLY <3>1
  <2>3. g = [x EXCEPT !.nr = k]
    OBVIOUS
  <2> HIDE DEF x
  <2>4. g = [head |-> h2, nr |-> k, cache |-> c, cachenr |-> mgr.cachenr]
    BY <2>2, <2>3
  <2> HIDE DEF g
  <2>5. p.box = bx1 /\ p.mgr = g /\ g.head = h2
    BY <2>1, <2>4
  <2> HIDE DEF c
  <2>6. Kept(h2, c)
    BY <1>3, <1>4 DEF Kept, h2
  <2>7. MgrOK(g)
    <3>1. k = Cardinality(h2) /\ mgr.cachenr = Len(c)
      BY <1>3, <1>4
    <3>2. QED  BY ONLY <2>4, <2>6, <3>1, MakeMgr
  <2>8. QED  BY <2>5, <2>7, <1>1, <1>6 DEF bx1, h2
<1>7. CASE ~ (bx1[b].cont >= 1) /\ ~ (mgr.cachenr >= CACHEMAX)
  <2> DEFINE g == [head |-> h2, nr |-> k, cache |-> c2, cachenr |-> d]
  <2>1. p = [box |-> bx1, mgr |-> g]
    BY <1>2, <1>7 DEF knl_put_kvmemcbox
  <2>2. c2 \in Seq(Boxes) /\ Len(c2) = Len(c) + 1 /\ d = Len(c2)
    BY <1>3
  <2>3. \A i \in 1 .. Len(c2) : c2[i] = IF i = 1 THEN b ELSE c[i - 1]
    BY <1>3
  <2> HIDE DEF bx1, k, c2, d
  <2>4. p.box = bx1 /\ p.mgr = g /\ g.head = h2
    BY <2>1
  <2>5. \A i \in 1 .. Len(c2) : i # 1 => i - 1 \in 1 .. Len(c)
    BY <2>2, <1>3
  <2>6. \A i \in 1 .. Len(c2) : c2[i] \notin h2
    BY <2>3, <2>5, <1>3
  <2> HIDE DEF h2
  <2>7. ASSUME NEW i \in 1 .. Len(c2), NEW j \in 1 .. Len(c2), c2[i] = c2[j] PROVE i = j
    <3>1. CASE i = 1 \/ j = 1
      <4>1. \A l \in 1 .. Len(c) : c[l] # b
        BY <1>3
      <4>2. QED  BY <2>3, <2>5, <2>7, <3>1, <4>1
    <3>2. CASE i # 1 /\ j # 1
      <4>1. i - 1 = j - 1
        <5>1. c2[i] = c[i - 1] /\ c2[j] = c[j - 1] /\ i - 1 \in 1 .. Len(c) /\ j - 1 \in 1 .. Len(c)
          BY <2>3, <2>5, <3>2
        <5>2. QED  BY <5>1, <2>7, <1>3
      <4>2. QED  BY <4>1, <2>2, <1>3
    <3>3. QED  BY <3>1, <3>2
  <2> HIDE DEF c
  <2>8. Kept(h2, c2)
    BY <2>2, <2>6, <2>7, <1>4 DEF Kept
  <2>9. MgrOK(g)
    BY <2>2, <2>8, <1>4, MakeMgr
  <2> HIDE DEF g
  <2>10. QED  BY <2>4, <2>9, <1>1, <1>7 DEF bx1, h2
<1>8. QED  BY <1>5, <1>6, <1>7

\* The counts of the boxes, when box c counts k more.
LEMMA CountMore ==
    ASSUME NEW bx \in [Boxes -> [cont : Int, msas : SUBSET Frames]], NEW c \in Boxes, NEW k \in Int,
           NEW bx2, bx2 = [bx EXCEPT ![c].cont = @ + k]
    PROVE  /\ bx2 \in [Boxes -> [cont : Int, msas : SUBSET Frames]]
           /\ bx2[c].cont = bx[c].cont + k /\ \A d \in Boxes \ {c} : bx2[d].cont = bx[d].cont
           /\ \A d \in Boxes : bx2[d].msas = bx[d].msas
<1> DEFINE h == [bx[c] EXCEPT !.cont = @ + k]
<1>1. bx[c] \in [cont : Int, msas : SUBSET Frames] /\ bx2 = [bx EXCEPT ![c] = h]
  OBVIOUS
<1>2. h \in [cont : Int, msas : SUBSET Frames] /\ h.cont = bx[c].cont + k /\ h.msas = bx[c].msas
  BY <1>1
<1> HIDE DEF h
<1>3. bx2 \in [Boxes -> [cont : Int, msas : SUBSET Frames]]
  BY <1>1, <1>2
<1>4. bx2[c] = h /\ \A d \in Boxes \ {c} : bx2[d] = bx[d]
  BY <1>1
<1>5. QED  BY <1>2, <1>3, <1>4

\* Boxes and the manager when ranges W took the place of r.
Settled(m, r, W, bx) ==
    LET U == Swap(Users(Rs[m], r.box), r, W)
    IN  /\ IsFiniteSet(W)
        /\ MgrOK(mgr') /\ box' \in [Boxes -> [cont : Int, msas : SUBSET Frames]]
        /\ \A c \in Boxes : box'[c].msas = bx[c].msas
        /\ \A c \in Boxes \ {r.box} : box'[c].cont = box[c].cont /\ (c \in mgr'.head <=> c \in mgr.head)
        /\ r.box \in Boxes => (r.box \in mgr'.head <=> U # {}) /\ box'[r.box].cont = Cardinality(U)

\* vma_del_vadrs_core counts the users of the box of r in each of its cases.
LEMMA Settling ==
    ASSUME RangesInv, PhysInv, NEW m \in Mms, NEW start \in Nat, NEW n \in Nat, NEW r, NEW W,
           Back(m, start, n, r, W)
    PROVE  Settled(m, r, W, vma_del_unmapping_phyadrs(m, r.box, start, n).box)
<1> DEFINE u == vma_del_unmapping_phyadrs(m, r.box, start, n)
           p == knl_put_kvmemcbox(r.box, u.box)
           b == r.box
           U == Users(Rs[m], b)
<1> SUFFICES Settled(m, r, W, u.box)
  OBVIOUS
<1>1. /\ r \in Rs[m] /\ r.start <= start /\ start + n <= r.end /\ Rest(r, start, n, W)
      /\ \/ W = {} /\ box' = p.box /\ mgr' = p.mgr
         \/ (\E q : W = {q}) /\ box' = u.box /\ mgr' = mgr
         \/ /\ \E q, s : q # s /\ W = {q, s}
            /\ box' = IF b = NULL THEN box ELSE [u.box EXCEPT ![b].cont = @ + 1]
            /\ mgr' = mgr
  BY DEF Back
<1>2. Emptied(u.box, m, PiecePages(start, n)) /\ (b = NULL => u.box = box)
  <2>1. u = vma_del_unmapping_phyadrs(m, r.box, start, n)
    OBVIOUS
  <2> HIDE DEF u
  <2>2. QED  BY <2>1, <1>1, Unmapped
<1> HIDE DEF u
<1>3. /\ u.box \in [Boxes -> [cont : Int, msas : SUBSET Frames]]
      /\ \A c \in Boxes : u.box[c].cont = box[c].cont
  BY <1>2 DEF Emptied
<1>4. MgrOK(mgr) /\ UseOK(Rs, Conts, mgr.head)
  BY DEF PhysInv
<1>5. r \in U /\ U \subseteq Rs[m] /\ IsFiniteSet(Rs[m]) /\ b \in Boxes \cup {NULL} /\ NULL \notin Boxes
  BY <1>1, <1>4, RsFacts, VmaAssumption DEF Users, UseOK
<1>6. b \in Boxes => b \in mgr.head /\ box[b].cont = Cardinality(U)
  BY <1>4, <1>5 DEF UseOK, Conts
<1>7. \A w \in W : w \notin Rs[m] \ {r}
  <2> SUFFICES ASSUME NEW w \in W PROVE w \notin Rs[m] \ {r}
    OBVIOUS
  <2>1. w \in Dsc /\ r.start <= w.start /\ w.start < w.end /\ w.end <= r.end
    BY <1>1 DEF Rest
  <2>2. w.start \in Nat /\ w.end \in Nat /\ r.end \in Nat
    BY <2>1, <1>1, RsFacts DEF Dsc
  <2>3. w.start < r.end
    BY <2>1, <2>2
  <2>4. QED  BY <2>1, <2>2, <2>3, <1>1, NotAnother
<1> HIDE DEF b, U
<1>8. /\ Cardinality(U) \in Nat /\ Cardinality(U) >= 1
      /\ Cardinality(Swap(U, r, {})) = Cardinality(U) - 1
      /\ Swap(U, r, {}) = {} <=> Cardinality(U) = 1
      /\ \A q : q \notin Rs[m] \ {r} => Cardinality(Swap(U, r, {q})) = Cardinality(U)
      /\ \A q, s : q \notin Rs[m] \ {r} /\ s \notin Rs[m] \ {r} /\ q # s =>
             Cardinality(Swap(U, r, {q, s})) = Cardinality(U) + 1
  BY <1>1, <1>5, SwapCount
<1>8a. ASSUME IsFiniteSet(W), MgrOK(mgr'), box' \in [Boxes -> [cont : Int, msas : SUBSET Frames]],
              \A c \in Boxes : box'[c].msas = u.box[c].msas,
              \A c \in Boxes \ {b} : box'[c].cont = box[c].cont /\ (c \in mgr'.head <=> c \in mgr.head),
              b \in Boxes => (b \in mgr'.head <=> Swap(U, r, W) # {}) /\ box'[b].cont = Cardinality(Swap(U, r, W))
       PROVE  Settled(m, r, W, u.box)
  BY <1>8a DEF Settled, b, U
<1> HIDE DEF p
<1>9. CASE W = {} /\ box' = p.box /\ mgr' = p.mgr
  <2>1. IsFiniteSet(W)
    BY <1>9, FS_EmptySet
  <2>2. CASE b = NULL
    <3>1. box' = u.box /\ mgr' = mgr
      BY <2>2, <1>9 DEF knl_put_kvmemcbox, b, p
    <3>2. QED  BY <2>1, <2>2, <3>1, <1>3, <1>4, <1>5, <1>8a
  <2>3. CASE b # NULL
    <3>1. b \in Boxes /\ b \in mgr.head /\ box[b].cont = Cardinality(U)
      BY <2>3, <1>5, <1>6
    <3>2. p = knl_put_kvmemcbox(b, u.box)
      BY DEF b, p
    <3>3. /\ box' = [u.box EXCEPT ![b].cont = @ - 1] /\ MgrOK(mgr')
          /\ mgr'.head = IF u.box[b].cont - 1 >= 1 THEN mgr.head ELSE mgr.head \ {b}
      BY <3>1, <3>2, <1>3, <1>4, <1>9, PutOK
    <3>4. /\ box' \in [Boxes -> [cont : Int, msas : SUBSET Frames]]
          /\ box'[b].cont = u.box[b].cont - 1 /\ \A d \in Boxes \ {b} : box'[d].cont = u.box[d].cont
          /\ \A d \in Boxes : box'[d].msas = u.box[d].msas
      <4>1. u.box[b].cont \in Int
        BY <3>1, <1>3
      <4>2. box' = [u.box EXCEPT ![b].cont = @ + (-1)]
        BY <3>3, <4>1
      <4>3. QED  BY <3>1, <4>1, <4>2, <1>3, CountMore
    <3>5. box'[b].cont = Cardinality(U) - 1 /\ (b \in mgr'.head <=> Cardinality(U) # 1)
      BY <3>1, <3>3, <3>4, <1>3, <1>8
    <3>6. \A c \in Boxes \ {b} : box'[c].cont = box[c].cont /\ (c \in mgr'.head <=> c \in mgr.head)
      BY <3>3, <3>4, <1>3
    <3>7. (b \in mgr'.head <=> Swap(U, r, W) # {}) /\ box'[b].cont = Cardinality(Swap(U, r, W))
      BY <3>5, <1>8, <1>9
    <3>8. QED  BY <2>1, <3>3, <3>4, <3>6, <3>7, <1>8a
  <2>4. QED  BY <2>2, <2>3
<1>10. CASE (\E q : W = {q}) /\ box' = u.box /\ mgr' = mgr
  <2>1. PICK q : W = {q}
    BY <1>10
  <2>2. IsFiniteSet(W) /\ Swap(U, r, W) # {}
    BY <2>1, FS_Singleton DEF Swap
  <2>3. Cardinality(Swap(U, r, W)) = Cardinality(U)
    BY <2>1, <1>7, <1>8
  <2>4. QED  BY <2>2, <2>3, <1>3, <1>4, <1>6, <1>8a, <1>10
<1>11. CASE /\ \E q, s : q # s /\ W = {q, s}
            /\ box' = IF b = NULL THEN box ELSE [u.box EXCEPT ![b].cont = @ + 1]
            /\ mgr' = mgr
  <2>1. PICK q, s : q # s /\ W = {q, s}
    BY <1>11
  <2>2. IsFiniteSet(W) /\ Swap(U, r, W) # {}
    <3>1. IsFiniteSet({q}) /\ IsFiniteSet({q} \cup {s}) /\ W = {q} \cup {s}
      BY <2>1, FS_Singleton, FS_AddElement
    <3>2. QED  BY <2>1, <3>1 DEF Swap
  <2>3. Cardinality(Swap(U, r, W)) = Cardinality(U) + 1
    BY <2>1, <1>7, <1>8
  <2>4. CASE b = NULL
    <3>1. box' = u.box
      BY <2>4, <1>2, <1>11 DEF b
    <3>2. QED  BY <2>2, <2>4, <3>1, <1>3, <1>4, <1>5, <1>8a, <1>11
  <2>5. CASE b # NULL
    <3>1. b \in Boxes /\ b \in mgr.head /\ box[b].cont = Cardinality(U)
      BY <2>5, <1>5, <1>6
    <3>2. /\ box' \in [Boxes -> [cont : Int, msas : SUBSET Frames]]
          /\ box'[b].cont = u.box[b].cont + 1 /\ \A d \in Boxes \ {b} : box'[d].cont = u.box[d].cont
          /\ \A d \in Boxes : box'[d].msas = u.box[d].msas
      BY <2>5, <3>1, <1>3, <1>11, CountMore
    <3>3. \A c \in Boxes \ {b} : box'[c].cont = box[c].cont /\ (c \in mgr'.head <=> c \in mgr.head)
      BY <3>2, <1>3, <1>11
    <3>4. (b \in mgr'.head <=> Swap(U, r, W) # {}) /\ box'[b].cont = Cardinality(Swap(U, r, W))
      BY <2>2, <2>3, <3>1, <3>2, <1>3, <1>11
    <3>5. QED  BY <2>2, <3>2, <3>3, <3>4, <1>4, <1>8a, <1>11
  <2>6. QED  BY <2>4, <2>5
<1>12. QED  BY <1>1, <1>9, <1>10, <1>11

\* Without a piece of r, the ranges have the addresses they had but for those
\* of the piece.
LEMMA CoveredRest ==
    ASSUME RangesInv, NEW m \in Mms, NEW start \in Nat, NEW n \in Nat, NEW r \in Rs[m],
           r.start <= start, start + n <= r.end, NEW W, Rest(r, start, n, W)
    PROVE  \A x \in Addrs : x \in Covered(Swap(Rs[m], r, W))
                            <=> x \in Covered(Rs[m]) /\ ~ (start <= x /\ x < start + n)
<1> SUFFICES ASSUME NEW x \in Addrs
             PROVE  x \in Covered(Swap(Rs[m], r, W)) <=> x \in Covered(Rs[m]) /\ ~ (start <= x /\ x < start + n)
  OBVIOUS
<1> DEFINE Has(s) == s.start <= x /\ x < s.end
<1>1. x \in Nat /\ Apart(Rs[m]) /\ \A s \in Rs[m] : s.start \in Nat /\ s.end \in Nat
  BY RsFacts, VmaAssumption DEF Addrs
<1>2. (\E w \in W : Has(w)) <=> Has(r) /\ ~ (start <= x /\ x < start + n)
  BY <1>1 DEF Rest
<1>3. ASSUME start <= x, x < start + n PROVE \A s \in Rs[m] \ {r} : ~ Has(s)
  <2> SUFFICES ASSUME NEW s \in Rs[m], s # r, Has(s) PROVE FALSE
    OBVIOUS
  <2>1. s.end <= r.start \/ r.end <= s.start
    BY <1>1 DEF Apart
  <2>2. QED  BY <2>1, <1>1, <1>3
<1>4. x \in Covered(Rs[m]) <=> \E s \in Rs[m] : Has(s)
  BY DEF Covered
<1>5. x \in Covered(Swap(Rs[m], r, W)) <=> (\E s \in Rs[m] \ {r} : Has(s)) \/ (\E w \in W : Has(w))
  BY DEF Covered, Swap
<1> HIDE DEF Has
<1>6. QED  BY <1>2, <1>3, <1>4, <1>5

\* A piece that comes back keeps boxes and pages in order. The ranges of m lose
\* its addresses, and the page tables of m what is behind them.
LEMMA BackStep ==
    ASSUME RangesInv, RangesInv', PhysInv, NEW m \in Mms, NEW start \in Nat, start % PGSZ = 0,
           NEW n \in Nat, n % PGSZ = 0, NEW r, NEW W, Back(m, start, n, r, W)
    PROVE  /\ PhysInv' /\ Unmaps(map', m, PiecePages(start, n))
           /\ \A k \in Mms \ {m} : Rs'[k] = Rs[k]
           /\ \A x \in Addrs : x \in Covered(Rs'[m]) <=> x \in Covered(Rs[m]) /\ ~ (start <= x /\ x < start + n)
           /\ r \in Rs[m] /\ r.start <= start /\ start + n <= r.end
<1> DEFINE u == vma_del_unmapping_phyadrs(m, r.box, start, n)
<1>1. /\ Rs' = [Rs EXCEPT ![m] = Swap(Rs[m], r, W)] /\ Rest(r, start, n, W)
      /\ r \in Rs[m] /\ r.start <= start /\ start + n <= r.end
      /\ map' = u.map /\ ufree' = u.ufree /\ lost' = lost
  BY DEF Back
<1>2. Settled(m, r, W, u.box)
  BY Settling
<1>3. /\ PiecePages(start, n) \subseteq VPages
      /\ Unmaps(u.map, m, PiecePages(start, n))
      /\ u.map \in [Mms -> [VPages -> Frames \cup {NULL}]] /\ u.ufree \subseteq Frames
      /\ PagesOK(u.map, u.ufree, lost) /\ Emptied(u.box, m, PiecePages(start, n))
  <2>1. u = vma_del_unmapping_phyadrs(m, r.box, start, n)
    OBVIOUS
  <2> HIDE DEF u
  <2>2. QED  BY <2>1, <1>1, Unmapped
<1> HIDE DEF u
<1>4. MgrOK(mgr') /\ box' \in [Boxes -> [cont : Int, msas : SUBSET Frames]]
  BY <1>2 DEF Settled
<1>5. \A c \in Boxes : Msas'[c] = u.box[c].msas
  BY <1>2 DEF Settled, Msas
<1>6. Rs'[m] = Swap(Rs[m], r, W) /\ \A k \in Mms \ {m} : Rs'[k] = Rs[k]
  BY <1>1 DEF Rs
<1>7. Behind(Rs', Msas', map')
  <2>1. Unmaps(map', m, PiecePages(start, n))
    BY <1>1, <1>3
  <2>2. Replaces(Rs', m, r, W)
    BY <1>6 DEF Replaces
  <2>3. MsasOf(Msas', u.box)
    BY <1>5 DEF MsasOf
  <2>4. QED  BY <2>1, <2>2, <2>3, <1>1, <1>3, BehindRest
<1>8. UseOK(Rs', Conts', mgr'.head)
  <2>1. UseOK(Rs, Conts, mgr.head)
    BY DEF PhysInv
  <2>2. \A w \in W : w.box = r.box
    BY <1>1 DEF Rest
  <2>3. \A c \in Boxes : Conts[c] = box[c].cont /\ Conts'[c] = box'[c].cont
    BY DEF Conts
  <2>4. SwapsUse(Rs, Rs', Conts, Conts', mgr.head, mgr'.head, m, r, W)
    BY <2>2, <2>3, <1>2, <1>6 DEF SwapsUse, Settled
  <2>5. QED  BY <2>1, <2>4, <1>1, SwapUse
<1>9. PhysInv'
  <2>1. map' \in [Mms -> [VPages -> Frames \cup {NULL}]] /\ ufree' \subseteq Frames /\ lost' \subseteq Frames
    BY <1>1, <1>3 DEF PhysInv
  <2>2. PagesOK(map', ufree', lost')
    BY <1>1, <1>3
  <2>3. QED  BY <2>1, <2>2, <1>4, <1>7, <1>8 DEF PhysInv
<1>10. \A x \in Addrs : x \in Covered(Rs'[m]) <=> x \in Covered(Rs[m]) /\ ~ (start <= x /\ x < start + n)
  BY <1>1, <1>6, CoveredRest
<1>11. QED  BY <1>1, <1>3, <1>6, <1>9, <1>10

-----------------------------------------------------------------------------
(* Every step keeps the invariant.                                          *)

\* No process has a range at first, and every page is free.
LEMMA InitInv ==
    ASSUME Init
    PROVE  VmaInv
<1>1. <<>> \in Seq(Dsc) /\ Len(<<>>) = 0
  OBVIOUS
<1>2. Sorted(<<>>)
  BY <1>1 DEF Sorted
<1>3. ListOK(virmemadrs_t_init) /\ virmemadrs_t_init \in Space_t
  BY <1>1, <1>2 DEF ListOK, Space_t, virmemadrs_t_init
<1>4. RangesInv
  BY <1>3 DEF RangesInv, Init
<1>5. \A m \in Mms : Rs[m] = {}
  BY DEF Rs, Ranges, Init, virmemadrs_t_init
<1>6. mgr.head = {} /\ IsFiniteSet({}) /\ Cardinality({}) = 0
  BY FS_EmptySet DEF Init
<1>7. UseOK(Rs, Conts, mgr.head)
  BY <1>5, <1>6 DEF UseOK, Users
<1>8. MgrOK(mgr)
  <2> DEFINE c == <<>>
  <2>1. Kept({}, c) /\ Len(c) = 0
    BY <1>6 DEF Kept
  <2>2. mgr = [head |-> {}, nr |-> 0, cache |-> c, cachenr |-> 0]
    BY DEF Init
  <2> HIDE DEF c
  <2>3. QED  BY <2>1, <2>2, <1>6, MakeMgr
<1>9. map \in [Mms -> [VPages -> Frames \cup {NULL}]] /\ \A m \in Mms, v \in VPages : map[m][v] = NULL
  BY DEF Init
<1>10. Behind(Rs, Msas, map)
  <2>1. \A a \in Addrs : Page(a) \in VPages
    BY DEF VPages
  <2>2. QED  BY <2>1, <1>9 DEF Behind
<1>11. PagesOK(map, ufree, lost)
  BY <1>9, VmaAssumption DEF PagesOK, Init
<1>12. box \in [Boxes -> [cont : Int, msas : SUBSET Frames]] /\ ufree \subseteq Frames /\ lost \subseteq Frames
  BY DEF Init
<1>13. QED  BY ONLY <1>4, <1>7, <1>8, <1>9, <1>10, <1>11, <1>12 DEF VmaInv, PhysInv

\* Addresses are given out: nobody's ranges shrink, no other process has new
\* ones, and no page changes.
GiveOut(m) ==
    /\ Grown(Rs, Rs') /\ \A k \in Mms \ {m} : Rs'[k] = Rs[k]
    /\ map' = map

\* A page of the process may be supplied, and no address changes hands.
FaultIn(m) ==
    /\ \A k \in Mms : Covered(Rs'[k]) = Covered(Rs[k])
    /\ \/ map' = map
       \/ \E f \in ufree : \E x \in Covered(Rs[m]) : map' = [map EXCEPT ![m][Page(x)] = f]

\* Addresses of one range come back with their pages.
GiveBack(m) ==
    \E start \in Nat, n \in Nat \ {0} :
        /\ start % PGSZ = 0 /\ n % PGSZ = 0
        /\ Unmaps(map', m, PiecePages(start, n))
        /\ \A k \in Mms \ {m} : Rs'[k] = Rs[k]
        /\ \A x \in Addrs : x \in Covered(Rs'[m]) <=> x \in Covered(Rs[m]) /\ ~ (start <= x /\ x < start + n)
        /\ \E r \in Rs[m] : r.start <= start /\ start + n <= r.end

\* Sizes and addresses that are made of pages.
LEMMA WholePages ==
    ASSUME NEW k \in Nat
    PROVE  PGSZ * k \in Nat /\ (PGSZ * k) % PGSZ = 0 /\ (k > 0 => PGSZ * k > 0)
BY DEF PGSZ

\* Every step keeps the invariant and is one of the three kinds.
LEMMA StepKinds ==
    ASSUME VmaInv, Next
    PROVE  VmaInv' /\ \E m \in Mms : GiveOut(m) \/ FaultIn(m) \/ GiveBack(m)
<1>1. RangesInv /\ PhysInv
  BY DEF VmaInv
<1>2. ASSUME NEW m \in Mms, NEW start \in Nat \cup {NULL}, start # NULL => start % PGSZ = 0,
             NEW n \in Wants, NEW type \in Types, vma_new_vadrs_core(m, start, PGSZ * n, type)
      PROVE  VmaInv' /\ GiveOut(m)
  <2> DEFINE s == PGSZ * n
  <2>1. s \in Nat /\ s > 0 /\ s % PGSZ = 0
    BY VmaAssumption, WholePages
  <2> HIDE DEF s
  <2>2. vma_new_vadrs_core(m, start, s, type)
    BY <1>2 DEF s
  <2>3. RangesInv' /\ \E R2, at : Rs' = [Rs EXCEPT ![m] = R2] /\ Given(Rs[m], R2, at, s)
    BY <2>1, <2>2, <1>1, <1>2, NewPiece
  <2>4. PICK R2, at : Rs' = [Rs EXCEPT ![m] = R2] /\ Given(Rs[m], R2, at, s)
    BY <2>3
  <2>5. UNCHANGED phys
    BY <1>2 DEF vma_new_vadrs_core, phys
  <2>6. PhysInv' /\ Grown(Rs, Rs')
    BY <2>1, <2>4, <2>5, <1>1, GivenStep
  <2>7. \A k \in Mms \ {m} : Rs'[k] = Rs[k]
    BY <2>4 DEF Rs
  <2>8. QED  BY <2>3, <2>5, <2>6, <2>7 DEF VmaInv, GiveOut, phys
<1>3. ASSUME NEW m \in Mms, kvma_inituserspace_virmemadrs(m) PROVE VmaInv' /\ GiveOut(m)
  <2>1. RangesInv' /\ PhysInv' /\ Grown(Rs, Rs') /\ \A k \in Mms \ {m} : Rs'[k] = Rs[k]
    BY <1>1, <1>3, FirstRanges
  <2>2. map' = map
    BY <1>3 DEF kvma_inituserspace_virmemadrs, phys
  <2>3. QED  BY <2>1, <2>2 DEF VmaInv, GiveOut
<1>4. ASSUME NEW m \in Mms, NEW n \in Wants, krlthread_execvl(m, n) PROVE VmaInv' /\ GiveOut(m)
  <2>1. APPRUN \in Nat /\ APPRUN % PGSZ = 0 /\ "bin" \in Types
    BY VmaAssumption DEF Types
  <2>2. vma_new_vadrs_core(m, APPRUN, PGSZ * n, "bin")
    BY <1>4 DEF krlthread_execvl
  <2>3. QED  BY <2>1, <2>2, <1>2
<1>5. ASSUME NEW m \in Mms, NEW n \in Wants, krlsve_core_mallocblk(m, n) PROVE VmaInv' /\ GiveOut(m)
  <2>1. vma_new_vadrs_core(m, NULL, PGSZ * n, "heap") /\ "heap" \in Types
    BY <1>5 DEF krlsve_core_mallocblk, Types
  <2>2. QED  BY <2>1, <1>2
<1>6. ASSUME NEW m \in Mms, NEW v \in VPages, NEW n \in Wants, krlsve_core_mfreeblk(m, PGSZ * v, n)
      PROVE  VmaInv' /\ GiveBack(m)
  <2> DEFINE s == PGSZ * n
             start == PGSZ * v
  <2>1. v \in Nat
    BY VmaAssumption DEF VPages, Addrs, Page, PGSZ
  <2>2. s \in Nat /\ s > 0 /\ s % PGSZ = 0 /\ start \in Nat /\ start % PGSZ = 0
    BY <2>1, VmaAssumption, WholePages
  <2>3. vma_del_vadrs_core(m, start, s)
    BY <1>6 DEF krlsve_core_mfreeblk
  <2> HIDE DEF s, start
  <2>4. RangesInv' /\ \E r, W : Back(m, start, s, r, W)
    BY <2>2, <2>3, <1>1, <1>6, OldPiece
  <2>5. PICK r, W : Back(m, start, s, r, W)
    BY <2>4
  <2>6. /\ PhysInv' /\ Unmaps(map', m, PiecePages(start, s))
        /\ \A k \in Mms \ {m} : Rs'[k] = Rs[k]
        /\ \A x \in Addrs : x \in Covered(Rs'[m]) <=> x \in Covered(Rs[m]) /\ ~ (start <= x /\ x < start + s)
        /\ r \in Rs[m] /\ r.start <= start /\ start + s <= r.end
    BY <2>2, <2>4, <2>5, <1>1, BackStep
  <2>7. s \in Nat \ {0}
    BY <2>2
  <2>8. GiveBack(m)
    BY <2>2, <2>6, <2>7 DEF GiveBack
  <2>9. QED  BY <2>4, <2>6, <2>8 DEF VmaInv
<1>7. ASSUME NEW m \in Mms, NEW v \in VPages, NEW ok \in BOOLEAN, krluserspace_accessfailed(m, PGSZ * v, ok)
      PROVE  VmaInv' /\ FaultIn(m)
  BY <1>1, <1>7, FaultStep DEF VmaInv, FaultIn
<1>8. QED  BY <1>3, <1>4, <1>5, <1>6, <1>7 DEF Next

\* The invariant holds in every state.
LEMMA Invariant == Spec => []VmaInv
<1>1. Init => VmaInv
  BY InitInv
<1>2. VmaInv /\ [Next]_vars => VmaInv'
  <2> SUFFICES ASSUME VmaInv, [Next]_vars PROVE VmaInv'
    OBVIOUS
  <2>1. CASE Next  BY <2>1, StepKinds
  <2>2. CASE UNCHANGED vars
    <3>1. Rs' = Rs /\ Conts' = Conts /\ Msas' = Msas
      BY <2>2 DEF vars, Rs, Ranges, Conts, Msas
    <3>2. QED  BY <2>2, <3>1 DEF vars, VmaInv, RangesInv, PhysInv
  <2>3. QED  BY <2>1, <2>2
<1>3. QED  BY <1>1, <1>2, PTL DEF Spec

-----------------------------------------------------------------------------
(* Theorems.                                                                *)

\* RangesOK in every state, for any number of processes, ranges and sizes:
\* vma_new_vadrs_core and vma_del_vadrs_core keep the list of every process
\* sorted and its two pointers on it.
THEOREM RangesOKCorrect == Spec => []RangesOK
<1>1. VmaInv => RangesOK
  <2> SUFFICES ASSUME RangesInv, NEW m \in Mms
               PROVE  LET l == vs[m].list
                      IN  /\ \A i \in DOMAIN l : PGSZ <= l[i].start /\ l[i].start < l[i].end /\ l[i].end <= END
                          /\ \A i \in DOMAIN l : i > 1 => l[i - 1].end <= l[i].start
                          /\ vs[m].curr \in 0 .. Len(l)
                          /\ vs[m].end = Len(l)
    BY DEF VmaInv, RangesOK
  <2> DEFINE l == vs[m].list
  <2>1. ListOK(vs[m]) /\ l \in Seq(Dsc) /\ Sorted(l) /\ Len(l) \in Nat /\ DOMAIN l = 1 .. Len(l)
    BY DEF RangesInv, ListOK, Space_t
  <2>2. vs[m].curr \in 0 .. Len(l) /\ vs[m].end = Len(l)
    BY <2>1 DEF ListOK
  <2> HIDE DEF l
  <2>3. \A i \in DOMAIN l : PGSZ <= l[i].start /\ l[i].start < l[i].end /\ l[i].end <= END
    BY <2>1 DEF Sorted, Proper
  <2>4. \A i \in DOMAIN l : i > 1 => l[i - 1].end <= l[i].start
    <3>1. \A i \in DOMAIN l : i > 1 => i - 1 \in 1 .. Len(l) /\ i - 1 < i
      BY <2>1
    <3>2. QED  BY <2>1, <3>1 DEF Sorted
  <2>5. QED  BY <2>2, <2>3, <2>4 DEF l
<1>2. QED  BY <1>1, Invariant, PTL

\* A sequence without repetitions has as many elements as places.
LEMMA DistinctElems ==
    ASSUME NEW S, NEW c \in Seq(S), \A i, j \in 1 .. Len(c) : c[i] = c[j] => i = j
    PROVE  Cardinality({c[i] : i \in DOMAIN c}) = Len(c)
<1> DEFINE T == {c[i] : i \in DOMAIN c}
           D == 1 .. Len(c)
<1>1. DOMAIN c = D /\ Len(c) \in Nat
  OBVIOUS
<1>2. c \in [D -> T] /\ \A t \in T : \E i \in D : c[i] = t
  BY <1>1
<1>3. IsFiniteSet(D) /\ Cardinality(D) = Len(c)
  BY <1>1, FS_Interval
<1>4. \A i, j \in D : c[i] = c[j] => i = j
  OBVIOUS
<1> HIDE DEF T, D
<1>5. c \in Surjection(D, T)
  BY <1>2 DEF Surjection
<1>6. c \in Injection(D, T)
  BY <1>1, <1>2, <1>4 DEF Injection, IsInjective
<1>7. Cardinality(T) = Cardinality(D)
  BY <1>3, <1>5, <1>6, FS_Surjection
<1>8. QED  BY <1>3, <1>7 DEF T

\* BoxesOK in every state: knl_get_kvmemcbox, knl_put_kvmemcbox and the split
\* of a range count the ranges that share a box, a box in the cache belongs to
\* no range, and the page behind an address is in the box of its range.
THEOREM BoxesOKCorrect == Spec => []BoxesOK
<1>1. VmaInv => BoxesOK
  <2> SUFFICES ASSUME VmaInv PROVE BoxesOK
    OBVIOUS
  <2>1. RangesInv /\ MgrOK(mgr) /\ UseOK(Rs, Conts, mgr.head) /\ Behind(Rs, Msas, map)
    BY DEF VmaInv, PhysInv
  <2>2. mgr.nr = Cardinality(mgr.head) /\ mgr.cachenr = Len(mgr.cache) /\ mgr.head \subseteq Boxes
    BY <2>1 DEF MgrOK
  <2>3. Cardinality(Cached) = Len(mgr.cache) /\ Cached \cap mgr.head = {}
    <3>1. /\ mgr.cache \in Seq(Boxes)
          /\ \A i, j \in 1 .. Len(mgr.cache) : mgr.cache[i] = mgr.cache[j] => i = j
          /\ \A i \in 1 .. Len(mgr.cache) : mgr.cache[i] \notin mgr.head
      BY <2>1 DEF MgrOK
    <3>2. Cardinality(Cached) = Len(mgr.cache)
      BY <3>1, DistinctElems DEF Cached
    <3>3. QED  BY <3>1, <3>2 DEF Cached
  <2>4. \A m \in Mms : Ranges(m) = Rs[m]
    BY DEF Rs
  <2>5. \A m \in Mms : \A b : {r \in Ranges(m) : r.box = b} = Users(Rs[m], b)
    BY <2>4 DEF Users
  <2>6. \A b \in Boxes : b \in mgr.head <=> \E m \in Mms : {r \in Ranges(m) : r.box = b} # {}
    BY <2>1, <2>5 DEF UseOK
  <2>7. ASSUME NEW b \in mgr.head, NEW m \in Mms, NEW k \in Mms,
               {r \in Ranges(m) : r.box = b} # {}, {r \in Ranges(k) : r.box = b} # {}
        PROVE  m = k /\ box[b].cont = Cardinality({r \in Ranges(m) : r.box = b})
    <3>1. b \in Boxes /\ Users(Rs[m], b) # {} /\ Users(Rs[k], b) # {} /\ Conts[b] = box[b].cont
      BY <2>2, <2>5, <2>7 DEF Conts
    <3>2. m = k /\ Conts[b] = Cardinality(Users(Rs[m], b))
      BY <3>1, <2>1 DEF UseOK
    <3>3. QED  BY <3>1, <3>2, <2>5
  <2>8. ASSUME NEW m \in Mms, NEW a \in Addrs \ {END}, map[m][Page(a)] # NULL
        PROVE  \E r \in Ranges(m) : /\ r.start <= a /\ a < r.end
                                    /\ r.box # NULL /\ map[m][Page(a)] \in box[r.box].msas
    <3>1. PICK r \in Rs[m] : /\ r.start <= a /\ a < r.end
                             /\ r.box # NULL /\ map[m][Page(a)] \in Msas[r.box]
      BY <2>1, <2>8 DEF Behind
    <3>2. r.box \in Boxes
      BY <2>1, <3>1, RsFacts
    <3>3. QED  BY <3>1, <3>2, <2>4 DEF Msas
  <2>9. QED  BY <2>2, <2>3, <2>6, <2>7, <2>8 DEF BoxesOK
<1>2. QED  BY <1>1, Invariant, PTL

\* FramesExact in every state: a page fault and the return of a piece neither
\* lose a page, but for one whose place another one takes, nor free one that is
\* still behind an address.
THEOREM FramesExactCorrect == Spec => []FramesExact
<1>1. VmaInv => FramesExact
  <2> SUFFICES ASSUME VmaInv PROVE FramesExact
    OBVIOUS
  <2> DEFINE M == {map[m][v] : m \in Mms, v \in VPages}
  <2>1. /\ PagesOK(map, ufree, lost) /\ ufree \subseteq Frames
    BY DEF VmaInv, PhysInv
  <2>2. \A f : f \in M <=> \E m \in Mms, v \in VPages : map[m][v] = f
    OBVIOUS
  <2> HIDE DEF M
  <2>3. ufree = Frames \ (lost \cup M)
    BY <2>1, <2>2 DEF PagesOK
  <2>4. lost \cap M = {}
    BY <2>1, <2>2 DEF PagesOK
  <2>5. QED  BY <2>1, <2>3, <2>4 DEF FramesExact, PagesOK, M
<1>2. QED  BY <1>1, Invariant, PTL

-----------------------------------------------------------------------------
(* Refinement of AddressSpace.                                              *)

\* The addresses that processes have, as the instance of AddressSpace says it.
Alloc == [m \in Mms |-> {a \in Addrs : \E r \in Ranges(m) : r.start <= a /\ a < r.end}]

\* They are those of the ranges.
LEMMA AllocIs ==
    /\ Alloc = [m \in Mms |-> Alloc[m]] /\ Alloc' = [m \in Mms |-> Alloc'[m]]
    /\ \A m \in Mms : Alloc[m] = Covered(Rs[m]) /\ Alloc'[m] = Covered(Rs'[m])
BY DEF Alloc, Covered, Rs

\* Nothing changes when it changes for no process.
LEMMA AllocSame ==
    ASSUME \A m \in Mms : Alloc'[m] = Alloc[m]
    PROVE  Alloc' = Alloc
<1>1. [m \in Mms |-> Alloc'[m]] = [m \in Mms |-> Alloc[m]]
  OBVIOUS
<1>2. QED  BY <1>1, AllocIs

\* No range goes beyond the user half, after a step either.
LEMMA RsFactsNext ==
    ASSUME RangesInv', NEW m \in Mms
    PROVE  \A s \in Rs'[m] : s.end <= END /\ s.end \in Nat
<1> DEFINE l == vs'[m].list
<1>1. l \in Seq(Dsc) /\ Sorted(l)
  BY DEF RangesInv, ListOK, Space_t
<1>2. Rs'[m] = {l[i] : i \in DOMAIN l}
  BY DEF Rs, Ranges
<1> HIDE DEF l
<1>3. \A i \in 1 .. Len(l) : l[i].end <= END /\ l[i].end \in Nat
  BY <1>1, ListDsc DEF Sorted, Proper
<1>4. QED  BY <1>1, <1>2, <1>3

\* Addresses that are given out had no page behind them.
LEMMA GiveOutIs ==
    ASSUME VmaInv, VmaInv', NEW m \in Mms, GiveOut(m)
    PROVE  Space!Next \/ UNCHANGED Space!vars
<1> DEFINE new == Alloc'[m] \ Alloc[m]
<1>1. /\ \A k \in Mms \ {m} : Alloc'[k] = Alloc[k]
      /\ Alloc[m] \subseteq Alloc'[m]
  <2>1. \A k \in Mms \ {m} : Alloc'[k] = Alloc[k]
    BY AllocIs DEF GiveOut
  <2>2. ASSUME NEW a \in Alloc[m] PROVE a \in Alloc'[m]
    <3>1. a \in Addrs /\ a \in Nat
      BY <2>2, AllocIs, VmaAssumption DEF Covered, Addrs
    <3>2. PICK r \in Rs[m] : r.start <= a /\ a < r.end
      BY <2>2, AllocIs DEF Covered
    <3>3. PICK q \in Rs'[m] : /\ {q.start, q.end, r.start, r.end} \subseteq Nat
                              /\ q.start <= r.start /\ r.end <= q.end
      BY DEF GiveOut, Grown
    <3>4. q.start <= a /\ a < q.end
      BY <3>1, <3>2, <3>3
    <3>5. a \in Covered(Rs'[m])
      BY <3>1, <3>3, <3>4 DEF Covered
    <3>6. QED  BY <3>5, AllocIs
  <2>3. QED  BY <2>1, <2>2
<1>2. \A a \in new : map[m][Page(a)] = NULL
  <2> SUFFICES ASSUME NEW a \in Alloc'[m], a \notin Alloc[m], map[m][Page(a)] # NULL PROVE FALSE
    OBVIOUS
  <2>1. a \in Addrs
    BY AllocIs DEF Covered
  <2>2. a # END
    <3>1. PICK q \in Rs'[m] : q.start <= a /\ a < q.end
      BY AllocIs DEF Covered
    <3>2. q.end <= END /\ q.end \in Nat /\ END \in Nat
      <4>1. RangesInv'
        BY DEF VmaInv
      <4>2. \A s \in Rs'[m] : s.end <= END /\ s.end \in Nat
        BY <4>1, RsFactsNext
      <4>3. QED  BY <4>2, VmaAssumption
    <3>3. QED  BY <3>1, <3>2
  <2>3. \E r \in Rs[m] : r.start <= a /\ a < r.end
    BY <2>1, <2>2 DEF VmaInv, PhysInv, Behind
  <2>4. QED  BY <2>1, <2>3, AllocIs DEF Covered
<1>3. map' = map
  BY DEF GiveOut
<1>4. CASE new = {}
  <2>1. Alloc' = Alloc
    <3>1. Alloc'[m] = Alloc[m]
      BY <1>1, <1>4
    <3>2. \A k \in Mms : Alloc'[k] = Alloc[k]
      BY <3>1, <1>1
    <3>3. QED  BY <3>2, AllocSame
  <2>2. QED  BY <2>1, <1>3 DEF Space!vars, Alloc
<1>5. CASE new # {}
  <2>1. Alloc' = [Alloc EXCEPT ![m] = @ \cup new]
    <3>1. Alloc'[m] = Alloc[m] \cup new
      BY <1>1
    <3> HIDE DEF new
    <3>2. QED  BY <3>1, <1>1, AllocIs
  <2>2. Space!Give
    BY <2>1, <1>2, <1>3, <1>5 DEF Space!Give, Alloc
  <2>3. QED  BY <2>2 DEF Space!Next
<1>6. QED  BY <1>4, <1>5

\* A page that is supplied was behind no address.
LEMMA FaultInIs ==
    ASSUME VmaInv, NEW m \in Mms, FaultIn(m)
    PROVE  Space!Next \/ UNCHANGED Space!vars
<1>1. Alloc' = Alloc
  BY AllocIs, AllocSame DEF FaultIn
<1>2. CASE map' = map
  BY <1>1, <1>2 DEF Space!vars, Alloc
<1>3. CASE \E f \in ufree : \E x \in Covered(Rs[m]) : map' = [map EXCEPT ![m][Page(x)] = f]
  <2>1. PICK f \in ufree, x \in Covered(Rs[m]) : map' = [map EXCEPT ![m][Page(x)] = f]
    BY <1>3
  <2>2. f \in Frames /\ \A k \in Mms, v \in VPages : map[k][v] # f
    BY <2>1 DEF VmaInv, PhysInv, PagesOK
  <2>3. f \notin Space!Mapped
    BY <2>2 DEF Space!Mapped, VPages
  <2>4. x \in Alloc[m]
    BY <2>1, AllocIs
  <2>5. Space!Supply
    BY <2>1, <2>2, <2>3, <2>4, <1>1 DEF Space!Supply, Alloc
  <2>6. QED  BY <2>5 DEF Space!Next
<1>4. QED  BY <1>2, <1>3 DEF FaultIn

\* Addresses come back with the pages behind them.
LEMMA GiveBackIs ==
    ASSUME VmaInv, NEW m \in Mms, GiveBack(m)
    PROVE  Space!Next
<1> DEFINE old == Alloc[m] \ Alloc'[m]
           Q == {Page(a) : a \in old}
<1>1. PICK start \in Nat, n \in Nat \ {0} :
        /\ start % PGSZ = 0 /\ n % PGSZ = 0
        /\ Unmaps(map', m, PiecePages(start, n))
        /\ \A k \in Mms \ {m} : Rs'[k] = Rs[k]
        /\ \A x \in Addrs : x \in Covered(Rs'[m]) <=> x \in Covered(Rs[m]) /\ ~ (start <= x /\ x < start + n)
        /\ \E r \in Rs[m] : r.start <= start /\ start + n <= r.end
  BY DEF GiveBack
<1>2. PICK r \in Rs[m] : r.start <= start /\ start + n <= r.end
  BY <1>1
<1>3. {r.start, r.end, END} \subseteq Nat /\ r.end <= END /\ 2 <= r.start
  BY <1>2, RsFacts, VmaAssumption DEF VmaInv, PGSZ
<1>4. \A x \in Nat : start <= x /\ x < start + n => x \in Addrs /\ r.start <= x /\ x < r.end
  BY <1>1, <1>2, <1>3 DEF Addrs
<1>5. Covered(Rs[m]) \subseteq Addrs /\ Covered(Rs'[m]) \subseteq Addrs
  BY DEF Covered
<1>6. \A x \in Addrs : x \in Nat
  BY VmaAssumption DEF Addrs
<1>7. \A x \in Nat : x \in old <=> start <= x /\ x < start + n
  <2> SUFFICES ASSUME NEW x \in Nat PROVE x \in old <=> start <= x /\ x < start + n
    OBVIOUS
  <2>1. x \in old <=> x \in Covered(Rs[m]) /\ x \notin Covered(Rs'[m])
    BY AllocIs
  <2>2. start <= x /\ x < start + n => x \in Covered(Rs[m])
    BY <1>2, <1>4 DEF Covered
  <2>3. QED  BY <2>1, <2>2, <1>1, <1>4, <1>5
<1>8. old \subseteq Nat /\ start \in old
  <2>1. old \subseteq Nat
    BY <1>5, <1>6, AllocIs
  <2>2. start \in Nat /\ start < start + n
    BY <1>1
  <2>3. QED  BY <2>1, <2>2, <1>7
<1>9. Alloc' = [Alloc EXCEPT ![m] = @ \ old]
  <2>1. Alloc'[m] = Alloc[m] \ old
    BY <1>1, <1>5, AllocIs
  <2>2. \A k \in Mms \ {m} : Alloc'[k] = Alloc[k]
    BY <1>1, AllocIs
  <2> HIDE DEF old
  <2>3. QED  BY <2>1, <2>2, AllocIs
<1>10. PiecePages(start, n) = Q
  <2>1. ASSUME NEW v \in PiecePages(start, n) PROVE v \in Q
    <3>1. PICK k \in 0 .. n - 1 : v = Page(start + k)
      BY <2>1 DEF PiecePages
    <3>2. start + k \in Nat /\ start <= start + k /\ start + k < start + n
      BY <1>1, <3>1
    <3>3. QED  BY <3>1, <3>2, <1>7
  <2>2. ASSUME NEW v \in Q PROVE v \in PiecePages(start, n)
    <3>1. PICK a \in old : v = Page(a)
      BY <2>2
    <3>2. a \in Nat /\ start <= a /\ a < start + n
      BY <3>1, <1>7, <1>8
    <3>3. QED  BY <3>1, <3>2, <1>1, InPiece
  <2>3. QED  BY <2>1, <2>2
<1>11. map' = [map EXCEPT ![m] = [v \in DOMAIN @ |-> IF v \in Q THEN NULL ELSE @[v]]]
  <2>1. DOMAIN map[m] = VPages
    BY DEF VmaInv, PhysInv
  <2>2. QED  BY <2>1, <1>1, <1>10 DEF Unmaps
<1>12. old # {}
  BY <1>8
<1>13. Space!TakeBack
  BY <1>9, <1>11, <1>12 DEF Space!TakeBack, Alloc
<1>14. QED  BY <1>13 DEF Space!Next

\* The address spaces implement AddressSpace: addresses are given out and come
\* back without overlap, and pages are private and supplied, kept and let go
\* with their addresses.
THEOREM AddressSpaceImplemented == Spec => ImplementsAddressSpace
<1>1. Init => Space!Init
  <2> SUFFICES ASSUME Init PROVE Space!Init
    OBVIOUS
  <2>1. \A m \in Mms : Ranges(m) = {}
    BY DEF Init, Ranges, virmemadrs_t_init
  <2>2. Alloc = [m \in Mms |-> {}]
    BY <2>1 DEF Alloc
  <2>3. map = [m \in Mms |-> [v \in {Page(a) : a \in Addrs} |-> NULL]]
    BY DEF Init, VPages
  <2>4. QED  BY ONLY <2>2, <2>3 DEF Space!Init, Alloc
<1>2. VmaInv /\ [Next]_vars => [Space!Next]_Space!vars
  <2> SUFFICES ASSUME VmaInv, [Next]_vars PROVE Space!Next \/ UNCHANGED Space!vars
    OBVIOUS
  <2>1. CASE Next
    <3>1. VmaInv' /\ \E m \in Mms : GiveOut(m) \/ FaultIn(m) \/ GiveBack(m)
      BY <2>1, StepKinds
    <3>2. QED  BY <3>1, GiveOutIs, FaultInIs, GiveBackIs
  <2>2. CASE UNCHANGED vars
    <3>1. Alloc' = Alloc /\ map' = map
      BY <2>2 DEF vars, Alloc, Ranges
    <3>2. QED  BY <3>1 DEF Space!vars, Alloc
  <2>3. QED  BY <2>1, <2>2
<1>3. QED  BY <1>1, <1>2, Invariant, PTL DEF Spec, ImplementsAddressSpace, Space!Spec
=============================================================================
