---------------------------- MODULE HalMmuProofs ----------------------------
(***************************************************************************)
(* Proofs about the page tables of all the address spaces: no two of them   *)
(* share a table, each descriptor's lists are exact, the processor's        *)
(* translations are the ones of the tables it is on, and the tables, read   *)
(* as maps, change as PageMap allows.  Every action preserves MmuInv and    *)
(* changes the translations of one address space in one place, or takes all *)
(* of them away (PageStep).                                                 *)
(***************************************************************************)
EXTENDS HalMmuTreeProofs, FiniteSetTheorems

-----------------------------------------------------------------------------
(* A transform as a whole.                                                  *)

\* One step of the way down, to a table of level k.
Down(s, i, k) == Descend(s, i, mmu_new_direarr(s, k))

Reached(s, r, i, k) ==
    /\ Sound(r) /\ Within(s, r) /\ Same(s, r) /\ Grown(s, r)
    /\ r.at \in r.m.head[k] \cup {NULL}
    /\ r.at # NULL => r.d[s.at][i] = r.at /\ Full(r, {r.at})
    /\ r.at = NULL => r.d = s.d /\ r.m = s.m

\* A step down a level reaches a table that the entry leads to, or finds no
\* memory and changes nothing.
LEMMA Downward ==
    ASSUME NEW s, Sound(s), NEW i \in Idx, Full(s, {s.at}), s.at # NULL
    PROVE  /\ s.at \in s.m.head[1] => Reached(s, Down(s, i, 2), i, 2)
           /\ s.at \in s.m.head[2] => Reached(s, Down(s, i, 3), i, 3)
           /\ s.at \in s.m.head[3] => Reached(s, Down(s, i, 4), i, 4)
<1>1. ASSUME NEW l \in Uppers, s.at \in s.m.head[l]
      PROVE  Reached(s, Down(s, i, l + 1), i, l + 1)
  <2> DEFINE r == Descend(s, i, mmu_new_direarr(s, l + 1))
  <2> HIDE DEF r
  <2>1. /\ Sound(r) /\ Within(s, r) /\ Same(s, r) /\ Grown(s, r)
        /\ r.at \in r.m.head[l + 1] \cup {NULL}
        /\ r.at # NULL => s.at # NULL /\ r.d[s.at][i] = r.at /\ Full(r, {r.at})
        /\ r.at = NULL => /\ r.d = s.d /\ r.m = s.m
                          /\ s.at # NULL => s.d[s.at][i] = NULL
    BY <1>1, Descends, Zenon DEF r
  <2>2. Reached(s, r, i, l + 1)
    BY <2>1 DEF Reached
  <2>3. QED  BY <2>2 DEF Down, r
<1>2. 1 \in Uppers /\ 2 \in Uppers /\ 3 \in Uppers /\ 1 + 1 = 2 /\ 2 + 1 = 3 /\ 3 + 1 = 4
  BY DEF Uppers
<1>3. QED  BY <1>1, <1>2

\* The root of a descriptor is one of its tables.
LEMMA RootUsed ==
    ASSUME NEW s, Sound(s), s.m.tdirearr # NULL
    PROVE  s.m.tdirearr \in Used(s.m.head)
BY DEF Sound, Described, Used, Levels

\* On the way down, hal_mmu_transform_core has made the tables of the first
\* levels, and knows where they are.
LEMMA WayDown ==
    ASSUME NEW s, Sound(s), Full(s, {}), s.m.tdirearr # NULL, NEW v \in Vadrs
    PROVE  LET root == s.m.tdirearr
               s1 == mmu_transform_sdire([s EXCEPT !.at = root], v)
               s2 == mmu_transform_idire(s1, v)
               s3 == mmu_transform_mdire(s2, v)
           IN  /\ Sound(s1) /\ Within(s, s1) /\ Same(s, s1)
               /\ s1.at = NULL => Full(s1, {})
               /\ s1.at # NULL => /\ s1.at \in s1.m.head[2] /\ s1.d[root][v[1]] = s1.at
                                  /\ Full(s1, {s1.at})
               /\ s1.at # NULL =>
                     /\ Sound(s2) /\ Within(s, s2) /\ Same(s, s2)
                     /\ s1.at \in s2.m.head[2] /\ s2.d[root][v[1]] = s1.at
                     /\ s2.at = NULL => Full(s2, {s2.d[s1.at][v[2]], s1.at})
                     /\ s2.at # NULL => /\ s2.at \in s2.m.head[3] /\ s2.d[s1.at][v[2]] = s2.at
                                        /\ Full(s2, {s2.at})
               /\ s1.at # NULL /\ s2.at # NULL =>
                     /\ Sound(s3) /\ Within(s, s3) /\ Same(s, s3)
                     /\ s1.at \in s3.m.head[2] /\ s3.d[root][v[1]] = s1.at
                     /\ s2.at \in s3.m.head[3] /\ s3.d[s1.at][v[2]] = s2.at
                     /\ s3.at = NULL => Full(s3, {s3.d[s2.at][v[3]], s2.at})
                     /\ s3.at # NULL => /\ s3.at \in s3.m.head[4] /\ s3.d[s2.at][v[3]] = s3.at
                                        /\ Full(s3, {s3.at})
<1> DEFINE root == s.m.tdirearr
           s0 == [s EXCEPT !.at = root]
           s1 == mmu_transform_sdire(s0, v)
           s2 == mmu_transform_idire(s1, v)
           s3 == mmu_transform_mdire(s2, v)
<1>1. v[1] \in Idx /\ v[2] \in Idx /\ v[3] \in Idx
  BY Indices
<1>2. /\ 1 \in Uppers /\ 2 \in Uppers /\ 3 \in Uppers
      /\ 1 \in Levels /\ 2 \in Levels /\ 3 \in Levels /\ 4 \in Levels
  BY DEF Uppers, Levels
<1>3. root \in Frames /\ root \in s.m.head[1]
  BY DEF Sound, Described, States, Descs
<1>4. /\ Sound(s0) /\ Within(s, s0) /\ Same(s, s0)
      /\ s0.d = s.d /\ s0.m = s.m /\ s0.at = root
  BY <1>3, Moved
<1>5. /\ s1 = Down(s0, v[1], 2)
      /\ s2 = Down(s1, v[2], 3)
      /\ s3 = Down(s2, v[3], 4)
  BY DEF Down, mmu_transform_sdire, mmu_transform_idire, mmu_transform_mdire,
         mmu_new_sdirearr, mmu_new_idirearr, mmu_new_mdirearr
<1>6. Full(s0, {s0.at})
  BY <1>4 DEF Full, FullBut
<1> HIDE DEF s0, s1, s2, s3, root
<1>7. /\ Sound(s1) /\ Within(s0, s1) /\ Same(s0, s1)
      /\ s1.at \in s1.m.head[2] \cup {NULL}
      /\ s1.at # NULL => s1.d[s0.at][v[1]] = s1.at /\ Full(s1, {s1.at})
      /\ s1.at = NULL => s1.d = s0.d /\ s1.m = s0.m
  <2>1. s0.at # NULL /\ s0.at \in s0.m.head[1]
    BY <1>3, <1>4 DEF root
  <2>2. Reached(s0, s1, v[1], 2)
    BY <1>1, <1>4, <1>5, <1>6, <2>1, Downward
  <2>3. QED  BY <2>2 DEF Reached
<1>8. /\ Within(s, s1) /\ Same(s, s1)
      /\ s1.at = NULL => Full(s1, {})
      /\ s1.at # NULL => s1.at \in s1.m.head[2] /\ s1.d[root][v[1]] = s1.at
  <2>1. s1.at = NULL => Full(s1, {})
    BY <1>4, <1>7 DEF Full
  <2>2. QED  BY <1>4, <1>7, <2>1, Steps
<1>9. ASSUME s1.at # NULL
      PROVE  /\ Sound(s2) /\ Within(s, s2) /\ Same(s, s2) /\ Grown(s1, s2)
             /\ s1.at \in s2.m.head[2] /\ s2.d[root][v[1]] = s1.at
             /\ s2.at = NULL => Full(s2, {s2.d[s1.at][v[2]], s1.at})
             /\ s2.at # NULL => /\ s2.at \in s2.m.head[3] /\ s2.d[s1.at][v[2]] = s2.at
                                /\ Full(s2, {s2.at})
  <2>1. /\ Sound(s2) /\ Within(s1, s2) /\ Same(s1, s2) /\ Grown(s1, s2)
        /\ s2.at \in s2.m.head[3] \cup {NULL}
        /\ s2.at # NULL => s2.d[s1.at][v[2]] = s2.at /\ Full(s2, {s2.at})
        /\ s2.at = NULL => s2.d = s1.d /\ s2.m = s1.m
    <3>1. Reached(s1, s2, v[2], 3)
      BY <1>1, <1>5, <1>7, <1>8, <1>9, Downward
    <3>2. QED  BY <3>1 DEF Reached
  <2>2. Within(s, s2) /\ Same(s, s2)
    BY <1>8, <2>1, Steps
  <2>3. root \in Used(s1.m.head)
    <3>1. s1.m.tdirearr = root /\ root # NULL
      BY <1>8 DEF Within, root
    <3>2. QED  BY <1>7, <3>1, RootUsed
  <2>4. s1.at \in s2.m.head[2] /\ s2.d[root][v[1]] = s1.at
    BY <1>1, <1>2, <1>8, <1>9, <2>1, <2>3 DEF Grown
  <2>5. s2.at = NULL => Full(s2, {s2.d[s1.at][v[2]], s1.at})
    BY <1>7, <1>9, <2>1 DEF Full, FullBut
  <2>6. QED  BY <2>1, <2>2, <2>4, <2>5
<1>10. ASSUME s1.at # NULL, s2.at # NULL
       PROVE  /\ Sound(s3) /\ Within(s, s3) /\ Same(s, s3)
              /\ s1.at \in s3.m.head[2] /\ s3.d[root][v[1]] = s1.at
              /\ s2.at \in s3.m.head[3] /\ s3.d[s1.at][v[2]] = s2.at
              /\ s3.at = NULL => Full(s3, {s3.d[s2.at][v[3]], s2.at})
              /\ s3.at # NULL => /\ s3.at \in s3.m.head[4] /\ s3.d[s2.at][v[3]] = s3.at
                                 /\ Full(s3, {s3.at})
  <2>1. /\ Sound(s3) /\ Within(s2, s3) /\ Same(s2, s3) /\ Grown(s2, s3)
        /\ s3.at \in s3.m.head[4] \cup {NULL}
        /\ s3.at # NULL => s3.d[s2.at][v[3]] = s3.at /\ Full(s3, {s3.at})
        /\ s3.at = NULL => s3.d = s2.d /\ s3.m = s2.m
    <3>1. Reached(s2, s3, v[3], 4)
      BY <1>1, <1>5, <1>9, <1>10, Downward, Zenon
    <3>2. QED  BY <3>1 DEF Reached
  <2>2. Within(s, s3) /\ Same(s, s3)
    BY <1>9, <1>10, <2>1, Steps
  <2>3. root \in Used(s2.m.head) /\ s1.at \in Used(s2.m.head)
    <3>1. s2.m.tdirearr = root /\ root # NULL
      BY <1>9, <1>10 DEF Within, root
    <3>2. root \in Used(s2.m.head)
      BY <1>9, <1>10, <3>1, RootUsed
    <3>3. s1.at \in Used(s2.m.head)
      BY <1>2, <1>9, <1>10 DEF Used
    <3>4. QED  BY <3>2, <3>3
  <2>4. s1.at \in s3.m.head[2] /\ s3.d[root][v[1]] = s1.at
    BY <1>1, <1>2, <1>9, <1>10, <2>1, <2>3 DEF Grown
  <2>5. s2.at \in s3.m.head[3] /\ s3.d[s1.at][v[2]] = s2.at
    BY <1>1, <1>2, <1>9, <1>10, <2>1, <2>3 DEF Grown
  <2>6. s3.at = NULL => Full(s3, {s3.d[s2.at][v[3]], s2.at})
    BY <1>9, <1>10, <2>1 DEF Full, FullBut
  <2>7. QED  BY <2>1, <2>2, <2>4, <2>5, <2>6
<1>11. QED  BY <1>7, <1>8, <1>9, <1>10, Zenon DEF s0, s1, s2, s3, root

\* hal_mmu_transform_core maps v to p or, when a table cannot be made, leaves
\* every translation and no table that it has made.
LEMMA Transform ==
    ASSUME NEW s, Sound(s), Full(s, {}), s.at = NULL, NEW v \in Vadrs, NEW p \in Pages
    PROVE  LET r == hal_mmu_transform_core(s, v, p)
           IN  /\ Sound(r) /\ Within(s, r) /\ Full(r, {})
               /\ r.at = NULL => Same(s, r)
               /\ r.at # NULL => SameBut(s, r, v) /\ Leaf(r.d, s.m.tdirearr, v) = p
<1> DEFINE r == hal_mmu_transform_core(s, v, p)
           root == s.m.tdirearr
           s1 == mmu_transform_sdire([s EXCEPT !.at = root], v)
           s2 == mmu_transform_idire(s1, v)
           s3 == mmu_transform_mdire(s2, v)
           P2(x) == Prune1(x, root, v[1], 2)
           P3(x) == P2(Prune1(x, s1.at, v[2], 3))
           P4(x) == P3(Prune1(x, s2.at, v[3], 4))
<1>1. r = IF root = NULL THEN s
          ELSE IF s1.at = NULL THEN P2(s1)
          ELSE IF s2.at = NULL THEN P3(s2)
          ELSE IF s3.at = NULL THEN P4(s3)
          ELSE [s3 EXCEPT !.d[s3.at][v[4]] = p]
  BY PruneIs DEF hal_mmu_transform_core, mmu_transform_msa
<1> HIDE DEF r, s1, s2, s3, root
<1>2. CASE root = NULL
  <2>1. r = s
    BY <1>1, <1>2
  <2>2. QED  BY <2>1 DEF Within, Same, r
<1>3. CASE root # NULL
  <2>1. /\ Sound(s1) /\ Within(s, s1) /\ Same(s, s1)
        /\ s1.at = NULL => Full(s1, {})
        /\ s1.at # NULL => /\ s1.at \in s1.m.head[2] /\ s1.d[root][v[1]] = s1.at
                           /\ Full(s1, {s1.at})
    BY <1>3, WayDown, Zenon DEF s1, root
  <2>2. s1.at # NULL =>
           /\ Sound(s2) /\ Within(s, s2) /\ Same(s, s2)
           /\ s1.at \in s2.m.head[2] /\ s2.d[root][v[1]] = s1.at
           /\ s2.at = NULL => Full(s2, {s2.d[s1.at][v[2]], s1.at})
    BY <1>3, WayDown, Zenon DEF s1, s2, root
  <2>3. s1.at # NULL /\ s2.at # NULL =>
           /\ Sound(s3) /\ Within(s, s3) /\ Same(s, s3)
           /\ s1.at \in s3.m.head[2] /\ s3.d[root][v[1]] = s1.at
           /\ s2.at \in s3.m.head[3] /\ s3.d[s1.at][v[2]] = s2.at
           /\ s3.at = NULL => Full(s3, {s3.d[s2.at][v[3]], s2.at})
           /\ s3.at # NULL => /\ s3.at \in s3.m.head[4] /\ s3.d[s2.at][v[3]] = s3.at
                              /\ Full(s3, {s3.at})
    BY <1>3, WayDown, Zenon DEF s1, s2, s3, root
  <2>4. v[1] \in Idx /\ v[2] \in Idx /\ v[3] \in Idx
    BY Indices
  <2>5. ASSUME NEW x, Within(s, x), Same(s, x), x.at = NULL, Undone(x, r)
        PROVE  /\ Sound(r) /\ Within(s, r) /\ Full(r, {}) /\ r.at = NULL /\ Same(s, r)
    BY <2>5, Steps DEF Undone
  <2>6. CASE s1.at = NULL
    <3>1. r = P2(s1)
      BY <1>1, <1>3, <2>6
    <3>2. s1.m.tdirearr = root /\ Full(s1, {s1.d[root][v[1]]})
      BY <2>1, <2>6 DEF Within, Full, FullBut, root
    <3>3. Undone(s1, P2(s1))
      BY <1>3, <2>1, <2>4, <3>2, UndoS
    <3>4. QED  BY <2>1, <2>5, <2>6, <3>1, <3>3 DEF r
  <2>7. CASE s1.at # NULL /\ s2.at = NULL
    <3>1. r = P3(s2)
      BY <1>1, <1>3, <2>7
    <3>2. s2.m.tdirearr = root
      BY <2>2, <2>7 DEF Within, root
    <3>3. Undone(s2, P3(s2))
      BY <1>3, <2>2, <2>4, <2>7, <3>2, UndoI
    <3>4. QED  BY <2>2, <2>5, <2>7, <3>1, <3>3, Zenon DEF r
  <2>8. CASE s1.at # NULL /\ s2.at # NULL /\ s3.at = NULL
    <3>1. r = P4(s3)
      BY <1>1, <1>3, <2>8
    <3>2. s3.m.tdirearr = root
      BY <2>3, <2>8 DEF Within, root
    <3>3. Undone(s3, P4(s3))
      BY <1>3, <2>3, <2>4, <2>8, <3>2, UndoM
    <3>4. QED  BY <2>3, <2>5, <2>8, <3>1, <3>3, Zenon DEF r
  <2>9. CASE s1.at # NULL /\ s2.at # NULL /\ s3.at # NULL
    <3>1. r = [s3 EXCEPT !.d[s3.at][v[4]] = p]
      BY <1>1, <1>3, <2>9
    <3>2. s3.m.tdirearr = root /\ Sound(s3)
      BY <2>3, <2>9 DEF Within, root
    <3>3. s3.at = T4(s3.d, root, v)
      BY <1>3, <2>3, <2>9, Zenon DEF T2, T3, T4, Ent
    <3>4. /\ Sound(r) /\ Within(s3, r) /\ SameBut(s3, r, v)
          /\ Leaf(r.d, root, v) = p
          /\ r.at = s3.at /\ r.m = s3.m /\ s3.at \in s3.m.head[4]
          /\ r.d[s3.at][v[4]] = p
          /\ \A x \in Frames \ {s3.at} : r.d[x] = s3.d[x]
      BY <1>3, <2>9, <3>1, <3>2, <3>3, Msa
    <3>5. Within(s, r)
      BY <2>3, <2>9, <3>4, Steps
    <3>6. SameBut(s, r, v)
      BY <2>3, <2>9, <3>2, <3>4 DEF Same, SameBut, root
    <3>7. Full(r, {})
      <4>1. v[4] \in Idx /\ p # NULL
        BY Indices, MmuAssumption
      <4>2. r.d[s3.at] # Zero
        BY <3>4, <4>1 DEF Zero
      <4>3. ASSUME NEW k \in 2 .. 4, NEW y \in s3.m.head[k] PROVE r.d[y] # Zero
        <5>1. y \in Frames
          BY <3>2 DEF Sound, States, Descs, Heads, Levels
        <5>2. QED  BY <2>3, <2>9, <3>4, <4>2, <5>1 DEF Full, FullBut
      <4>4. QED  BY <3>4, <4>3 DEF Full, FullBut
    <3>8. QED  BY <2>9, <3>4, <3>5, <3>6, <3>7 DEF r, root
  <2>10. QED  BY <2>6, <2>7, <2>8, <2>9
<1>4. QED  BY <1>2, <1>3

-----------------------------------------------------------------------------
(* All the address spaces.                                                  *)

Kept(d, m) == Tree(d, m.head) /\ Described(m) /\ FullBut(d, m.head, {})

\* The tables d, the free pages f and the descriptors M: each descriptor keeps a
\* tree, and every page is free or in one of the trees.
MemInv(d, f, M) ==
    /\ Counting
    /\ d \in Dirs
    /\ f \subseteq Frames
    /\ M \in [Mmus -> Descs]
    /\ \A m \in Mmus : Kept(d, M[m])
    /\ \A m, n \in Mmus : \A x \in Used(M[m].head) : x \in Used(M[n].head) => m = n
    /\ \A x \in Frames : x \in f <=> \A m \in Mmus : x \notin Used(M[m].head)

\* What the descriptors are used for.
LiveInv ==
    /\ live \subseteq Mmus /\ curr \in live
    /\ \A m \in Mmus \ live : mmu[m] = mmudsc_t_init
    /\ cr3 # NULL /\ \E m \in live : cr3 = mmu[m].tdirearr
    /\ tlb \subseteq Vadrs \X Pages

TlbInv == \A e \in tlb : Leaf(dir, cr3, e[1]) = e[2]

MmuInv == MemInv(dir, free, mmu) /\ LiveInv /\ TlbInv

Replaced(M, m, k) == [M EXCEPT ![m] = k]

\* A tree whose tables are not written stays one.
LEMMA TreeLocal ==
    ASSUME NEW d, NEW e, NEW H, Tree(d, H), FullBut(d, H, {}),
           \A l \in Levels : \A x \in H[l] : e[x] = d[x]
    PROVE  Tree(e, H) /\ FullBut(e, H, {})
<1>1. \A l \in Uppers : l \in Levels
  BY DEF Uppers, Levels
<1>2. LevelsApart(H) /\ Children(d, H) /\ Parents(d, H) /\ Single(d, H)
  BY DEF Tree
<1>3. Children(e, H)
  BY <1>1, <1>2 DEF Children, Levels
<1>4. Parents(e, H)
  BY <1>1, <1>2 DEF Parents
<1>5. Single(e, H)
  BY <1>1, <1>2 DEF Single
<1>6. FullBut(e, H, {})
  BY DEF FullBut, Levels
<1>7. QED  BY <1>2, <1>3, <1>4, <1>5, <1>6 DEF Tree

\* An operation on one descriptor leaves the other trees alone.
LEMMA Replace ==
    ASSUME NEW d, NEW f, NEW M, MemInv(d, f, M), NEW m \in Mmus,
           NEW e \in Dirs, NEW g \in SUBSET Frames, NEW k \in Descs, Kept(e, k),
           g \cap Used(k.head) = {},
           g \cup Used(k.head) = f \cup Used(M[m].head),
           \A x \in Frames \ (f \cup Used(M[m].head)) : e[x] = d[x]
    PROVE  /\ MemInv(e, g, Replaced(M, m, k))
           /\ \A n \in Mmus \ {m} : \A v \in Vadrs :
                  Leaf(e, M[n].tdirearr, v) = Leaf(d, M[n].tdirearr, v)
<1> DEFINE N == Replaced(M, m, k)
           U(n) == Used(M[n].head)
<1>1. N \in [Mmus -> Descs] /\ N[m] = k /\ \A n \in Mmus \ {m} : N[n] = M[n]
  BY DEF MemInv, Replaced
<1>2. \A n \in Mmus : U(n) \subseteq Frames
  BY DEF MemInv, Descs, Heads, Used
<1> HIDE DEF N, U
<1>3. /\ \A n, o \in Mmus : \A x \in U(n) : x \in U(o) => n = o
      /\ \A x \in Frames : x \in f <=> \A n \in Mmus : x \notin U(n)
  BY DEF MemInv, U
<1>4. \A n \in Mmus \ {m} : \A x \in U(n) : x \in Frames \ (f \cup U(m))
  BY <1>2, <1>3
<1>5. \A n \in Mmus \ {m} : \A x \in U(n) : e[x] = d[x] /\ x \notin g /\ x \notin Used(k.head)
  BY <1>4 DEF U
<1>6. ASSUME NEW n \in Mmus \ {m} PROVE Kept(e, M[n])
  <2> DEFINE H == M[n].head
  <2>1. \A l \in Levels : \A x \in H[l] : e[x] = d[x]
    BY <1>5 DEF U, Used
  <2>2. Kept(d, M[n])
    BY DEF MemInv
  <2> HIDE DEF H
  <2>3. Tree(d, H) /\ FullBut(d, H, {})
    BY <2>2 DEF Kept, H
  <2>4. Tree(e, H) /\ FullBut(e, H, {})
    BY <2>1, <2>3, TreeLocal
  <2>5. QED  BY <2>2, <2>4 DEF Kept, H
<1>7. \A n \in Mmus : Kept(e, N[n])
  BY <1>1, <1>6
<1>8. \A n, o \in Mmus : \A x \in Used(N[n].head) : x \in Used(N[o].head) => n = o
  BY <1>1, <1>3, <1>5 DEF U
<1>9. \A x \in Frames : x \in g <=> \A n \in Mmus : x \notin Used(N[n].head)
  <2> SUFFICES ASSUME NEW x \in Frames PROVE x \in g <=> \A n \in Mmus : x \notin Used(N[n].head)
    OBVIOUS
  <2>1. ASSUME x \in g, NEW n \in Mmus PROVE x \notin Used(N[n].head)
    <3>1. CASE n = m  BY <1>1, <2>1, <3>1
    <3>2. CASE n # m  BY <1>1, <1>5, <2>1, <3>2 DEF U
    <3>3. QED  BY <3>1, <3>2
  <2>2. ASSUME \A n \in Mmus : x \notin Used(N[n].head) PROVE x \in g
    <3>1. x \notin Used(k.head) /\ \A n \in Mmus \ {m} : x \notin U(n)
      BY <1>1, <2>2 DEF U
    <3>2. x \in f \/ x \in U(m)
      BY <1>3, <3>1
    <3>3. QED  BY <3>1, <3>2 DEF U
  <2>3. QED  BY <2>1, <2>2
<1>10. MemInv(e, g, N)
  <2>1. Counting
    BY DEF MemInv
  <2>2. QED  BY <1>1, <1>7, <1>8, <1>9, <2>1 DEF MemInv
<1>11. ASSUME NEW n \in Mmus \ {m}, NEW v \in Vadrs
       PROVE  Leaf(e, M[n].tdirearr, v) = Leaf(d, M[n].tdirearr, v)
  <2>1. /\ d \in Dirs /\ M[n].head \in Heads /\ Tree(d, M[n].head)
        /\ M[n].tdirearr \in M[n].head[1] \cup {NULL}
    <3>1. d \in Dirs /\ M[n] \in Descs /\ Kept(d, M[n])
      BY DEF MemInv
    <3>2. QED  BY <3>1 DEF Kept, Described, Descs
  <2>2. \A x \in Used(M[n].head) : e[x] = d[x]
    BY <1>5 DEF U
  <2>3. v \in Vadrs /\ e \in Dirs
    OBVIOUS
  <2>4. QED  BY ONLY <2>1, <2>2, <2>3, WalkLocal
<1>12. QED  BY <1>10, <1>11 DEF N

\* A descriptor without tables, and one with an empty root, are trees.
LEMMA NoTables ==
    ASSUME Counting
    PROVE  /\ mmudsc_t_init \in Descs
           /\ Used(mmudsc_t_init.head) = {}
           /\ \A d : Kept(d, mmudsc_t_init)
<1> DEFINE H == [l \in 1 .. 4 |-> {}]
<1>1. /\ mmudsc_t_init.tdirearr = NULL /\ mmudsc_t_init.head = H
      /\ mmudsc_t_init.msanr = [l \in 1 .. 4 |-> 0]
  BY DEF mmudsc_t_init
<1>2. mmudsc_t_init \in Descs
  BY DEF mmudsc_t_init, Descs, Heads, Levels
<1>3. \A l \in Levels : H[l] = {}
  BY DEF Levels
<1>4. \A l \in Uppers : l \in Levels /\ l + 1 \in Levels
  BY DEF Levels, Uppers
<1> HIDE DEF H
<1>5. Used(H) = {}
  BY <1>3 DEF Used
<1>6. ASSUME NEW d PROVE Tree(d, H) /\ FullBut(d, H, {})
  BY <1>3, <1>4 DEF Tree, LevelsApart, Children, Parents, Single, FullBut, Levels
<1>7. Described(mmudsc_t_init)
  <2>1. Cardinality({}) = 0
    BY DEF Counting
  <2>2. QED  BY <1>1, <1>3, <2>1 DEF Described, Levels
<1>8. QED  BY <1>1, <1>2, <1>5, <1>6, <1>7 DEF Kept

Fresh(k, c) ==
    /\ k.tdirearr = c
    /\ k.head = With(mmudsc_t_init.head, 1, c)
    /\ k.msanr[1] = 1 /\ \A l \in Levels \ {1} : k.msanr[l] = 0

\* A root without entries is a tree of one table that maps nothing.
LEMMA OneTable ==
    ASSUME Counting, NEW d \in Dirs, NEW c \in Frames, d[c] = Zero,
           NEW k \in Descs, Fresh(k, c)
    PROVE  /\ Used(k.head) = {c}
           /\ Kept(d, k)
           /\ \A v \in Vadrs : Leaf(d, c, v) = NULL
<1> DEFINE H == k.head
<1>1. H[1] = {c} /\ \A l \in Levels \ {1} : H[l] = {}
  BY DEF Fresh, mmudsc_t_init, Levels, With
<1>3. c # NULL /\ \A i \in Idx : d[c][i] = NULL
  BY MmuAssumption DEF Zero
<1>4. 1 \in Levels /\ \A l \in Uppers : l \in Levels /\ l + 1 \in Levels \ {1}
  BY DEF Levels, Uppers
<1> HIDE DEF H
<1>5. Used(H) = {c}
  BY <1>1, <1>4 DEF Used
<1>6. Tree(d, H)
  <2>1. LevelsApart(H)
    BY <1>1 DEF LevelsApart
  <2>2. Children(d, H)
    BY <1>1, <1>3, <1>4 DEF Children, Levels
  <2>3. Parents(d, H)
    BY <1>1, <1>4 DEF Parents
  <2>4. Single(d, H)
    BY <1>1, <1>3, <1>4 DEF Single
  <2>5. QED  BY <2>1, <2>2, <2>3, <2>4 DEF Tree
<1>7. FullBut(d, H, {})
  BY <1>1 DEF FullBut, Levels
<1>8. Described(k)
  <2>1. Cardinality(H[1]) = 1 /\ \A l \in Levels \ {1} : Cardinality(H[l]) = 0
    <3>1. Cardinality({c}) = 1 /\ Cardinality({}) = 0
      BY DEF Counting
    <3>2. QED  BY <1>1, <3>1
  <2>2. QED  BY <1>1, <1>3, <2>1 DEF Described, Fresh, H
<1>9. \A v \in Vadrs : Leaf(d, c, v) = NULL
  BY <1>3, Indices, Zenon DEF Leaf, T4, T3, T2, Ent
<1>10. QED  BY <1>5, <1>6, <1>7, <1>8, <1>9 DEF Kept, H

-----------------------------------------------------------------------------
\* The sizes of sets of tables.
LEMMA TablesCounted == Counting
<1>1. ASSUME NEW S \in SUBSET Frames, NEW c \in Frames
      PROVE  /\ c \notin S => Cardinality(S \cup {c}) = Cardinality(S) + 1
             /\ c \in S => Cardinality(S \ {c}) = Cardinality(S) - 1
  <2>1. IsFiniteSet(S)
    BY FS_Subset, MmuAssumption
  <2>2. c \notin S => Cardinality(S \cup {c}) = Cardinality(S) + 1
    BY <2>1, FS_AddElement
  <2>3. c \in S => Cardinality(S \ {c}) = Cardinality(S) - 1
    BY <2>1, FS_RemoveElement
  <2>4. QED  BY <2>2, <2>3
<1>2. Cardinality({}) = 0 /\ \A c \in Frames : Cardinality({c}) = 1
  <2>1. Cardinality({}) = 0
    BY FS_EmptySet
  <2>2. ASSUME NEW c \in Frames PROVE Cardinality({c}) = 1
    BY ONLY FS_Singleton
  <2>3. QED  BY <2>1, <2>2
<1>3. QED  BY <1>1, <1>2, Zenon DEF Counting

-----------------------------------------------------------------------------
(* The actions.                                                             *)

\* The translation of v in address space m.
Page(m, v) == Leaf(dir, mmu[m].tdirearr, v)

\* A step changes one translation, or takes all those of an address space away.
PageStep ==
    \E m \in Mmus :
        /\ \A n \in Mmus \ {m} : \A v \in Vadrs : Page(n, v)' = Page(n, v)
        /\ \/ \A v \in Vadrs : Page(m, v)' = Page(m, v)
           \/ \E v \in Vadrs : /\ Page(m, v)' \in Pages \cup {NULL}
                               /\ \A w \in Vadrs \ {v} : Page(m, w)' = Page(m, w)
           \/ \A v \in Vadrs : Page(m, v)' = NULL

\* An operation starts on a tree.
LEMMA LockedSound ==
    ASSUME MmuInv, NEW m \in Mmus
    PROVE  /\ Sound(Locked(m)) /\ Full(Locked(m), {})
           /\ Locked(m).d = dir /\ Locked(m).f = free /\ Locked(m).m = mmu[m]
           /\ Locked(m).at = NULL
<1>1. Locked(m).d = dir /\ Locked(m).f = free /\ Locked(m).m = mmu[m] /\ Locked(m).at = NULL
  BY DEF Locked
<1>2. Locked(m) \in States
  BY DEF Locked, MmuInv, MemInv, States
<1>3. Counting /\ Kept(dir, mmu[m]) /\ free \cap Used(mmu[m].head) = {}
  BY DEF MmuInv, MemInv
<1>4. QED  BY <1>1, <1>2, <1>3 DEF Sound, Full, Kept

\* hal_mmu_transform and hal_mmu_untransform work on the running address space.
LEMMA Operate ==
    ASSUME MmuInv, NEW r, Sound(r), Within(Locked(curr), r), Full(r, {}),
           Unlock(curr, r), UNCHANGED <<live, curr, cr3>>, tlb' \subseteq tlb
    PROVE  /\ MemInv(dir, free, mmu)' /\ LiveInv'
           /\ \A n \in Mmus \ {curr} : \A v \in Vadrs : Page(n, v)' = Page(n, v)
           /\ \A v \in Vadrs : Page(curr, v)' = Leaf(r.d, mmu[curr].tdirearr, v)
           /\ \E m \in Mmus : cr3 = mmu[m].tdirearr /\ cr3' = mmu'[m].tdirearr
<1>1. curr \in Mmus /\ curr \in live
  BY DEF MmuInv, LiveInv
<1>2. /\ Locked(curr).d = dir /\ Locked(curr).f = free /\ Locked(curr).m = mmu[curr]
  BY <1>1, LockedSound
<1>3. dir' = r.d /\ free' = r.f /\ mmu' = [mmu EXCEPT ![curr] = r.m]
  BY DEF Unlock
<1>4. /\ r.m.tdirearr = mmu[curr].tdirearr
      /\ r.f \cup Used(r.m.head) = free \cup Used(mmu[curr].head)
      /\ \A x \in Frames \ (free \cup Used(mmu[curr].head)) : r.d[x] = dir[x]
  BY <1>2 DEF Within
<1>5. /\ r.d \in Dirs /\ r.f \in SUBSET Frames /\ r.m \in Descs
      /\ Kept(r.d, r.m) /\ r.f \cap Used(r.m.head) = {}
  BY DEF Sound, States, Full, Kept
<1>6. MemInv(dir, free, mmu)
  BY DEF MmuInv
<1>7. /\ MemInv(r.d, r.f, Replaced(mmu, curr, r.m))
      /\ \A n \in Mmus \ {curr} : \A v \in Vadrs :
             Leaf(r.d, mmu[n].tdirearr, v) = Leaf(dir, mmu[n].tdirearr, v)
  BY <1>1, <1>4, <1>5, <1>6, Replace
<1>8. mmu'[curr] = r.m /\ \A n \in Mmus \ {curr} : mmu'[n] = mmu[n]
  BY <1>1, <1>3, <1>6 DEF MemInv
<1>9. MemInv(dir, free, mmu)'
  <2>1. MemInv(dir', free', mmu')
    BY <1>3, <1>7 DEF Replaced
  <2>2. QED  BY <2>1 DEF MemInv
<1>10. \A n \in Mmus : mmu'[n].tdirearr = mmu[n].tdirearr
  BY <1>4, <1>8
<1>11. LiveInv'
  <2>1. \A m \in Mmus \ live : mmu'[m] = mmudsc_t_init
    BY <1>1, <1>8 DEF MmuInv, LiveInv
  <2>2. QED  BY <1>10, <2>1 DEF MmuInv, LiveInv
<1>12. QED
  BY <1>3, <1>4, <1>7, <1>8, <1>9, <1>10, <1>11 DEF Page, MmuInv, LiveInv

\* hal_mmu_transform keeps the invariant and changes one translation or none.
LEMMA TransformStep ==
    ASSUME MmuInv, NEW v \in Vadrs, NEW p \in Pages, hal_mmu_transform(v, p)
    PROVE  MmuInv' /\ PageStep
<1> DEFINE s == Locked(curr)
           r == hal_mmu_transform_core(s, v, p)
<1>1. curr \in Mmus /\ curr \in live /\ curr' = curr
  BY DEF MmuInv, LiveInv, hal_mmu_transform
<1>2. Sound(s) /\ Full(s, {}) /\ s.d = dir /\ s.m = mmu[curr] /\ s.at = NULL
  BY <1>1, LockedSound
<1>3. /\ Unlock(curr, r)
      /\ IF r.at = NULL THEN UNCHANGED tlb ELSE tlb' = {}
      /\ UNCHANGED <<live, curr, cr3>>
  BY DEF hal_mmu_transform, hal_mmu_refresh
<1> HIDE DEF s, r
<1>4. /\ Sound(r) /\ Within(s, r) /\ Full(r, {})
      /\ r.at = NULL => Same(s, r)
      /\ r.at # NULL => SameBut(s, r, v) /\ Leaf(r.d, s.m.tdirearr, v) = p
  BY <1>2, Transform DEF r
<1>5. /\ MemInv(dir, free, mmu)' /\ LiveInv'
      /\ \A n \in Mmus \ {curr} : \A w \in Vadrs : Page(n, w)' = Page(n, w)
      /\ \A w \in Vadrs : Page(curr, w)' = Leaf(r.d, mmu[curr].tdirearr, w)
      /\ \E m \in Mmus : cr3 = mmu[m].tdirearr /\ cr3' = mmu'[m].tdirearr
  BY <1>3, <1>4, Operate DEF s
<1>6. CASE r.at = NULL
  <2>1. \A w \in Vadrs : Page(curr, w)' = Page(curr, w)
    BY <1>2, <1>4, <1>5, <1>6 DEF Same, Page
  <2>2. PageStep
    BY <1>1, <1>5, <2>1 DEF PageStep
  <2>3. TlbInv'
    <3>1. PICK m \in Mmus : cr3 = mmu[m].tdirearr /\ cr3' = mmu'[m].tdirearr
      BY <1>5
    <3>2. \A w \in Vadrs : Leaf(dir', cr3', w) = Leaf(dir, cr3, w)
      <4>1. \A w \in Vadrs : Page(m, w)' = Page(m, w)
        BY <1>1, <1>5, <2>1 DEF Page
      <4>2. QED  BY <3>1, <4>1 DEF Page
    <3>3. tlb' = tlb /\ \A e \in tlb : e[1] \in Vadrs
      BY <1>3, <1>6 DEF MmuInv, LiveInv
    <3>4. QED  BY <3>2, <3>3 DEF MmuInv, TlbInv
  <2>4. QED  BY <1>5, <2>2, <2>3 DEF MmuInv
<1>7. CASE r.at # NULL
  <2>1. \A w \in Vadrs \ {v} : Page(curr, w)' = Page(curr, w)
    BY <1>2, <1>4, <1>5, <1>7 DEF SameBut, Page
  <2>2. Page(curr, v)' = p
    BY <1>2, <1>4, <1>5, <1>7
  <2>3. PageStep
    BY <1>1, <1>5, <2>1, <2>2 DEF PageStep
  <2>4. TlbInv'
    BY <1>3, <1>7 DEF TlbInv
  <2>5. QED  BY <1>5, <2>3, <2>4 DEF MmuInv
<1>8. QED  BY <1>6, <1>7

\* hal_mmu_untransform keeps it and takes one translation away.
LEMMA UntransformStep ==
    ASSUME MmuInv, NEW v \in Vadrs, hal_mmu_untransform(v)
    PROVE  MmuInv' /\ PageStep
<1> DEFINE s == Locked(curr)
           r == hal_mmu_untransform_core(s, v)
<1>1. curr \in Mmus /\ curr \in live /\ curr' = curr
  BY DEF MmuInv, LiveInv, hal_mmu_untransform
<1>2. Sound(s) /\ Full(s, {}) /\ s.d = dir /\ s.m = mmu[curr]
  BY <1>1, LockedSound
<1>3. Unlock(curr, r) /\ tlb' = {} /\ UNCHANGED <<live, curr, cr3>>
  BY DEF hal_mmu_untransform, hal_mmu_refresh
<1> HIDE DEF s, r
<1>4. /\ Sound(r) /\ Within(s, r) /\ Full(r, {}) /\ SameBut(s, r, v)
      /\ Leaf(r.d, s.m.tdirearr, v) = NULL
  BY <1>2, Untransform DEF r
<1>5. /\ MemInv(dir, free, mmu)' /\ LiveInv'
      /\ \A n \in Mmus \ {curr} : \A w \in Vadrs : Page(n, w)' = Page(n, w)
      /\ \A w \in Vadrs : Page(curr, w)' = Leaf(r.d, mmu[curr].tdirearr, w)
  BY <1>3, <1>4, Operate DEF s
<1>6. \A w \in Vadrs \ {v} : Page(curr, w)' = Page(curr, w)
  BY <1>2, <1>4, <1>5 DEF SameBut, Page
<1>7. Page(curr, v)' = NULL
  BY <1>2, <1>4, <1>5
<1>8. PageStep
  BY <1>1, <1>5, <1>6, <1>7 DEF PageStep
<1>9. TlbInv'
  BY <1>3 DEF TlbInv
<1>10. QED  BY <1>5, <1>8, <1>9 DEF MmuInv

\* hal_mmu_init keeps it and makes an address space that maps nothing, or none.
LEMMA InitStep ==
    ASSUME MmuInv, NEW m \in Mmus, hal_mmu_init(m)
    PROVE  MmuInv' /\ PageStep
<1> DEFINE s == Locked(m)
           q == mmu_new_direarr(s, 1)
           r == [q EXCEPT !.m.tdirearr = q.at]
<1>1. /\ m \notin live /\ live' = live \cup {m} /\ UNCHANGED <<curr, cr3, tlb>>
      /\ dir' = r.d /\ free' = r.f /\ mmu' = [mmu EXCEPT ![m] = r.m]
  BY DEF hal_mmu_init, Unlock
<1>2. /\ s \in States /\ s.d = dir /\ s.f = free /\ s.m = mmu[m] /\ 1 \in Levels
      /\ mmu[m] = mmudsc_t_init
  BY <1>1, LockedSound DEF Sound, MmuInv, LiveInv, Levels
<1> HIDE DEF s
<1>3. /\ MemInv(dir, free, mmu) /\ Counting
      /\ dir \in Dirs /\ free \subseteq Frames /\ mmu \in [Mmus -> Descs]
  BY DEF MmuInv, MemInv
<1>4. ASSUME r.d \in Dirs, r.f \in SUBSET Frames, r.m \in Descs, Kept(r.d, r.m),
             r.f \cap Used(r.m.head) = {},
             r.f \cup Used(r.m.head) = free,
             \A x \in Frames \ free : r.d[x] = dir[x],
             \A v \in Vadrs : Leaf(r.d, r.m.tdirearr, v) = NULL
      PROVE  MmuInv' /\ PageStep
  <2> HIDE DEF r
  <2>1. Used(mmu[m].head) = {}
    BY <1>2, <1>3, NoTables
  <2>2. /\ MemInv(r.d, r.f, Replaced(mmu, m, r.m))
        /\ \A n \in Mmus \ {m} : \A v \in Vadrs :
               Leaf(r.d, mmu[n].tdirearr, v) = Leaf(dir, mmu[n].tdirearr, v)
    <3>1. /\ r.f \cup Used(r.m.head) = free \cup Used(mmu[m].head)
          /\ \A x \in Frames \ (free \cup Used(mmu[m].head)) : r.d[x] = dir[x]
      BY <1>4, <2>1
    <3>2. /\ r.d \in Dirs /\ r.f \in SUBSET Frames /\ r.m \in Descs /\ Kept(r.d, r.m)
          /\ r.f \cap Used(r.m.head) = {} /\ MemInv(dir, free, mmu)
      BY <1>3, <1>4
    <3>3. QED  BY <3>1, <3>2, Replace
  <2>3. MemInv(dir, free, mmu)'
    <3>1. MemInv(dir', free', mmu')
      BY <1>1, <2>2 DEF Replaced
    <3>2. QED  BY <3>1 DEF MemInv
  <2>4. mmu'[m] = r.m /\ \A n \in Mmus \ {m} : mmu'[n] = mmu[n]
    BY <1>1, <1>3
  <2>5. LiveInv'
    <3>1. \A n \in Mmus \ live' : mmu'[n] = mmudsc_t_init
      BY <1>1, <2>4 DEF MmuInv, LiveInv
    <3>2. \E n \in live' : cr3' = mmu'[n].tdirearr
      BY <1>1, <2>4 DEF MmuInv, LiveInv
    <3>3. QED  BY <1>1, <3>1, <3>2 DEF MmuInv, LiveInv
  <2>6. \A n \in Mmus \ {m} : \A v \in Vadrs : Page(n, v)' = Page(n, v)
    BY <1>1, <2>2, <2>4 DEF Page
  <2>7. \A v \in Vadrs : Page(m, v)' = NULL
    BY <1>1, <1>4, <2>4 DEF Page
  <2>8. PageStep
    BY <2>6, <2>7 DEF PageStep
  <2>9. TlbInv'
    <3>1. PICK n \in Mmus \ {m} : cr3 = mmu[n].tdirearr
      BY <1>1 DEF MmuInv, LiveInv
    <3>2. \A v \in Vadrs : Leaf(dir', cr3', v) = Leaf(dir, cr3, v)
      BY <1>1, <2>2, <3>1
    <3>3. tlb' = tlb /\ \A e \in tlb : e[1] \in Vadrs
      BY <1>1 DEF MmuInv, LiveInv
    <3>4. QED  BY <3>2, <3>3 DEF MmuInv, TlbInv
  <2>10. QED  BY <2>3, <2>5, <2>8, <2>9 DEF MmuInv
<1>a. ASSUME q \in States
      PROVE  r.d = q.d /\ r.f = q.f /\ r.m = [q.m EXCEPT !.tdirearr = q.at]
  <2> HIDE DEF q
  <2>1. QED  BY <1>a DEF States
<1>5. CASE free = {}
  <2>1. q = [s EXCEPT !.at = NULL]
    BY <1>2, <1>5 DEF mmu_new_direarr
  <2>2. q.at = NULL /\ q.d = dir /\ q.f = free /\ q.m = mmudsc_t_init /\ q \in States
    BY <1>2, <2>1 DEF States
  <2> HIDE DEF q, r
  <2>3. r.d = dir /\ r.f = free /\ r.m = mmudsc_t_init
    <3>1. [mmudsc_t_init EXCEPT !.tdirearr = NULL] = mmudsc_t_init
      BY DEF mmudsc_t_init
    <3>2. QED  BY <1>a, <2>2, <3>1
  <2>4. mmudsc_t_init.tdirearr = NULL
    BY DEF mmudsc_t_init
  <2>5. \A v \in Vadrs : Leaf(r.d, r.m.tdirearr, v) = NULL
    BY <2>3, <2>4 DEF Leaf, T4, T3, T2, Ent
  <2>6. QED  BY <1>3, <1>4, <1>5, <2>3, <2>5, NoTables
<1>6. CASE free # {}
  <2> HIDE DEF r
  <2>c. PICK c \in s.f : Taken(s, q, 1, c)
    BY <1>2, <1>6, NewDirearr
  <2> HIDE DEF q
  <2>1. /\ q \in States
        /\ q.f = s.f \ {c} /\ q.d = Blank(s.d, c) /\ q.at = c
        /\ q.m.head = With(s.m.head, 1, c)
        /\ q.m.msanr = Add(s.m.msanr, 1, 1)
    BY <2>c DEF Taken
  <2>2. /\ r.d = q.d /\ r.f = q.f /\ r.m = [q.m EXCEPT !.tdirearr = c]
    BY <1>a, <2>1
  <2>3. q.d \in Dirs /\ q.m \in Descs /\ c \in Frames /\ c \in free
    BY <1>2, <1>3, <2>1 DEF States
  <2>4. /\ r.d \in Dirs /\ r.m \in Descs /\ r.m.tdirearr = c
        /\ r.m.head = q.m.head /\ r.m.msanr = q.m.msanr
    BY <2>2, <2>3 DEF Descs
  <2>5. r.d[c] = Zero /\ \A x \in Frames \ {c} : r.d[x] = dir[x]
    BY <1>2, <1>3, <2>1, <2>2, <2>3 DEF Dirs, Blank
  <2>a. r.m.head = With(mmudsc_t_init.head, 1, c)
    BY <1>2, <2>1, <2>4
  <2>b. r.m.msanr[1] = 1 /\ \A l \in Levels \ {1} : r.m.msanr[l] = 0
    <3>1. r.m.msanr = Add(mmudsc_t_init.msanr, 1, 1)
      BY <1>2, <2>1, <2>4
    <3>2. mmudsc_t_init.msanr = [l \in 1 .. 4 |-> 0]
      BY DEF mmudsc_t_init
    <3>3. QED  BY <3>1, <3>2 DEF Add, Levels
  <2>6. /\ Used(r.m.head) = {c} /\ Kept(r.d, r.m)
        /\ \A v \in Vadrs : Leaf(r.d, c, v) = NULL
    <3>1. Fresh(r.m, c)
      BY <2>4, <2>a, <2>b DEF Fresh
    <3>2. r.d \in Dirs /\ r.m \in Descs /\ c \in Frames /\ r.d[c] = Zero
      BY <2>3, <2>4, <2>5
    <3>3. QED  BY <1>3, <3>1, <3>2, OneTable
  <2>7. /\ r.f \in SUBSET Frames /\ r.f \cap Used(r.m.head) = {}
        /\ r.f \cup Used(r.m.head) = free
    BY <1>2, <1>3, <2>1, <2>2, <2>3, <2>6
  <2>8. QED  BY <1>4, <2>3, <2>4, <2>5, <2>6, <2>7
<1>7. QED  BY <1>5, <1>6

\* hal_mmu_load keeps it: the processor forgets what it knew of the other
\* tables.
LEMMA LoadStep ==
    ASSUME MmuInv, NEW m \in Mmus, hal_mmu_load(m)
    PROVE  MmuInv' /\ PageStep
<1>1. m \in live /\ curr' = m /\ dir' = dir /\ free' = free /\ mmu' = mmu /\ live' = live
  BY DEF hal_mmu_load
<1>2. MemInv(dir, free, mmu)'
  <2>1. MemInv(dir', free', mmu')
    BY <1>1 DEF MmuInv
  <2>2. QED  BY <2>1 DEF MemInv
<1>3. PageStep
  BY <1>1 DEF PageStep, Page
<1>4. CASE mmu[m].tdirearr = NULL
  <2>1. cr3' = cr3 /\ tlb' = tlb
    BY <1>4 DEF hal_mmu_load
  <2>2. LiveInv' /\ TlbInv'
    BY <1>1, <2>1 DEF MmuInv, LiveInv, TlbInv
  <2>3. QED  BY <1>2, <1>3, <2>2 DEF MmuInv
<1>5. CASE mmu[m].tdirearr # NULL
  <2>1. cr3' = mmu[m].tdirearr /\ tlb' = {}
    BY <1>5 DEF hal_mmu_load
  <2>2. LiveInv' /\ TlbInv'
    BY <1>1, <1>5, <2>1 DEF MmuInv, LiveInv, TlbInv
  <2>3. QED  BY <1>2, <1>3, <2>2 DEF MmuInv
<1>6. QED  BY <1>4, <1>5

\* hal_mmu_clean keeps it and gives all the tables of an address space back.
LEMMA CleanStep ==
    ASSUME MmuInv, NEW m \in Mmus, hal_mmu_clean(m)
    PROVE  MmuInv' /\ PageStep
<1> DEFINE g == free \cup Used(mmu[m].head)
<1>1. /\ m \in live /\ m # curr /\ mmu[m].tdirearr # cr3
      /\ free' = g /\ mmu' = [mmu EXCEPT ![m] = mmudsc_t_init]
      /\ live' = live \ {m} /\ dir' = dir /\ curr' = curr /\ cr3' = cr3 /\ tlb' = tlb
  BY DEF hal_mmu_clean, Used, Levels
<1>2. MemInv(dir, free, mmu) /\ Counting /\ dir \in Dirs /\ mmu \in [Mmus -> Descs]
  BY DEF MmuInv, MemInv
<1>3. g \in SUBSET Frames
  BY DEF MmuInv, MemInv, Descs, Heads, Used
<1> HIDE DEF g
<1>4. /\ MemInv(dir, g, Replaced(mmu, m, mmudsc_t_init))
  <2>1. /\ mmudsc_t_init \in Descs /\ Kept(dir, mmudsc_t_init)
        /\ g \cap Used(mmudsc_t_init.head) = {}
        /\ g \cup Used(mmudsc_t_init.head) = free \cup Used(mmu[m].head)
    BY <1>2, NoTables DEF g
  <2>2. QED  BY <1>2, <1>3, <2>1, Replace
<1>5. MemInv(dir, free, mmu)'
  <2>1. MemInv(dir', free', mmu')
    BY <1>1, <1>4 DEF Replaced
  <2>2. QED  BY <2>1 DEF MemInv
<1>6. mmu'[m] = mmudsc_t_init /\ \A n \in Mmus \ {m} : mmu'[n] = mmu[n]
  BY <1>1, <1>2
<1>7. LiveInv'
  <2>1. \A n \in Mmus \ live' : mmu'[n] = mmudsc_t_init
    BY <1>1, <1>6 DEF MmuInv, LiveInv
  <2>2. \E n \in live' : cr3' = mmu'[n].tdirearr
    BY <1>1, <1>6 DEF MmuInv, LiveInv
  <2>3. QED  BY <1>1, <2>1, <2>2 DEF MmuInv, LiveInv
<1>8. TlbInv'
  BY <1>1 DEF MmuInv, TlbInv
<1>9. PageStep
  <2>1. \A n \in Mmus \ {m} : \A v \in Vadrs : Page(n, v)' = Page(n, v)
    BY <1>1, <1>6 DEF Page
  <2>2. mmu'[m].tdirearr = NULL
    BY <1>6 DEF mmudsc_t_init
  <2>3. \A v \in Vadrs : Page(m, v)' = NULL
    BY <2>2 DEF Page, Leaf, T4, T3, T2, Ent
  <2>4. QED  BY <2>1, <2>3 DEF PageStep
<1>10. QED  BY <1>5, <1>7, <1>8, <1>9 DEF MmuInv

\* The processor remembers a translation that the tables have.
LEMMA TranslateStep ==
    ASSUME MmuInv, NEW v \in Vadrs, Translate(v)
    PROVE  MmuInv' /\ UNCHANGED <<dir, mmu>>
<1> DEFINE p == WalkFrom(dir, cr3, v)[5]
<1>1. /\ p # NULL /\ tlb' = tlb \cup {<<v, p>>}
      /\ dir' = dir /\ free' = free /\ mmu' = mmu /\ live' = live /\ curr' = curr /\ cr3' = cr3
  BY DEF Translate
<1>2. p = Leaf(dir, cr3, v)
  BY WalkIs
<1> HIDE DEF p
<1>3. p \in Pages
  <2>1. PICK m \in Mmus : cr3 = mmu[m].tdirearr
    BY DEF MmuInv, LiveInv
  <2>2. /\ dir \in Dirs /\ mmu[m].head \in Heads /\ Tree(dir, mmu[m].head)
        /\ cr3 \in mmu[m].head[1] \cup {NULL}
    BY <2>1 DEF MmuInv, MemInv, Kept, Described, Descs
  <2>3. QED  BY <1>1, <1>2, <2>2, WalkLevels
<1>4. MemInv(dir, free, mmu)'
  <2>1. MemInv(dir', free', mmu')
    BY <1>1 DEF MmuInv
  <2>2. QED  BY <2>1 DEF MemInv
<1>5. LiveInv'
  BY <1>1, <1>3 DEF MmuInv, LiveInv
<1>6. TlbInv'
  BY <1>1, <1>2 DEF MmuInv, TlbInv
<1>7. QED  BY <1>1, <1>4, <1>5, <1>6 DEF MmuInv

-----------------------------------------------------------------------------
(* The theorems.                                                            *)

\* At boot there is one address space, with an empty root.
LEMMA InitInv == Init => MmuInv /\ \A m \in Mmus, v \in Vadrs : Page(m, v) = NULL
<1> SUFFICES ASSUME Init PROVE MmuInv /\ \A m \in Mmus, v \in Vadrs : Page(m, v) = NULL
  OBVIOUS
<1>1. PICK m \in Mmus, c \in {CHOOSE f \in Frames : TRUE} :
          /\ dir = [g \in Frames |-> Zero]
          /\ free = Frames \ {c}
          /\ mmu = [[n \in Mmus |-> mmudsc_t_init] EXCEPT ![m] =
                       [@ EXCEPT !.tdirearr = c, !.head[1] = {c}, !.msanr[1] = 1]]
          /\ live = {m} /\ curr = m /\ cr3 = c /\ tlb = {}
  BY Zenon DEF Init
<1>2. Counting /\ c \in Frames /\ c # NULL
  BY TablesCounted, MmuAssumption
<1>3. dir \in Dirs /\ dir[c] = Zero
  BY <1>1, <1>2 DEF Dirs, Zero
<1> DEFINE k == [mmudsc_t_init EXCEPT !.tdirearr = c, !.head[1] = {c}, !.msanr[1] = 1]
<1>4. mmu[m] = k /\ \A n \in Mmus \ {m} : mmu[n] = mmudsc_t_init
  BY <1>1
<1>5. /\ k.tdirearr = c
      /\ k.head = [mmudsc_t_init.head EXCEPT ![1] = {c}]
      /\ k.msanr = [mmudsc_t_init.msanr EXCEPT ![1] = 1]
      /\ k = [tdirearr |-> k.tdirearr, head |-> k.head, msanr |-> k.msanr]
  <2>1. mmudsc_t_init \in Descs
    BY <1>2, NoTables
  <2> DEFINE i == mmudsc_t_init
  <2> HIDE DEF i
  <2>2. k = [i EXCEPT !.tdirearr = c, !.head[1] = {c}, !.msanr[1] = 1] /\ i \in Descs
    BY <2>1 DEF i
  <2> HIDE DEF k
  <2>3. k.tdirearr = c /\ k.head = [i.head EXCEPT ![1] = {c}] /\ k.msanr = [i.msanr EXCEPT ![1] = 1]
    BY <2>2 DEF Descs
  <2>4. k = [tdirearr |-> k.tdirearr, head |-> k.head, msanr |-> k.msanr]
    <3> DEFINE hd == [i.head EXCEPT ![1] = {c}]
               nr == [i.msanr EXCEPT ![1] = 1]
    <3>1. k = [i EXCEPT !.tdirearr = c, !.head = hd, !.msanr = nr]
      BY <2>2 DEF Descs
    <3> HIDE DEF hd, nr
    <3>2. QED  BY <2>2, <3>1, Zenon DEF Descs
  <2>5. QED  BY <2>3, <2>4 DEF i
<1>a. /\ mmudsc_t_init.head = [l \in 1 .. 4 |-> {}]
      /\ mmudsc_t_init.msanr = [l \in 1 .. 4 |-> 0]
  BY DEF mmudsc_t_init
<1> HIDE DEF k
<1>6. k \in Descs
  <2>1. k.head \in Heads
    BY <1>2, <1>5, <1>a DEF Heads, Levels
  <2>2. k.msanr \in [Levels -> Int]
    BY <1>5, <1>a DEF Levels
  <2>3. QED  BY <1>2, <1>5, <2>1, <2>2 DEF Descs
<1>7. Fresh(k, c)
  <2>1. k.head = With(mmudsc_t_init.head, 1, c)
    BY <1>5, <1>a DEF With
  <2>2. k.msanr[1] = 1 /\ \A l \in Levels \ {1} : k.msanr[l] = 0
    BY <1>5, <1>a DEF Levels
  <2>3. QED  BY <1>5, <2>1, <2>2 DEF Fresh
<1>8. Used(k.head) = {c} /\ Kept(dir, k) /\ \A v \in Vadrs : Leaf(dir, c, v) = NULL
  BY <1>2, <1>3, <1>6, <1>7, OneTable
<1>9. MemInv(dir, free, mmu)
  <2>1. mmu \in [Mmus -> Descs]
    <3>1. \A n \in Mmus : mmu[n] \in Descs
      BY <1>2, <1>4, <1>6, NoTables
    <3>2. mmu = [n \in Mmus |-> mmu[n]]
      BY <1>1
    <3>3. QED  BY <3>1, <3>2
  <2>2. \A n \in Mmus : Kept(dir, mmu[n])
    BY <1>2, <1>4, <1>8, NoTables
  <2>3. \A n \in Mmus : Used(mmu[n].head) = IF n = m THEN {c} ELSE {}
    BY <1>2, <1>4, <1>8, NoTables
  <2>4. \A n, o \in Mmus : \A x \in Used(mmu[n].head) : x \in Used(mmu[o].head) => n = o
    BY <2>3
  <2>5. \A x \in Frames : x \in free <=> \A n \in Mmus : x \notin Used(mmu[n].head)
    BY <1>1, <2>3
  <2>6. free \subseteq Frames
    BY <1>1
  <2>7. QED  BY <1>2, <1>3, <2>1, <2>2, <2>4, <2>5, <2>6 DEF MemInv
<1>10. LiveInv
  BY <1>1, <1>2, <1>4, <1>7 DEF LiveInv, Fresh
<1>11. TlbInv
  BY <1>1 DEF TlbInv
<1>12. ASSUME NEW n \in Mmus, NEW v \in Vadrs PROVE Page(n, v) = NULL
  <2>1. CASE n = m  BY <1>4, <1>7, <1>8, <2>1 DEF Page, Fresh
  <2>2. CASE n # m
    <3>1. mmu[n].tdirearr = NULL
      BY <1>4, <2>2 DEF mmudsc_t_init
    <3>2. QED  BY <3>1 DEF Page, Leaf, T4, T3, T2, Ent
  <2>3. QED  BY <2>1, <2>2
<1>13. QED  BY <1>9, <1>10, <1>11, <1>12 DEF MmuInv

\* Every step keeps the invariant and changes the translations as PageMap does.
LEMMA NextInv ==
    ASSUME MmuInv, [Next]_vars
    PROVE  MmuInv' /\ (PageStep \/ UNCHANGED <<dir, mmu>>)
<1>1. ASSUME NEW v \in Vadrs, NEW p \in Pages, hal_mmu_transform(v, p) PROVE MmuInv' /\ PageStep
  BY <1>1, TransformStep
<1>2. ASSUME NEW v \in Vadrs, hal_mmu_untransform(v) PROVE MmuInv' /\ PageStep
  BY <1>2, UntransformStep
<1>3. ASSUME NEW m \in Mmus, hal_mmu_init(m) PROVE MmuInv' /\ PageStep
  BY <1>3, InitStep
<1>4. ASSUME NEW m \in Mmus, hal_mmu_load(m) PROVE MmuInv' /\ PageStep
  BY <1>4, LoadStep
<1>5. ASSUME NEW m \in Mmus, hal_mmu_clean(m) PROVE MmuInv' /\ PageStep
  BY <1>5, CleanStep
<1>6. ASSUME NEW v \in Vadrs, Translate(v) PROVE MmuInv' /\ UNCHANGED <<dir, mmu>>
  BY <1>6, TranslateStep
<1>7. ASSUME UNCHANGED vars PROVE MmuInv' /\ UNCHANGED <<dir, mmu>>
  BY <1>7 DEF vars, MmuInv, MemInv, LiveInv, TlbInv
<1>8. QED  BY <1>1, <1>2, <1>3, <1>4, <1>5, <1>6, <1>7 DEF Next

\* The invariant always holds.
LEMMA InvCorrect == Spec => []MmuInv
<1>1. Init => MmuInv
  BY InitInv
<1>2. MmuInv /\ [Next]_vars => MmuInv'
  BY NextInv
<1>3. QED  BY <1>1, <1>2, PTL DEF Spec

\* A page is a table of at most one level of one address space.
LEMMA OneHead ==
    ASSUME MmuInv, NEW m \in Mmus, NEW n \in Mmus, NEW k \in Levels, NEW l \in Levels,
           NEW x \in mmu[m].head[k], x \in mmu[n].head[l]
    PROVE  m = n /\ k = l
<1>1. x \in Used(mmu[m].head) /\ x \in Used(mmu[n].head)
  BY DEF Used
<1>2. m = n
  BY <1>1 DEF MmuInv, MemInv
<1>3. QED  BY <1>2 DEF MmuInv, MemInv, Kept, Tree, LevelsApart

\* An entry of a table in use that points to a page of the pool leads one level
\* down in the same address space.
LEMMA OneEntry ==
    ASSUME MmuInv, NEW t \in Frames \ free, NEW i \in Idx, dir[t][i] \in Frames
    PROVE  \E m \in Mmus : \E l \in Uppers :
               t \in mmu[m].head[l] /\ dir[t][i] \in mmu[m].head[l + 1]
<1>1. PICK m \in Mmus, l \in Levels : t \in mmu[m].head[l]
  BY DEF MmuInv, MemInv, Used
<1>2. Children(dir, mmu[m].head)
  BY DEF MmuInv, MemInv, Kept, Tree
<1>3. l # 4
  BY <1>1, <1>2, MmuAssumption DEF Children
<1>4. l \in Uppers
  BY <1>3 DEF Levels, Uppers
<1>5. dir[t][i] \in mmu[m].head[l + 1]
  BY <1>1, <1>2, <1>4, MmuAssumption DEF Children
<1>6. QED  BY <1>1, <1>4, <1>5

\* Every page of the pool is free or one table, at one level of one address
\* space, that one entry leads to (TablesPrivate): hal_mmu_transform and the
\* functions that undo it never share or lose a table, for any number of
\* address spaces, indices and pages.
THEOREM TablesPrivateCorrect == Spec => []TablesPrivate
<1>1. ASSUME MmuInv PROVE TablesPrivate
  <2> DEFINE HS == Mmus \X (1 .. 4)
             Hd(h) == mmu[h[1]].head[h[2]]
  <2>1. \A h \in HS : h = <<h[1], h[2]>> /\ h[1] \in Mmus /\ h[2] \in Levels
    BY DEF Levels
  <2>2. ASSUME NEW h \in HS, NEW k \in HS, h # k PROVE Hd(h) \cap Hd(k) = {}
    BY <1>1, <2>1, <2>2, OneHead
  <2>3. free = Frames \ UNION {Hd(h) : h \in HS}
    <3>1. \A x : x \in UNION {Hd(h) : h \in HS} <=> \E m \in Mmus : x \in Used(mmu[m].head)
      <4>1. \A x : (\E m \in Mmus, l \in 1 .. 4 : x \in mmu[m].head[l]) <=> \E h \in HS : x \in Hd(h)
        <5>1. \A m \in Mmus, l \in 1 .. 4 : <<m, l>> \in HS /\ Hd(<<m, l>>) = mmu[m].head[l]
          OBVIOUS
        <5>2. ASSUME NEW x, NEW m \in Mmus, NEW l \in 1 .. 4, x \in mmu[m].head[l]
              PROVE  \E h \in HS : x \in Hd(h)
          <6>1. <<m, l>> \in HS /\ x \in Hd(<<m, l>>)
            BY <5>1, <5>2
          <6>2. QED  BY <6>1
        <5>3. ASSUME NEW x, NEW h \in HS, x \in Hd(h)
              PROVE  \E m \in Mmus, l \in 1 .. 4 : x \in mmu[m].head[l]
          BY <2>1, <5>3 DEF Levels
        <5>4. QED  BY <5>2, <5>3
      <4>2. QED  BY <4>1 DEF Used, Levels
    <3>2. free \subseteq Frames /\ \A x \in Frames : x \in free <=> \A m \in Mmus : x \notin Used(mmu[m].head)
      BY <1>1 DEF MmuInv, MemInv
    <3>3. QED  BY <3>1, <3>2
  <2>4. ASSUME NEW t \in Frames \ free, NEW u \in Frames \ free, NEW i \in Idx, NEW j \in Idx,
               dir[t][i] \in Frames, dir[t][i] = dir[u][j]
        PROVE  <<t, i>> = <<u, j>>
    <3>1. PICK m \in Mmus : \E l \in Uppers : t \in mmu[m].head[l] /\ dir[t][i] \in mmu[m].head[l + 1]
      BY <1>1, <2>4, OneEntry
    <3>2. PICK l \in Uppers : t \in mmu[m].head[l] /\ dir[t][i] \in mmu[m].head[l + 1]
      BY <3>1
    <3>3. PICK n \in Mmus : \E k \in Uppers : u \in mmu[n].head[k] /\ dir[u][j] \in mmu[n].head[k + 1]
      BY <1>1, <2>4, OneEntry
    <3>4. PICK k \in Uppers : u \in mmu[n].head[k] /\ dir[u][j] \in mmu[n].head[k + 1]
      BY <3>3
    <3>5. k + 1 \in Levels /\ l + 1 \in Levels
      BY DEF Uppers, Levels
    <3>6. m = n /\ l + 1 = k + 1
      BY <1>1, <2>4, <3>2, <3>4, <3>5, OneHead
    <3>7. m = n /\ l = k
      BY <3>6 DEF Uppers
    <3>8. Single(dir, mmu[m].head) /\ dir[t][i] # NULL
      BY <1>1, <2>4, MmuAssumption DEF MmuInv, MemInv, Kept, Tree
    <3>9. QED  BY <2>4, <3>2, <3>4, <3>7, <3>8 DEF Single
  <2>5. QED  BY <2>2, <2>3, <2>4 DEF TablesPrivate
<1>2. QED  BY <1>1, InvCorrect, PTL

\* The lists of a descriptor hold exactly the tables its root leads to, msanr
\* counts them, and no table below a root is empty (ListsExact): a table goes
\* with its last entry, and a mapping that fails half-way leaves none behind.
THEOREM ListsExactCorrect == Spec => []ListsExact
<1>1. ASSUME MmuInv PROVE ListsExact
  <2> SUFFICES ASSUME NEW m \in Mmus
               PROVE  /\ mmu[m].head[1] = {mmu[m].tdirearr} \ {NULL}
                      /\ \A l \in 1 .. 3 : mmu[m].head[l + 1] = Below(mmu[m].head[l])
                      /\ \A l \in 1 .. 4 : mmu[m].msanr[l] = Cardinality(mmu[m].head[l])
                      /\ \A l \in 2 .. 4 : \A t \in mmu[m].head[l] : dir[t] # Zero
    BY DEF ListsExact
  <2> DEFINE H == mmu[m].head
  <2>1. Kept(dir, mmu[m])
    BY <1>1 DEF MmuInv, MemInv
  <2>2. ASSUME NEW l \in 1 .. 3 PROVE H[l + 1] = Below(H[l])
    <3>1. l \in Uppers /\ l + 1 \in Levels
      BY DEF Uppers, Levels
    <3>2. NULL \notin H[l + 1]
      BY <1>1, <3>1, MmuAssumption DEF MmuInv, MemInv, Descs, Heads
    <3>3. \A t \in H[l], i \in Idx : dir[t][i] \in H[l + 1] \cup {NULL}
      BY <2>1, <3>1 DEF Kept, Tree, Children
    <3>4. \A c \in H[l + 1] : \E t \in H[l], i \in Idx : dir[t][i] = c
      BY <2>1, <3>1 DEF Kept, Tree, Parents
    <3>5. QED  BY <3>2, <3>3, <3>4 DEF Below
  <2>3. QED  BY <2>1, <2>2 DEF Kept, Described, FullBut, Levels
<1>2. QED  BY <1>1, InvCorrect, PTL

\* The processor never uses a translation that the tables it is on do not have
\* (TlbCoherent): hal_mmu_transform may leave the translations it remembers
\* alone when it fails, because a failed mapping changes none.
THEOREM TlbCoherentCorrect == Spec => []TlbCoherent
<1>1. ASSUME MmuInv PROVE TlbCoherent
  <2>1. PICK m \in Mmus : cr3 = mmu[m].tdirearr /\ cr3 # NULL
    BY <1>1 DEF MmuInv, LiveInv
  <2>2. 1 \in Levels /\ cr3 \in mmu[m].head[1]
    BY <1>1, <2>1 DEF MmuInv, MemInv, Kept, Described, Levels
  <2>3. cr3 \in Used(mmu[m].head)
    BY <2>2 DEF Used
  <2>4. cr3 \notin free
    BY <1>1, <2>3 DEF MmuInv, MemInv
  <2>5. \A e \in tlb : WalkFrom(dir, cr3, e[1])[5] = e[2]
    BY <1>1, WalkIs DEF MmuInv, TlbInv
  <2>6. QED  BY <2>4, <2>5 DEF TlbCoherent
<1>2. QED  BY <1>1, InvCorrect, PTL

\* The tables of every address space, read as a map, change as PageMap allows:
\* an operation changes one entry of one map, drops a map or changes nothing.
THEOREM PageMapImplemented == Spec => ImplementsPageMap
<1> DEFINE map == [m \in Mmus |-> [v \in Vadrs |-> WalkFrom(dir, mmu[m].tdirearr, v)[5]]]
<1>1. map = [m \in Mmus |-> [v \in Vadrs |-> Page(m, v)]]
  BY WalkIs DEF Page
<1>2. Init => Map!Init
  BY <1>1, InitInv DEF Map!Init, Map!Empty
<1>3. ASSUME MmuInv, [Next]_vars PROVE [Map!Next]_map
  <2>1. CASE UNCHANGED <<dir, mmu>>
    BY <2>1
  <2>2. CASE PageStep
    <3>1. PICK m \in Mmus :
              /\ \A n \in Mmus \ {m} : \A v \in Vadrs : Page(n, v)' = Page(n, v)
              /\ \/ \A v \in Vadrs : Page(m, v)' = Page(m, v)
                 \/ \E v \in Vadrs : /\ Page(m, v)' \in Pages \cup {NULL}
                                     /\ \A w \in Vadrs \ {v} : Page(m, w)' = Page(m, w)
                 \/ \A v \in Vadrs : Page(m, v)' = NULL
      BY <2>2 DEF PageStep
    <3>2. \A n \in Mmus : map[n] = [v \in Vadrs |-> Page(n, v)] /\ map'[n] = [v \in Vadrs |-> Page(n, v)']
      BY <1>1, WalkIs DEF Page
    <3>3. \A n \in Mmus \ {m} : map'[n] = map[n]
      BY <3>1, <3>2
    <3>4. CASE \A v \in Vadrs : Page(m, v)' = Page(m, v)
      <4>1. \A n \in Mmus : map'[n] = map[n]
        BY <3>2, <3>3, <3>4
      <4>2. map' = map
        BY <4>1
      <4>3. QED  BY <4>2
    <3>5. CASE \E v \in Vadrs : /\ Page(m, v)' \in Pages \cup {NULL}
                                /\ \A w \in Vadrs \ {v} : Page(m, w)' = Page(m, w)
      <4>1. Map!Entry(map[m], map'[m])
        BY <3>2, <3>5 DEF Map!Entry
      <4>2. QED  BY <3>3, <4>1, Zenon DEF Map!Next
    <3>6. CASE \A v \in Vadrs : Page(m, v)' = NULL
      <4>1. Map!Drop(map'[m])
        BY <3>2, <3>6 DEF Map!Drop, Map!Empty
      <4>2. QED  BY <3>3, <4>1, Zenon DEF Map!Next
    <3>7. QED  BY <3>1, <3>4, <3>5, <3>6
  <2>3. QED  BY <1>3, <2>1, <2>2, NextInv
<1>4. QED  BY <1>2, <1>3, InvCorrect, PTL DEF Spec, ImplementsPageMap, Map!Spec
=============================================================================
