-------------------------- MODULE HalMmuTreeProofs --------------------------
(***************************************************************************)
(* Lemmas about the page tables of one descriptor: the tables its lists     *)
(* hold are a tree, level by level, which every step of a transform keeps,  *)
(* and an untransform as a whole.                                           *)
(***************************************************************************)
EXTENDS HalMmu, TLAPS

Levels == 1 .. 4
Uppers == 1 .. 3     \* the levels whose entries lead to tables

Dirs == [Frames -> [Idx -> Frames \cup Pages \cup {NULL}]]
Heads == [Levels -> SUBSET Frames]
Descs == [tdirearr : Frames \cup {NULL}, head : Heads, msanr : [Levels -> Int]]
States == [d : Dirs, f : SUBSET Frames, m : Descs, at : Frames \cup {NULL}]

Used(H) == UNION {H[l] : l \in Levels}

\* Tables with the entries d, in the lists H, are a tree, level by level.
LevelsApart(H) == \A k, l \in Levels : \A t \in H[k] : t \in H[l] => k = l
Children(d, H) ==
    /\ \A l \in Uppers : \A t \in H[l], i \in Idx : d[t][i] \in H[l + 1] \cup {NULL}
    /\ \A t \in H[4], i \in Idx : d[t][i] \in Pages \cup {NULL}
Parents(d, H) ==
    \A l \in Uppers : \A c \in H[l + 1] : \E t \in H[l], i \in Idx : d[t][i] = c
Single(d, H) ==
    \A l \in Uppers : \A t, u \in H[l], i, j \in Idx :
        d[t][i] # NULL /\ d[t][i] = d[u][j] => t = u /\ i = j

Tree(d, H) == LevelsApart(H) /\ Children(d, H) /\ Parents(d, H) /\ Single(d, H)

\* No table below the root is empty, but those in X may be.
FullBut(d, H, X) == \A l \in 2 .. 4 : \A t \in H[l] \ X : d[t] # Zero

\* What the descriptor says besides.
Described(m) ==
    /\ m.head[1] = {m.tdirearr} \ {NULL}
    /\ \A l \in Levels : m.msanr[l] = Cardinality(m.head[l])

-----------------------------------------------------------------------------
(* An entry of a tree is linked to a new table, or cut from an empty one.   *)

Put(d, t, i, x) == [d EXCEPT ![t][i] = x]
With(H, k, c) == [H EXCEPT ![k] = @ \cup {c}]
Without(H, k, c) == [H EXCEPT ![k] = @ \ {c}]
Blank(d, c) == [d EXCEPT ![c] = Zero]
Linked(d, t, i, c) == Put(Blank(d, c), t, i, c)
Add(n, k, j) == [n EXCEPT ![k] = @ + j]

\* What mmu_new_direarr and mmu_del_direarr do to the state of an operation.
Taken(s, r, l, c) ==
    /\ r \in States
    /\ r.f = s.f \ {c} /\ r.d = Blank(s.d, c) /\ r.at = c
    /\ r.m.tdirearr = s.m.tdirearr
    /\ r.m.head = With(s.m.head, l, c)
    /\ r.m.msanr = Add(s.m.msanr, l, 1)

GivenBack(s, r, l, c) ==
    /\ r \in States
    /\ r.f = s.f \cup {c} /\ r.d = s.d /\ r.at = s.at
    /\ r.m.tdirearr = s.m.tdirearr
    /\ r.m.head = Without(s.m.head, l, c)
    /\ r.m.msanr = Add(s.m.msanr, l, -1)

MakeDesc(m, hd, nr) == [m EXCEPT !.head = hd, !.msanr = nr]
MakeState(s, d, f, m, at) == [s EXCEPT !.d = d, !.f = f, !.m = m, !.at = at]

\* A descriptor with other lists and counts.
LEMMA NewDesc ==
    ASSUME NEW m \in Descs, NEW hd \in Heads, NEW nr \in [Levels -> Int],
           NEW k, k = MakeDesc(m, hd, nr)
    PROVE  k \in Descs /\ k.tdirearr = m.tdirearr /\ k.head = hd /\ k.msanr = nr
BY Zenon DEF Descs, MakeDesc

\* The state of an operation with other fields.
LEMMA NewState ==
    ASSUME NEW s \in States, NEW d \in Dirs, NEW f \in SUBSET Frames, NEW m \in Descs,
           NEW at \in Frames \cup {NULL}, NEW r, r = MakeState(s, d, f, m, at)
    PROVE  r \in States /\ r.d = d /\ r.f = f /\ r.m = m /\ r.at = at
BY Zenon DEF States, MakeState

\* mmu_new_direarr takes a free page, clears it and counts it in its list.
LEMMA NewDirearr ==
    ASSUME NEW s \in States, NEW l \in Levels, s.f # {}
    PROVE  \E c \in s.f : Taken(s, mmu_new_direarr(s, l), l, c)
<1> DEFINE c == CHOOSE p \in s.f : TRUE
           r == mmu_new_direarr(s, l)
           hd == With(s.m.head, l, c)
           nr == Add(s.m.msanr, l, 1)
           d == Blank(s.d, c)
           m == MakeDesc(s.m, hd, nr)
           f == s.f \ {c}
<1>1. c \in s.f /\ c \in Frames /\ f \in SUBSET Frames /\ s.m \in Descs
  BY DEF States
<1>2. Zero \in [Idx -> Frames \cup Pages \cup {NULL}]
  BY DEF Zero
<1>3. r = [s EXCEPT !.f = @ \ {c}, !.d[c] = Zero, !.at = c,
                    !.m.head[l] = @ \cup {c}, !.m.msanr[l] = @ + 1]
  BY DEF mmu_new_direarr
<1> HIDE DEF c, r
<1>4. r = MakeState(s, d, f, m, c)
  BY <1>3, Zenon DEF MakeState, MakeDesc, States, Descs, With, Add, Blank
<1>5. d \in Dirs
  BY <1>1, <1>2 DEF Blank, States, Dirs
<1>6. hd \in Heads
  BY <1>1 DEF With, States, Descs, Heads
<1>7. nr \in [Levels -> Int]
  BY DEF Add, States, Descs
<1> HIDE DEF hd, nr, d, f
<1>8. m \in Descs /\ m.tdirearr = s.m.tdirearr /\ m.head = hd /\ m.msanr = nr
  BY <1>1, <1>6, <1>7, NewDesc
<1> HIDE DEF m
<1>9. r \in States /\ r.d = d /\ r.f = f /\ r.m = m /\ r.at = c
  BY <1>1, <1>4, <1>5, <1>8, NewState
<1>10. Taken(s, r, l, c)
  BY <1>8, <1>9 DEF Taken, hd, nr, d, f
<1>11. QED  BY <1>1, <1>10 DEF r

\* mmu_del_direarr gives a table back.
LEMMA DelDirearr ==
    ASSUME NEW s \in States, NEW l \in Levels, NEW c \in s.m.head[l]
    PROVE  GivenBack(s, mmu_del_direarr(s, c, l), l, c)
<1> DEFINE r == mmu_del_direarr(s, c, l)
           hd == Without(s.m.head, l, c)
           nr == Add(s.m.msanr, l, -1)
           m == MakeDesc(s.m, hd, nr)
           f == s.f \cup {c}
<1>1. s.m \in Descs /\ s.d \in Dirs /\ s.at \in Frames \cup {NULL}
  BY DEF States
<1>2. f \in SUBSET Frames
  BY DEF States, Descs, Heads
<1>3. r = [s EXCEPT !.f = @ \cup {c}, !.m.head[l] = @ \ {c}, !.m.msanr[l] = @ - 1]
  BY DEF mmu_del_direarr
<1> HIDE DEF r
<1>4. r = MakeState(s, s.d, f, m, s.at)
  <2>1. \A n \in Int : n - 1 = n + (-1)
    OBVIOUS
  <2>2. s.m.msanr[l] \in Int
    BY <1>1 DEF Descs
  <2>3. r = [s EXCEPT !.f = @ \cup {c}, !.m.head[l] = @ \ {c}, !.m.msanr[l] = @ + (-1)]
    BY <1>3, <2>1, <2>2, Zenon
  <2>4. QED  BY <2>3, Zenon DEF MakeState, MakeDesc, States, Descs, Without, Add
<1>5. hd \in Heads
  BY <1>1 DEF Without, Descs, Heads
<1>6. nr \in [Levels -> Int]
  BY <1>1 DEF Add, Descs
<1> HIDE DEF hd, nr, f
<1>7. m \in Descs /\ m.tdirearr = s.m.tdirearr /\ m.head = hd /\ m.msanr = nr
  BY <1>1, <1>5, <1>6, NewDesc
<1> HIDE DEF m
<1>8. r \in States /\ r.d = s.d /\ r.f = f /\ r.m = m /\ r.at = s.at
  BY <1>1, <1>2, <1>4, <1>7, NewState
<1>9. GivenBack(s, r, l, c)
  BY <1>7, <1>8 DEF GivenBack, hd, nr, f
<1>10. QED  BY <1>9 DEF r

\* An entry without a table gets a new, empty one, ...
LEMMA Link ==
    ASSUME NEW d \in Dirs, NEW H \in Heads, Tree(d, H),
           NEW l \in Uppers, NEW t \in H[l], NEW i \in Idx, d[t][i] = NULL,
           NEW c \in Frames \ Used(H)
    PROVE  LET e == Linked(d, t, i, c)
               K == With(H, l + 1, c)
           IN  e \in Dirs /\ K \in Heads /\ Tree(e, K)
<1> DEFINE e == Linked(d, t, i, c)
           K == With(H, l + 1, c)
<1>1. l \in Levels /\ l + 1 \in Levels /\ l # l + 1
  BY DEF Levels, Uppers
<1>2. t \in Frames /\ c # t /\ c # NULL /\ \A k \in Levels : c \notin H[k]
  BY <1>1, MmuAssumption DEF Heads, Used
<1>3. /\ e \in Dirs
      /\ \A j \in Idx : e[c][j] = NULL
      /\ \A j \in Idx : e[t][j] = IF j = i THEN c ELSE d[t][j]
      /\ \A u \in Frames \ {c, t} : e[u] = d[u]
  BY <1>2 DEF Linked, Put, Blank, Dirs, Zero
<1>4. /\ K \in Heads
      /\ K[l + 1] = H[l + 1] \cup {c}
      /\ \A k \in Levels \ {l + 1} : K[k] = H[k]
      /\ \A k \in Levels : \A u \in K[k] : u \in H[k] \/ (k = l + 1 /\ u = c)
      /\ \A k \in Levels : \A u \in H[k] : u \in K[k]
      /\ \A k \in Levels : H[k] \subseteq Frames
  BY <1>1 DEF With, Heads
<1> HIDE DEF e, K
<1>5. LevelsApart(K)
  BY <1>2, <1>4 DEF Tree, LevelsApart
<1>6. \A k \in Levels, u \in Frames : u \in H[k] /\ u = t => k = l
  BY <1>1 DEF Tree, LevelsApart
<1>7. \A k \in Levels, u \in Frames, j \in Idx : u \in H[k] =>
          e[u][j] = IF u = t /\ j = i THEN c ELSE d[u][j]
  BY <1>2, <1>3
<1>8. Children(e, K)
  <2>1. ASSUME NEW k \in Uppers, NEW u \in K[k], NEW j \in Idx PROVE e[u][j] \in K[k + 1] \cup {NULL}
    <3>1. k \in Levels /\ k + 1 \in Levels
      BY DEF Uppers, Levels
    <3>2. CASE u = c  BY <1>3, <3>2
    <3>3. CASE u # c /\ u = t /\ j = i
      <4>1. k = l
        BY <1>4, <1>6, <3>1, <3>3
      <4>2. QED  BY <1>3, <1>4, <3>1, <3>3, <4>1
    <3>4. CASE u # c /\ ~ (u = t /\ j = i)
      <4>1. u \in H[k] /\ d[u][j] \in H[k + 1] \cup {NULL}
        BY <1>4, <3>1, <3>4 DEF Tree, Children
      <4>2. QED  BY <1>4, <1>7, <3>1, <3>4, <4>1
    <3>5. QED  BY <3>2, <3>3, <3>4
  <2>2. ASSUME NEW u \in K[4], NEW j \in Idx PROVE e[u][j] \in Pages \cup {NULL}
    <3>1. CASE u = c  BY <1>3, <3>1
    <3>2. CASE u # c
      <4>1. 4 \in Levels /\ l # 4
        BY DEF Levels, Uppers
      <4>2. u \in H[4] /\ u # t
        BY <1>4, <1>6, <3>2, <4>1
      <4>3. QED  BY <1>7, <4>1, <4>2, <1>4 DEF Tree, Children
    <3>3. QED  BY <3>1, <3>2
  <2>3. QED  BY <2>1, <2>2 DEF Children
<1>9. Parents(e, K)
  <2> SUFFICES ASSUME NEW k \in Uppers, NEW x \in K[k + 1]
               PROVE  \E u \in K[k], j \in Idx : e[u][j] = x
    BY DEF Parents
  <2>1. k \in Levels /\ k + 1 \in Levels
    BY DEF Uppers, Levels
  <2>2. CASE x = c
    <3>1. k + 1 = l + 1
      BY <1>2, <1>4, <2>1, <2>2
    <3>2. k = l
      BY <3>1 DEF Uppers
    <3>3. t \in K[k] /\ e[t][i] = c
      BY <1>1, <1>3, <1>4, <3>2
    <3>4. QED  BY <2>2, <3>3
  <2>3. CASE x # c
    <3>1. x \in H[k + 1]
      BY <1>4, <2>1, <2>3
    <3>2. PICK u \in H[k], j \in Idx : d[u][j] = x
      BY <3>1 DEF Tree, Parents
    <3>3. x # NULL
      BY <1>4, <2>1, <3>1, MmuAssumption
    <3>4. u \in K[k] /\ e[u][j] = x
      BY <1>4, <1>7, <2>1, <3>2, <3>3
    <3>5. QED  BY <3>4
  <2>4. QED  BY <2>2, <2>3
<1>10. Single(e, K)
  <2> SUFFICES ASSUME NEW k \in Uppers, NEW u \in K[k], NEW w \in K[k], NEW j \in Idx, NEW g \in Idx,
                      e[u][j] # NULL, e[u][j] = e[w][g]
               PROVE  u = w /\ j = g
    BY DEF Single
  <2>1. k \in Levels /\ k + 1 \in Levels
    BY DEF Uppers, Levels
  <2>2. u # c /\ w # c
    BY <1>3
  <2>3. u \in H[k] /\ w \in H[k]
    BY <1>4, <2>1, <2>2
  <2>4. \A y \in H[k], x \in Idx : d[y][x] # c
    BY <1>2, <2>1 DEF Tree, Children
  <2>5. QED  BY <1>4, <1>7, <2>1, <2>3, <2>4 DEF Tree, Single
<1>11. QED  BY <1>3, <1>4, <1>5, <1>8, <1>9, <1>10 DEF Tree, e, K

\* ... and an entry is cut from an empty table: Link undone.
LEMMA Cut ==
    ASSUME NEW d \in Dirs, NEW H \in Heads, Tree(d, H),
           NEW l \in Uppers, NEW t \in H[l], NEW i \in Idx,
           NEW c, c = d[t][i], c # NULL, d[c] = Zero
    PROVE  LET e == Put(d, t, i, NULL)
               K == Without(H, l + 1, c)
           IN  /\ c \in H[l + 1]
               /\ e \in Dirs /\ K \in Heads /\ Tree(e, K)
               /\ t \in K[l] /\ e[t][i] = NULL /\ c \in Frames \ Used(K)
               /\ d = Linked(e, t, i, c)
               /\ H = With(K, l + 1, c)
<1> DEFINE e == Put(d, t, i, NULL)
           K == Without(H, l + 1, c)
<1>1. l \in Levels /\ l + 1 \in Levels /\ l # l + 1
  BY DEF Levels, Uppers
<1>2. c \in H[l + 1]
  BY DEF Tree, Children
<1>3. t \in Frames /\ c \in Frames /\ c # t /\ \A k \in Levels : c \in H[k] => k = l + 1
  BY <1>1, <1>2 DEF Heads, Tree, LevelsApart
<1>4. /\ e \in Dirs
      /\ e[t][i] = NULL
      /\ \A j \in Idx \ {i} : e[t][j] = d[t][j]
      /\ \A u \in Frames \ {t} : e[u] = d[u]
  BY <1>3 DEF Put, Dirs
<1>5. /\ K \in Heads
      /\ K[l + 1] = H[l + 1] \ {c}
      /\ \A k \in Levels \ {l + 1} : K[k] = H[k]
      /\ \A k \in Levels : \A u \in K[k] : u \in H[k] /\ u # c
      /\ \A k \in Levels : \A u \in H[k] : u # c => u \in K[k]
      /\ \A k \in Levels : H[k] \subseteq Frames
  BY <1>1, <1>3 DEF Without, Heads
<1>6. d = Linked(e, t, i, c)
  <2> DEFINE b == Blank(e, c)
             g == Put(b, t, i, c)
  <2>1. b \in Dirs /\ b[t] = e[t] /\ b[c] = Zero /\ \A x \in Frames \ {c} : b[x] = e[x]
    BY <1>3, <1>4 DEF Blank, Dirs, Zero
  <2> HIDE DEF b
  <2>2. g \in [Frames -> [Idx -> Frames \cup Pages \cup {NULL}]]
    BY <1>3, <2>1 DEF Put, Dirs
  <2>3. /\ g[t] = [b[t] EXCEPT ![i] = c]
        /\ \A x \in Frames \ {t} : g[x] = b[x]
    BY <1>3, <2>1 DEF Put, Dirs
  <2> HIDE DEF g
  <2>4. e[t] = [d[t] EXCEPT ![i] = NULL]
    BY <1>3 DEF Put, Dirs
  <2>5. g[t] = d[t]
    <3>1. d[t] \in [Idx -> Frames \cup Pages \cup {NULL}]
      BY <1>3 DEF Dirs
    <3>2. g[t] = [[d[t] EXCEPT ![i] = NULL] EXCEPT ![i] = c]
      BY <2>1, <2>3, <2>4
    <3>3. QED  BY <3>1, <3>2
  <2>6. \A x \in Frames : g[x] = d[x]
    BY <1>3, <1>4, <2>1, <2>3, <2>5
  <2>7. g = d
    BY <2>2, <2>6 DEF Dirs
  <2>8. QED  BY <2>7 DEF Linked, g, b
<1>7. H = With(K, l + 1, c)
  <2>1. With(K, l + 1, c) = [k \in Levels |-> IF k = l + 1 THEN K[k] \cup {c} ELSE K[k]]
    BY <1>5 DEF With, Heads
  <2>2. \A k \in Levels : H[k] = IF k = l + 1 THEN K[k] \cup {c} ELSE K[k]
    <3>1. \A k \in Levels \ {l + 1} : H[k] = K[k]
      BY <1>5
    <3>2. H[l + 1] = K[l + 1] \cup {c}
      BY <1>2, <1>5
    <3>3. QED  BY <3>1, <3>2
  <2>3. H = [k \in Levels |-> H[k]]
    BY DEF Heads
  <2>4. QED  BY <2>1, <2>2, <2>3, Zenon
<1> HIDE DEF e, K
<1>8. t \in K[l] /\ c \in Frames \ Used(K)
  BY <1>1, <1>3, <1>5 DEF Used
<1>9. LevelsApart(K)
  BY <1>5 DEF Tree, LevelsApart
<1>10. Children(e, K)
  <2>1. ASSUME NEW k \in Uppers, NEW u \in K[k], NEW j \in Idx PROVE e[u][j] \in K[k + 1] \cup {NULL}
    <3>1. k \in Levels /\ k + 1 \in Levels
      BY DEF Uppers, Levels
    <3>2. CASE u = t /\ j = i  BY <1>4, <3>2
    <3>3. CASE ~ (u = t /\ j = i)
      <4>1. u \in H[k] /\ u \in Frames /\ d[u][j] \in H[k + 1] \cup {NULL}
        BY <1>5, <3>1 DEF Tree, Children
      <4>2. e[u][j] = d[u][j]
        BY <1>4, <3>3, <4>1
      <4>3. ASSUME d[u][j] = c PROVE FALSE
        <5>1. k = l
          BY <1>3, <4>1, <4>3, <3>1 DEF Uppers
        <5>2. QED  BY <3>3, <4>1, <4>3, <5>1 DEF Tree, Single
      <4>4. QED  BY <1>5, <3>1, <4>1, <4>2, <4>3
    <3>4. QED  BY <3>2, <3>3
  <2>2. ASSUME NEW u \in K[4], NEW j \in Idx PROVE e[u][j] \in Pages \cup {NULL}
    <3>1. 4 \in Levels /\ l # 4
      BY DEF Levels, Uppers
    <3>2. u \in H[4] /\ u # t /\ u \in Frames
      BY <1>1, <1>5, <3>1 DEF Tree, LevelsApart
    <3>3. QED  BY <1>4, <3>2 DEF Tree, Children
  <2>3. QED  BY <2>1, <2>2 DEF Children
<1>11. Parents(e, K)
  <2> SUFFICES ASSUME NEW k \in Uppers, NEW x \in K[k + 1]
               PROVE  \E u \in K[k], j \in Idx : e[u][j] = x
    BY DEF Parents
  <2>1. k \in Levels /\ k + 1 \in Levels
    BY DEF Uppers, Levels
  <2>2. x \in H[k + 1] /\ x # c /\ x # NULL
    BY <1>5, <2>1, MmuAssumption
  <2>3. PICK u \in H[k], j \in Idx : d[u][j] = x
    BY <2>2 DEF Tree, Parents
  <2>4. u # c
    BY <2>2, <2>3 DEF Zero
  <2>5. u \in K[k] /\ e[u][j] = x
    BY <1>4, <1>5, <2>1, <2>2, <2>3, <2>4
  <2>6. QED  BY <2>5
<1>12. Single(e, K)
  <2> SUFFICES ASSUME NEW k \in Uppers, NEW u \in K[k], NEW w \in K[k], NEW j \in Idx, NEW g \in Idx,
                      e[u][j] # NULL, e[u][j] = e[w][g]
               PROVE  u = w /\ j = g
    BY DEF Single
  <2>1. k \in Levels
    BY DEF Uppers, Levels
  <2>2. u \in H[k] /\ w \in H[k] /\ u \in Frames /\ w \in Frames
    BY <1>5, <2>1
  <2>3. e[u][j] = d[u][j] /\ e[w][g] = d[w][g]
    BY <1>4, <2>2
  <2>4. d[u][j] # NULL /\ d[u][j] = d[w][g]
    BY <2>3, Zenon
  <2>5. Single(d, H)
    BY DEF Tree
  <2>6. QED  BY <2>2, <2>4, <2>5 DEF Single
<1>13. QED
  BY <1>2, <1>4, <1>5, <1>6, <1>7, <1>8, <1>9, <1>10, <1>11, <1>12 DEF Tree, e, K

-----------------------------------------------------------------------------
(* Walks of a tree.                                                         *)

Ent(d, t, i) == IF t = NULL THEN NULL ELSE d[t][i]
T2(d, r, v) == Ent(d, r, v[1])
T3(d, r, v) == Ent(d, T2(d, r, v), v[2])
T4(d, r, v) == Ent(d, T3(d, r, v), v[3])
Leaf(d, r, v) == Ent(d, T4(d, r, v), v[4])

\* The processor's walk, level by level.
LEMMA WalkIs ==
    ASSUME NEW d, NEW r, NEW v
    PROVE  /\ WalkFrom(d, r, v)[1] = r
           /\ WalkFrom(d, r, v)[2] = T2(d, r, v)
           /\ WalkFrom(d, r, v)[3] = T3(d, r, v)
           /\ WalkFrom(d, r, v)[4] = T4(d, r, v)
           /\ WalkFrom(d, r, v)[5] = Leaf(d, r, v)
<1>1. WalkFrom(d, r, v) = <<r, T2(d, r, v), T3(d, r, v), T4(d, r, v), Leaf(d, r, v)>>
  BY DEF WalkFrom, T2, T3, T4, Leaf, Ent
<1>2. QED  BY <1>1

\* The four indices of a virtual page determine it.
LEMMA Indices ==
    ASSUME NEW v \in Vadrs
    PROVE  /\ v[1] \in Idx /\ v[2] \in Idx /\ v[3] \in Idx /\ v[4] \in Idx
           /\ \A w \in Vadrs : v[1] = w[1] /\ v[2] = w[2] /\ v[3] = w[3] /\ v[4] = w[4] => v = w
<1>1. \A w \in Vadrs : w = [k \in 1 .. 4 |-> w[k]]
  BY MmuAssumption
<1>2. \A k \in 1 .. 4 : k = 1 \/ k = 2 \/ k = 3 \/ k = 4
  OBVIOUS
<1>3. v[1] \in Idx /\ v[2] \in Idx /\ v[3] \in Idx /\ v[4] \in Idx
  BY MmuAssumption
<1>4. ASSUME NEW w \in Vadrs, v[1] = w[1] /\ v[2] = w[2] /\ v[3] = w[3] /\ v[4] = w[4]
      PROVE  v = w
  <2>1. \A k \in 1 .. 4 : v[k] = w[k]
    BY <1>2, <1>4
  <2>2. v \in [1 .. 4 -> Idx] /\ w \in [1 .. 4 -> Idx]
    BY MmuAssumption
  <2>3. QED  BY <2>1, <2>2
<1>5. QED  BY <1>3, <1>4

\* A walk from the root of a tree goes down its levels to a page.
LEMMA WalkLevels ==
    ASSUME NEW d \in Dirs, NEW H \in Heads, Tree(d, H), NEW r \in H[1] \cup {NULL}, NEW v \in Vadrs
    PROVE  /\ T2(d, r, v) \in H[2] \cup {NULL}
           /\ T3(d, r, v) \in H[3] \cup {NULL}
           /\ T4(d, r, v) \in H[4] \cup {NULL}
           /\ Leaf(d, r, v) \in Pages \cup {NULL}
<1>1. /\ \A t \in H[1], i \in Idx : d[t][i] \in H[2] \cup {NULL}
      /\ \A t \in H[2], i \in Idx : d[t][i] \in H[3] \cup {NULL}
      /\ \A t \in H[3], i \in Idx : d[t][i] \in H[4] \cup {NULL}
      /\ \A t \in H[4], i \in Idx : d[t][i] \in Pages \cup {NULL}
  BY 1 + 1 = 2, 2 + 1 = 3, 3 + 1 = 4 DEF Tree, Children, Uppers
<1>2. T2(d, r, v) \in H[2] \cup {NULL}
  BY <1>1, Indices DEF T2, Ent
<1>3. T3(d, r, v) \in H[3] \cup {NULL}
  BY <1>1, <1>2, Indices DEF T3, Ent
<1>4. T4(d, r, v) \in H[4] \cup {NULL}
  BY <1>1, <1>3, Indices DEF T4, Ent
<1>5. Leaf(d, r, v) \in Pages \cup {NULL}
  BY <1>1, <1>4, Indices DEF Leaf, Ent
<1>6. QED  BY <1>2, <1>3, <1>4, <1>5

\* Only the tables of a tree matter to its walks.
LEMMA WalkLocal ==
    ASSUME NEW d \in Dirs, NEW H \in Heads, Tree(d, H), NEW r \in H[1] \cup {NULL}, NEW v \in Vadrs,
           NEW e, \A x \in Used(H) : e[x] = d[x]
    PROVE  /\ T2(e, r, v) = T2(d, r, v) /\ T3(e, r, v) = T3(d, r, v)
           /\ T4(e, r, v) = T4(d, r, v) /\ Leaf(e, r, v) = Leaf(d, r, v)
<1>1. \A l \in Levels : \A x \in H[l] : e[x] = d[x]
  BY DEF Used
<1>2. T2(e, r, v) = T2(d, r, v)
  BY <1>1 DEF T2, Ent, Levels
<1>3. T3(e, r, v) = T3(d, r, v)
  BY <1>1, <1>2, WalkLevels DEF T3, Ent, Levels
<1>4. T4(e, r, v) = T4(d, r, v)
  BY <1>1, <1>3, WalkLevels DEF T4, Ent, Levels
<1>5. Leaf(e, r, v) = Leaf(d, r, v)
  BY <1>1, <1>4, WalkLevels DEF Leaf, Ent, Levels
<1>6. QED  BY <1>2, <1>3, <1>4, <1>5

\* Linking a new table changes no translation.
LEMMA LinkWalk ==
    ASSUME NEW d \in Dirs, NEW H \in Heads, Tree(d, H), NEW r \in H[1] \cup {NULL}, NEW v \in Vadrs,
           NEW l \in Uppers, NEW t \in H[l], NEW i \in Idx, d[t][i] = NULL,
           NEW c \in Frames \ Used(H)
    PROVE  Leaf(Linked(d, t, i, c), r, v) = Leaf(d, r, v)
<1> DEFINE e == Linked(d, t, i, c)
           Like(x, y) == x = y \/ (x = NULL /\ y = c)
<1>1. l \in Levels /\ 1 \in Levels /\ 2 \in Levels /\ 3 \in Levels /\ 4 \in Levels /\ l # 4
  BY DEF Levels, Uppers
<1>2. t \in Frames /\ c # t /\ c # NULL /\ \A k \in Levels : c \notin H[k]
  BY <1>1, MmuAssumption DEF Heads, Used
<1>3. /\ \A j \in Idx : e[c][j] = NULL
      /\ \A j \in Idx : e[t][j] = IF j = i THEN c ELSE d[t][j]
      /\ \A u \in Frames \ {c, t} : e[u] = d[u]
  BY <1>2 DEF Linked, Put, Blank, Dirs, Zero
<1> HIDE DEF e
<1>4. ASSUME NEW k \in Levels, NEW x \in H[k] \cup {NULL}, NEW y, Like(x, y), NEW j \in Idx
      PROVE  /\ Like(Ent(d, x, j), Ent(e, y, j))
             /\ k = 4 => Ent(d, x, j) = Ent(e, y, j)
  <2>1. CASE x = NULL /\ y = c  BY <1>2, <1>3, <2>1 DEF Ent
  <2>2. CASE x = NULL /\ y = x  BY <2>2 DEF Ent
  <2>3. CASE x # NULL /\ y = x
    <3>1. x \in Frames /\ x # c /\ y # NULL /\ x \in H[k]
      BY <1>2, <2>3 DEF Heads
    <3>2. k = 4 => x # t
      BY <1>1, <3>1 DEF Tree, LevelsApart
    <3>3. QED  BY <1>3, <2>3, <3>1, <3>2 DEF Ent
  <2>4. QED  BY <1>4, <2>1, <2>2, <2>3
<1> HIDE DEF Like
<1>5. Like(T2(d, r, v), T2(e, r, v))
  BY <1>1, <1>4, Indices DEF T2, Like
<1>6. Like(T3(d, r, v), T3(e, r, v))
  BY <1>1, <1>4, <1>5, Indices, WalkLevels DEF T3
<1>7. Like(T4(d, r, v), T4(e, r, v))
  BY <1>1, <1>4, <1>6, Indices, WalkLevels DEF T4
<1>8. Leaf(d, r, v) = Leaf(e, r, v)
  BY <1>1, <1>4, <1>7, Indices, WalkLevels DEF Leaf
<1>9. QED  BY <1>8 DEF e

\* Two walks to the same entry of the last level are walks for the same page.
LEMMA WalkSingle ==
    ASSUME NEW d \in Dirs, NEW H \in Heads, Tree(d, H), NEW r \in H[1],
           NEW v \in Vadrs, NEW w \in Vadrs, T4(d, r, v) # NULL,
           T4(d, r, v) = T4(d, r, w), v[4] = w[4]
    PROVE  v = w
<1>1. ASSUME NEW l \in Uppers, NEW t \in H[l] \cup {NULL}, NEW u \in H[l] \cup {NULL},
             NEW i \in Idx, NEW j \in Idx, Ent(d, t, i) # NULL, Ent(d, t, i) = Ent(d, u, j)
      PROVE  t # NULL /\ u # NULL /\ t = u /\ i = j
  BY <1>1 DEF Ent, Tree, Single
<1>2. /\ T2(d, r, v) \in H[2] \cup {NULL} /\ T2(d, r, w) \in H[2] \cup {NULL}
      /\ T3(d, r, v) \in H[3] \cup {NULL} /\ T3(d, r, w) \in H[3] \cup {NULL}
  BY WalkLevels
<1>3. 1 \in Uppers /\ 2 \in Uppers /\ 3 \in Uppers
  BY DEF Uppers
<1>4. T3(d, r, v) # NULL /\ T3(d, r, v) = T3(d, r, w) /\ v[3] = w[3]
  BY <1>1, <1>2, <1>3, Indices DEF T4
<1>5. T2(d, r, v) # NULL /\ T2(d, r, v) = T2(d, r, w) /\ v[2] = w[2]
  BY <1>1, <1>2, <1>3, <1>4, Indices DEF T3
<1>6. v[1] = w[1]
  BY <1>1, <1>3, <1>5, Indices DEF T2
<1>7. QED  BY <1>4, <1>5, <1>6, Indices

\* Tables e are d with p in the entry of the last level, in t, for v.
LeafPut(d, H, r, v, t, p, e) ==
    /\ e \in Dirs /\ Tree(e, H) /\ t \in H[4]
    /\ e[t][v[4]] = p
    /\ \A x \in Frames \ {t} : e[x] = d[x]
    /\ Leaf(e, r, v) = p
    /\ \A w \in Vadrs \ {v} : Leaf(e, r, w) = Leaf(d, r, w)

\* Writing an entry of the last level changes the translation of one page.
LEMMA LeafWalk ==
    ASSUME NEW d \in Dirs, NEW H \in Heads, Tree(d, H), NEW r \in H[1], NEW v \in Vadrs,
           NEW t, t = T4(d, r, v), t # NULL, NEW p \in Pages \cup {NULL}
    PROVE  LeafPut(d, H, r, v, t, p, Put(d, t, v[4], p))
<1> DEFINE e == Put(d, t, v[4], p)
<1>1. t \in H[4] /\ v[4] \in Idx
  BY WalkLevels, Indices
<1>2. t \in Frames /\ \A l \in Uppers : t \notin H[l] /\ H[l] \subseteq Frames
  BY <1>1 DEF Heads, Tree, LevelsApart, Levels, Uppers
<1>3. /\ e \in Dirs
      /\ e[t][v[4]] = p
      /\ \A j \in Idx \ {v[4]} : e[t][j] = d[t][j]
      /\ \A x \in Frames \ {t} : e[x] = d[x]
  BY <1>1, <1>2 DEF Put, Dirs
<1> HIDE DEF e
<1>4. \A l \in Uppers : \A u \in H[l] : e[u] = d[u]
  BY <1>2, <1>3
<1>5. Children(e, H)
  <2>1. ASSUME NEW u \in H[4], NEW j \in Idx PROVE e[u][j] \in Pages \cup {NULL}
    <3>1. u \in Frames /\ d[u][j] \in Pages \cup {NULL}
      BY DEF Heads, Levels, Tree, Children
    <3>2. QED  BY <1>3, <3>1
  <2>2. QED  BY <1>4, <2>1 DEF Tree, Children
<1>6. Parents(e, H)
  BY <1>4 DEF Tree, Parents
<1>7. Single(e, H)
  BY <1>4 DEF Tree, Single
<1>8. \A w \in Vadrs : T4(e, r, w) = T4(d, r, w)
  <2> SUFFICES ASSUME NEW w \in Vadrs PROVE T4(e, r, w) = T4(d, r, w)
    OBVIOUS
  <2>1. T2(e, r, w) = T2(d, r, w)
    BY <1>4 DEF T2, Ent, Uppers
  <2>2. T3(e, r, w) = T3(d, r, w)
    BY <1>4, <2>1, WalkLevels DEF T3, Ent, Uppers
  <2>3. QED  BY <1>4, <2>2, WalkLevels DEF T4, Ent, Uppers
<1>9. Leaf(e, r, v) = p
  BY <1>3, <1>8 DEF Leaf, Ent
<1>10. ASSUME NEW w \in Vadrs \ {v} PROVE Leaf(e, r, w) = Leaf(d, r, w)
  <2>1. ~ (T4(d, r, w) = t /\ w[4] = v[4])
    BY WalkSingle
  <2>2. w[4] \in Idx /\ T4(d, r, w) \in Frames \cup {NULL}
    BY WalkLevels, Indices DEF Heads, Levels
  <2>3. QED  BY <1>3, <1>8, <2>1, <2>2 DEF Leaf, Ent
<1>11. LeafPut(d, H, r, v, t, p, e)
  BY <1>1, <1>3, <1>5, <1>6, <1>7, <1>9, <1>10 DEF Tree, LeafPut
<1>12. QED  BY <1>11 DEF e

-----------------------------------------------------------------------------
(* The steps of an operation on a descriptor.                               *)

\* What a table more or less does to the number of tables.
Counting ==
    /\ Cardinality({}) = 0
    /\ \A c \in Frames : Cardinality({c}) = 1
    /\ \A S \in SUBSET Frames : \A c \in Frames :
           /\ c \notin S => Cardinality(S \cup {c}) = Cardinality(S) + 1
           /\ c \in S => Cardinality(S \ {c}) = Cardinality(S) - 1

Sound(s) ==
    /\ Counting
    /\ s \in States
    /\ Tree(s.d, s.m.head)
    /\ Described(s.m)
    /\ s.f \cap Used(s.m.head) = {}

\* From s to r only pages of the descriptor and free ones were written, moved
\* between the two, and the root stayed.
Within(s, r) ==
    /\ r.m.tdirearr = s.m.tdirearr
    /\ r.f \cup Used(r.m.head) = s.f \cup Used(s.m.head)
    /\ \A x \in Frames \ (s.f \cup Used(s.m.head)) : r.d[x] = s.d[x]

\* No translation changed.
Same(s, r) ==
    \A v \in Vadrs : Leaf(r.d, s.m.tdirearr, v) = Leaf(s.d, s.m.tdirearr, v)

\* Tables and their entries are still there.
Grown(s, r) ==
    /\ \A l \in Levels : s.m.head[l] \subseteq r.m.head[l]
    /\ \A x \in Used(s.m.head), j \in Idx : s.d[x][j] # NULL => r.d[x][j] = s.d[x][j]

Full(s, X) == FullBut(s.d, s.m.head, X)

\* A table that Descend makes is linked to the entry it was made for, ...
LEMMA DescendNew ==
    ASSUME NEW s, Sound(s), NEW l \in Uppers, NEW i \in Idx,
           s.at \in s.m.head[l], s.d[s.at][i] = NULL, Full(s, {s.at}), s.f # {}
    PROVE  LET r == Descend(s, i, mmu_new_direarr(s, l + 1))
           IN  /\ Sound(r) /\ Within(s, r) /\ Same(s, r) /\ Grown(s, r)
               /\ r.at \in r.m.head[l + 1] /\ r.d[s.at][i] = r.at /\ r.at # NULL
               /\ Full(r, {r.at})
<1> DEFINE new == mmu_new_direarr(s, l + 1)
           r == Descend(s, i, new)
           t == s.at
           H == s.m.head
           K == r.m.head
<1>1. l \in Levels /\ l + 1 \in Levels /\ l # l + 1 /\ l + 1 \in 2 .. 4
  BY DEF Levels, Uppers
<1>2. /\ s \in States /\ s.d \in Dirs /\ s.f \subseteq Frames /\ H \in Heads
      /\ s.m.msanr \in [Levels -> Int]
  BY DEF Sound, States, Descs
<1>c. PICK c \in s.f : Taken(s, new, l + 1, c)
  BY <1>1, <1>2, NewDirearr
<1> HIDE DEF new
<1>3. /\ new \in States
      /\ new.f = s.f \ {c} /\ new.d = Blank(s.d, c) /\ new.at = c
      /\ new.m.tdirearr = s.m.tdirearr
      /\ new.m.head = With(H, l + 1, c)
      /\ new.m.msanr = Add(s.m.msanr, l + 1, 1)
  BY <1>c DEF Taken
<1>4. c \in Frames \ Used(H) /\ c # NULL /\ t \in Frames /\ t # NULL /\ c # t
  BY <1>1, <1>2, <1>3, MmuAssumption DEF Sound, Heads, Used
<1>5. r = [new EXCEPT !.d[t][i] = new.at]
  BY <1>3, <1>4 DEF Descend
<1> HIDE DEF r
<1>d. r = MakeState(new, Linked(s.d, t, i, c), new.f, new.m, new.at)
  BY <1>3, <1>5, Zenon DEF States, MakeState, Linked, Put
<1> HIDE DEF H, t
<1>a. Tree(s.d, H) /\ t \in H[l] /\ s.d[t][i] = NULL
  BY DEF Sound, H, t
<1>b. H \in Heads
  BY <1>2 DEF H
<1>e. Linked(s.d, t, i, c) \in Dirs /\ With(H, l + 1, c) \in Heads
      /\ Tree(Linked(s.d, t, i, c), With(H, l + 1, c))
  BY <1>2, <1>4, <1>a, <1>b, Link
<1>f. new.f \in SUBSET Frames /\ new.m \in Descs /\ new.at \in Frames \cup {NULL}
  BY <1>3 DEF States
<1>6. r \in States /\ r.d = Linked(s.d, t, i, c) /\ r.f = s.f \ {c} /\ r.at = c /\ r.m = new.m
  BY <1>3, <1>d, <1>e, <1>f, NewState
<1>7. K = With(H, l + 1, c)
  BY <1>3, <1>6
<1> HIDE DEF K
<1>8. r.d \in Dirs /\ K \in Heads /\ Tree(r.d, K)
  BY <1>6, <1>7, <1>e
<1>9. r \in States
  BY <1>6
<1>10. /\ K[l + 1] = H[l + 1] \cup {c}
       /\ \A k \in Levels \ {l + 1} : K[k] = H[k]
       /\ \A k \in Levels : H[k] \subseteq Frames /\ H[k] \subseteq K[k]
  BY <1>1, <1>2, <1>7 DEF With, Heads
<1>11. Used(K) = Used(H) \cup {c}
  BY <1>1, <1>10 DEF Used
<1>12. /\ \A j \in Idx : r.d[c][j] = NULL
       /\ \A j \in Idx : r.d[t][j] = IF j = i THEN c ELSE s.d[t][j]
       /\ \A u \in Frames \ {c, t} : r.d[u] = s.d[u]
  BY <1>2, <1>4, <1>6 DEF Linked, Put, Blank, Dirs, Zero
<1>13. Described(r.m)
  <2>1. s.m.head[1] = {s.m.tdirearr} \ {NULL} /\ \A k \in Levels : s.m.msanr[k] = Cardinality(H[k])
    BY DEF Sound, Described, H
  <2>2. 1 \in Levels \ {l + 1} /\ r.m.tdirearr = s.m.tdirearr
    BY <1>3, <1>6 DEF Levels, Uppers
  <2>3. K[1] = {r.m.tdirearr} \ {NULL}
    BY <1>10, <2>1, <2>2 DEF H
  <2>4. /\ r.m.msanr[l + 1] = s.m.msanr[l + 1] + 1
        /\ \A k \in Levels \ {l + 1} : r.m.msanr[k] = s.m.msanr[k]
    BY <1>1, <1>2, <1>3, <1>6 DEF Add
  <2>5. Cardinality(K[l + 1]) = Cardinality(H[l + 1]) + 1
    <3>1. H[l + 1] \in SUBSET Frames /\ c \notin H[l + 1]
      BY <1>1, <1>4, <1>10 DEF Used
    <3>2. Counting
      BY DEF Sound
    <3>3. QED  BY <1>4, <1>10, <3>1, <3>2 DEF Counting
  <2>6. ASSUME NEW k \in Levels PROVE r.m.msanr[k] = Cardinality(K[k])
    <3>1. CASE k = l + 1  BY <2>1, <2>4, <2>5, <3>1
    <3>2. CASE k # l + 1  BY <1>10, <2>1, <2>4, <3>2
    <3>3. QED  BY <3>1, <3>2
  <2>7. QED  BY <2>3, <2>6 DEF Described, K
<1>14. r.f \cap Used(K) = {}
  BY <1>6, <1>11 DEF Sound, H
<1>15. Sound(r)
  BY <1>8, <1>9, <1>13, <1>14 DEF Sound, K
<1>16. Within(s, r)
  <2>1. t \in Used(H)
    BY <1>1 DEF Used, t, H
  <2>2. r.f \cup Used(K) = s.f \cup Used(H)
    BY <1>3, <1>6, <1>11
  <2>3. \A x \in Frames \ (s.f \cup Used(H)) : r.d[x] = s.d[x]
    BY <1>3, <1>12, <2>1
  <2>4. QED  BY <1>3, <1>6, <2>2, <2>3 DEF Within, H, K
<1>17. Same(s, r)
  <2>1. 1 \in Levels /\ s.m.tdirearr \in H[1] \cup {NULL}
    BY DEF Sound, Described, Levels, H
  <2>2. ASSUME NEW v \in Vadrs PROVE Leaf(r.d, s.m.tdirearr, v) = Leaf(s.d, s.m.tdirearr, v)
    BY <1>2, <1>4, <1>6, <1>a, <1>b, <2>1, LinkWalk
  <2>3. QED  BY <2>2 DEF Same
<1>18. Grown(s, r)
  <2>1. \A x \in Used(H), j \in Idx : s.d[x][j] # NULL => r.d[x][j] = s.d[x][j]
    <3>1. \A x \in Used(H) : x \in Frames /\ x # c
      BY <1>4, <1>10 DEF Used
    <3>2. QED  BY <1>12, <3>1 DEF t
  <2>2. QED  BY <1>10, <2>1 DEF Grown, H, K
<1>19. Full(r, {c})
  <2>1. \A k \in 2 .. 4 : \A x \in H[k] \ {t} : s.d[x] # Zero
    BY DEF Full, FullBut, H, t
  <2>2. ASSUME NEW k \in 2 .. 4, NEW x \in K[k] \ {c} PROVE r.d[x] # Zero
    <3>1. k \in Levels
      BY DEF Levels
    <3>2. x \in H[k] /\ x \in Frames
      BY <1>10, <3>1
    <3>3. CASE x = t  BY <1>4, <1>12, <3>3 DEF Zero
    <3>4. CASE x # t  BY <1>12, <2>1, <3>2, <3>4
    <3>5. QED  BY <3>3, <3>4
  <2>3. QED  BY <2>2 DEF Full, FullBut, K
<1>20. QED
  BY <1>1, <1>4, <1>6, <1>10, <1>12, <1>15, <1>16, <1>17, <1>18, <1>19, Zenon DEF r, new, K, t

\* ... an entry that has a table leads to it ...
LEMMA Moved ==
    ASSUME NEW s, Sound(s), NEW x \in Frames \cup {NULL}
    PROVE  LET r == [s EXCEPT !.at = x]
           IN  /\ Sound(r) /\ Within(s, r) /\ Same(s, r) /\ Grown(s, r)
               /\ r.d = s.d /\ r.f = s.f /\ r.m = s.m /\ r.at = x
<1> DEFINE r == [s EXCEPT !.at = x]
<1>1. r \in States /\ r.d = s.d /\ r.f = s.f /\ r.m = s.m /\ r.at = x
  BY DEF Sound, States
<1> HIDE DEF r
<1>2. Sound(r)
  BY <1>1 DEF Sound
<1>3. Within(s, r) /\ Same(s, r) /\ Grown(s, r)
  BY <1>1 DEF Within, Same, Grown
<1>4. QED  BY <1>1, <1>2, <1>3 DEF r

\* ... and without a page for the table Descend changes nothing.
LEMMA Descends ==
    ASSUME NEW s, Sound(s), NEW l \in Uppers, NEW i \in Idx,
           s.at \in s.m.head[l] \cup {NULL}, Full(s, {s.at})
    PROVE  LET r == Descend(s, i, mmu_new_direarr(s, l + 1))
           IN  /\ Sound(r) /\ Within(s, r) /\ Same(s, r) /\ Grown(s, r)
               /\ r.at \in r.m.head[l + 1] \cup {NULL}
               /\ r.at # NULL => s.at # NULL /\ r.d[s.at][i] = r.at /\ Full(r, {r.at})
               /\ r.at = NULL => /\ r.d = s.d /\ r.m = s.m
                                 /\ s.at # NULL => s.d[s.at][i] = NULL
<1> DEFINE new == mmu_new_direarr(s, l + 1)
           r == Descend(s, i, new)
<1>1. l \in Levels /\ l + 1 \in Levels
  BY DEF Levels, Uppers
<1>2. s \in States /\ s.m.head \in Heads /\ Tree(s.d, s.m.head)
  BY Zenon DEF Sound, States, Descs
<1>3. CASE s.at = NULL
  <2>1. r = s
    BY <1>3 DEF Descend
  <2>2. Within(s, s) /\ Same(s, s) /\ Grown(s, s)
    BY DEF Within, Same, Grown
  <2>3. QED  BY <1>3, <2>1, <2>2, Zenon
<1>4. CASE s.at # NULL /\ s.d[s.at][i] # NULL
  <2>1. r = [s EXCEPT !.at = s.d[s.at][i]]
    BY <1>4 DEF Descend
  <2>2. s.d[s.at][i] \in s.m.head[l + 1]
    BY <1>2, <1>4 DEF Tree, Children
  <2>3. s.d[s.at][i] \in Frames
    BY <1>1, <1>2, <2>2 DEF Heads
  <2> HIDE DEF r
  <2>4. /\ Sound(r) /\ Within(s, r) /\ Same(s, r) /\ Grown(s, r)
        /\ r.d = s.d /\ r.m = s.m /\ r.at = s.d[s.at][i]
    BY <2>1, <2>3, Moved
  <2>5. s.d[s.at] # Zero
    BY <1>4 DEF Zero
  <2>6. Full(r, {r.at})
    BY <2>4, <2>5 DEF Full, FullBut
  <2>7. QED  BY <1>4, <2>2, <2>4, <2>6 DEF r
<1>5. CASE s.at # NULL /\ s.d[s.at][i] = NULL /\ s.f = {}
  <2>1. new = [s EXCEPT !.at = NULL]
    BY <1>5 DEF mmu_new_direarr
  <2>a. new.at = NULL
    BY <1>2, <2>1 DEF States
  <2>2. r = new
    BY <1>5, <2>a DEF Descend
  <2> HIDE DEF r, new
  <2>3. /\ Sound(r) /\ Within(s, r) /\ Same(s, r) /\ Grown(s, r)
        /\ r.d = s.d /\ r.m = s.m
    BY <2>1, <2>2, Moved
  <2>4. QED  BY <1>5, <2>a, <2>2, <2>3, Zenon DEF r, new
<1>6. CASE s.at # NULL /\ s.d[s.at][i] = NULL /\ s.f # {}
  <2>1. s.at \in s.m.head[l]
    BY <1>6
  <2> HIDE DEF r, new
  <2>2. /\ Sound(r) /\ Within(s, r) /\ Same(s, r) /\ Grown(s, r)
        /\ r.at \in r.m.head[l + 1] /\ r.d[s.at][i] = r.at /\ r.at # NULL
        /\ Full(r, {r.at})
    BY <1>6, <2>1, DescendNew DEF r, new
  <2>3. QED  BY <1>6, <2>2, Zenon DEF r, new
<1>7. QED  BY <1>3, <1>4, <1>5, <1>6, Zenon

\* The steps of an operation add up.
LEMMA Steps ==
    ASSUME NEW s, NEW q, NEW r, Within(s, q), Within(q, r)
    PROVE  /\ Within(s, r)
           /\ Same(s, q) /\ Same(q, r) => Same(s, r)
           /\ Grown(s, q) /\ Grown(q, r) => Grown(s, r)
<1>1. Within(s, r)
  BY DEF Within
<1>2. ASSUME Same(s, q), Same(q, r) PROVE Same(s, r)
  BY <1>2 DEF Within, Same
<1>3. ASSUME Grown(s, q), Grown(q, r) PROVE Grown(s, r)
  <2>1. Used(s.m.head) \subseteq Used(q.m.head)
    BY <1>3 DEF Grown, Used
  <2>2. \A l \in Levels : s.m.head[l] \subseteq r.m.head[l]
    BY <1>3 DEF Grown
  <2>3. \A x \in Used(s.m.head), j \in Idx : s.d[x][j] # NULL => r.d[x][j] = s.d[x][j]
    BY <1>3, <2>1 DEF Grown
  <2>4. QED  BY <2>2, <2>3 DEF Grown
<1>4. QED  BY <1>1, <1>2, <1>3

-----------------------------------------------------------------------------
(* Giving up empty tables.                                                 *)

\* The untransform functions, which give up a table of level l that the entry i
\* of t leads to if it is empty, ...
Prune1(s, t, i, l) ==
    LET sub == s.d[t][i]
    IN  IF sub # NULL /\ s.d[sub] = Zero
        THEN [mmu_del_direarr(s, sub, l) EXCEPT !.d[t][i] = NULL]
        ELSE s

\* ... are one function of the level, ...
LEMMA PruneIs ==
    ASSUME NEW s, NEW t, NEW v
    PROVE  /\ mmu_untransform_sdire(s, t, v) = Prune1(s, t, v[1], 2)
           /\ mmu_untransform_idire(s, t, v) = Prune1(s, t, v[2], 3)
           /\ mmu_untransform_mdire(s, t, v) = Prune1(s, t, v[3], 4)
<1>1. mmu_untransform_sdire(s, t, v) = Prune1(s, t, v[1], 2)
  BY DEF mmu_untransform_sdire, mmu_del_sdirearr, Prune, Prune1
<1>2. mmu_untransform_idire(s, t, v) = Prune1(s, t, v[2], 3)
  BY DEF mmu_untransform_idire, mmu_del_idirearr, Prune, Prune1
<1>3. mmu_untransform_mdire(s, t, v) = Prune1(s, t, v[3], 4)
  BY DEF mmu_untransform_mdire, mmu_del_mdirearr, Prune, Prune1
<1>4. QED  BY <1>1, <1>2, <1>3

\* ... write the table t and the list of level l only.
Pruned(s, r, t, l) ==
    /\ Sound(r) /\ Within(s, r) /\ Same(s, r)
    /\ r.at = s.at
    /\ Full(r, {t})
    /\ \A x \in Frames \ {t} : r.d[x] = s.d[x]
    /\ \A k \in Levels \ {l} : r.m.head[k] = s.m.head[k]

\* ... which takes an empty table out of the tree, ...
LEMMA PruneEmpty ==
    ASSUME NEW s, Sound(s), NEW l \in Uppers, NEW t \in s.m.head[l], NEW i \in Idx,
           NEW c, c = s.d[t][i], Full(s, {c, t}), c # NULL, s.d[c] = Zero
    PROVE  Pruned(s, [mmu_del_direarr(s, c, l + 1) EXCEPT !.d[t][i] = NULL], t, l + 1)
<1> DEFINE del == mmu_del_direarr(s, c, l + 1)
           r == [del EXCEPT !.d[t][i] = NULL]
           H == s.m.head
           K == r.m.head
<1>1. l \in Levels /\ l + 1 \in Levels /\ l # l + 1 /\ 1 \in Levels \ {l + 1}
  BY DEF Levels, Uppers
<1>2. /\ s \in States /\ s.d \in Dirs /\ s.f \subseteq Frames /\ H \in Heads
      /\ s.m.msanr \in [Levels -> Int] /\ Tree(s.d, H)
  BY DEF Sound, States, Descs
<1>3. /\ c \in H[l + 1]
      /\ Put(s.d, t, i, NULL) \in Dirs /\ Without(H, l + 1, c) \in Heads
      /\ Tree(Put(s.d, t, i, NULL), Without(H, l + 1, c))
      /\ t \in Without(H, l + 1, c)[l] /\ Put(s.d, t, i, NULL)[t][i] = NULL
      /\ c \in Frames \ Used(Without(H, l + 1, c))
      /\ s.d = Linked(Put(s.d, t, i, NULL), t, i, c)
  <2> HIDE DEF H
  <2>1. t \in H[l]
    BY DEF H
  <2>2. l \in Uppers /\ i \in Idx /\ c = s.d[t][i] /\ c # NULL /\ s.d[c] = Zero
    OBVIOUS
  <2>3. QED  BY ONLY <1>2, <2>1, <2>2, Cut
<1> HIDE DEF del
<1>4. GivenBack(s, del, l + 1, c)
  BY <1>1, <1>2, <1>3, DelDirearr DEF del
<1>a. /\ del \in States
      /\ del.f = s.f \cup {c} /\ del.d = s.d /\ del.at = s.at
      /\ del.m.tdirearr = s.m.tdirearr
      /\ del.m.head = Without(H, l + 1, c)
      /\ del.m.msanr = Add(s.m.msanr, l + 1, -1)
  BY <1>4 DEF GivenBack
<1>b. r = MakeState(del, Put(s.d, t, i, NULL), del.f, del.m, del.at)
  BY <1>a, Zenon DEF States, MakeState, Put
<1> HIDE DEF r
<1>6. r \in States /\ r.d = Put(s.d, t, i, NULL) /\ r.f = del.f /\ r.m = del.m /\ r.at = del.at
  <2>1. del.f \in SUBSET Frames /\ del.m \in Descs /\ del.at \in Frames \cup {NULL}
    BY <1>a DEF States
  <2>2. del \in States /\ Put(s.d, t, i, NULL) \in Dirs
    BY ONLY <1>3, <1>a
  <2>3. QED  BY ONLY <2>1, <2>2, <1>b, NewState
<1>5. /\ r.d = Put(s.d, t, i, NULL) /\ r.f = s.f \cup {c} /\ r.at = s.at
      /\ r.m.tdirearr = s.m.tdirearr
      /\ K = Without(H, l + 1, c)
      /\ r.m.msanr = Add(s.m.msanr, l + 1, -1)
  BY <1>6, <1>a
<1>7. r \in States
  BY <1>6
<1> HIDE DEF H, K
<1>8. /\ K[l + 1] = H[l + 1] \ {c}
      /\ \A k \in Levels \ {l + 1} : K[k] = H[k]
      /\ \A k \in Levels : H[k] \subseteq Frames /\ K[k] \subseteq H[k]
  BY <1>1, <1>2, <1>5 DEF Without, Heads, H
<1>9. Used(H) = Used(K) \cup {c} /\ c \notin Used(K) /\ t \in Used(H) /\ c \in Frames /\ t \in Frames
  <2>1. \A x : x \in Used(H) <=> x \in Used(K) \cup {c}
    <3>1. c \in H[l + 1]
      BY <1>3 DEF H
    <3>2. QED  BY ONLY <3>1, <1>1, <1>8 DEF Used
  <2>2. c \notin Used(K) /\ c \in Frames
    BY <1>3, <1>5 DEF H
  <2>3. t \in Used(H) /\ t \in Frames
    BY <1>1, <1>8 DEF Used, H
  <2>4. QED  BY <2>1, <2>2, <2>3
<1>10. /\ \A j \in Idx \ {i} : r.d[t][j] = s.d[t][j]
       /\ \A u \in Frames \ {t} : r.d[u] = s.d[u]
  BY <1>2, <1>5, <1>9 DEF Put, Dirs
<1>11. Described(r.m)
  <2>1. H[1] = {s.m.tdirearr} \ {NULL} /\ \A k \in Levels : s.m.msanr[k] = Cardinality(H[k])
    BY DEF Sound, Described, H
  <2>2. K[1] = {r.m.tdirearr} \ {NULL}
    BY <1>1, <1>5, <1>8, <2>1
  <2>3. /\ r.m.msanr[l + 1] = s.m.msanr[l + 1] - 1
        /\ \A k \in Levels \ {l + 1} : r.m.msanr[k] = s.m.msanr[k]
    BY <1>1, <1>2, <1>5 DEF Add
  <2>4. Cardinality(K[l + 1]) = Cardinality(H[l + 1]) - 1
    <3>1. H[l + 1] \in SUBSET Frames /\ c \in H[l + 1]
      BY <1>1, <1>3, <1>8 DEF H
    <3>2. Counting
      BY DEF Sound
    <3>3. QED  BY <1>8, <1>9, <3>1, <3>2 DEF Counting
  <2>5. ASSUME NEW k \in Levels PROVE r.m.msanr[k] = Cardinality(K[k])
    <3>1. CASE k = l + 1  BY <2>1, <2>3, <2>4, <3>1
    <3>2. CASE k # l + 1  BY <1>8, <2>1, <2>3, <3>2
    <3>3. QED  BY <3>1, <3>2
  <2>6. QED  BY <2>2, <2>5 DEF Described, K
<1>12. Sound(r)
  <2>1. r.f \cap Used(K) = {}
    BY <1>5, <1>9 DEF Sound, H
  <2>2. Tree(r.d, K)
    BY <1>3, <1>5 DEF H
  <2>3. QED  BY <1>7, <1>11, <2>1, <2>2 DEF Sound, K
<1>13. Within(s, r)
  <2>1. r.f \cup Used(K) = s.f \cup Used(H)
    BY <1>5, <1>9
  <2>2. \A x \in Frames \ (s.f \cup Used(H)) : r.d[x] = s.d[x]
    BY <1>9, <1>10
  <2>3. QED  BY <1>5, <2>1, <2>2 DEF Within, H, K
<1>14. Same(s, r)
  <2>1. s.m.tdirearr \in K[1] \cup {NULL}
    BY <1>1, <1>8 DEF Sound, Described, H
  <2>2. /\ r.d \in Dirs /\ K \in Heads /\ Tree(r.d, K) /\ t \in K[l] /\ r.d[t][i] = NULL
        /\ c \in Frames \ Used(K)
    BY <1>3, <1>5 DEF H
  <2>a. s.d = Linked(r.d, t, i, c)
    BY <1>3, <1>5
  <2>3. ASSUME NEW v \in Vadrs PROVE Leaf(r.d, s.m.tdirearr, v) = Leaf(s.d, s.m.tdirearr, v)
    <3>1. Leaf(Linked(r.d, t, i, c), s.m.tdirearr, v) = Leaf(r.d, s.m.tdirearr, v)
      BY ONLY <2>1, <2>2, v \in Vadrs, l \in Uppers, i \in Idx, LinkWalk
    <3>2. QED  BY <2>a, <3>1
  <2>4. QED  BY <2>3 DEF Same
<1>15. Full(r, {t})
  <2>1. \A k \in 2 .. 4 : \A x \in H[k] \ {c, t} : s.d[x] # Zero
    BY DEF Full, FullBut, H
  <2>2. ASSUME NEW k \in 2 .. 4, NEW x \in K[k] \ {t} PROVE r.d[x] # Zero
    <3>1. k \in Levels
      BY DEF Levels
    <3>2. x \in H[k] /\ x \in Frames /\ x # c
      BY <1>8, <1>9, <3>1 DEF Used
    <3>3. QED  BY <1>10, <2>1, <3>2
  <2>3. QED  BY <2>2 DEF Full, FullBut, K
<1>16. QED
  BY <1>5, <1>8, <1>10, <1>12, <1>13, <1>14, <1>15, Zenon DEF Pruned, r, del, H, K

\* ... and leaves every translation whether or not it does.
LEMMA Prunes ==
    ASSUME NEW s, Sound(s), NEW l \in Uppers, NEW t \in s.m.head[l], NEW i \in Idx,
           Full(s, {s.d[t][i], t})
    PROVE  Pruned(s, Prune1(s, t, i, l + 1), t, l + 1)
<1> DEFINE c == s.d[t][i]
<1>1. CASE c # NULL /\ s.d[c] = Zero
  <2>1. Prune1(s, t, i, l + 1) = [mmu_del_direarr(s, c, l + 1) EXCEPT !.d[t][i] = NULL]
    BY <1>1 DEF Prune1
  <2>2. QED  BY <1>1, <2>1, PruneEmpty
<1>2. CASE ~ (c # NULL /\ s.d[c] = Zero)
  <2>1. Prune1(s, t, i, l + 1) = s
    BY <1>2 DEF Prune1
  <2>2. \A k \in 2 .. 4 : NULL \notin s.m.head[k]
    BY MmuAssumption DEF Sound, States, Descs, Heads, Levels
  <2>3. Full(s, {t})
    BY <1>2, <2>2 DEF Full, FullBut
  <2>4. Within(s, s) /\ Same(s, s)
    BY DEF Within, Same
  <2>5. QED  BY <2>1, <2>3, <2>4 DEF Pruned
<1>3. QED  BY <1>1, <1>2

\* The empty tables on the way from the root are given up, from the last one.
Undone(s, r) == Sound(r) /\ Within(s, r) /\ Same(s, r) /\ r.at = s.at /\ Full(r, {})

\* After a failure at the second level hal_mmu_transform_core looks at the
\* table of the second level, ...
LEMMA UndoS ==
    ASSUME NEW s, Sound(s), s.m.tdirearr # NULL, NEW i \in Idx, Full(s, {s.d[s.m.tdirearr][i]})
    PROVE  Undone(s, Prune1(s, s.m.tdirearr, i, 2))
<1> DEFINE t == s.m.tdirearr
           r == Prune1(s, t, i, 1 + 1)
<1>1. t \in s.m.head[1] /\ 1 \in Uppers /\ 1 \in Levels \ {2}
  BY DEF Sound, Described, Uppers, Levels
<1>2. Full(s, {s.d[t][i], t})
  BY DEF Full, FullBut
<1> HIDE DEF r
<1>3. Pruned(s, r, t, 1 + 1)
  BY <1>1, <1>2, Prunes DEF r
<1>4. t \in r.m.head[1]
  BY <1>1, <1>3 DEF Pruned
<1>5. \A k \in 2 .. 4 : t \notin r.m.head[k]
  <2>1. LevelsApart(r.m.head)
    BY ONLY <1>3 DEF Pruned, Sound, Tree
  <2>2. QED  BY ONLY <1>4, <2>1 DEF LevelsApart, Levels
<1>6. Full(r, {})
  BY ONLY <1>3, <1>5 DEF Pruned, Full, FullBut
<1>7. Undone(s, r)
  BY ONLY <1>3, <1>6 DEF Pruned, Undone
<1>8. QED  BY ONLY <1>7 DEF r

\* ... after one at the third level at those of two levels, ...
LEMMA UndoI ==
    ASSUME NEW s, Sound(s), s.m.tdirearr # NULL, NEW i \in Idx, NEW j \in Idx,
           NEW t \in s.m.head[2], s.d[s.m.tdirearr][i] = t, Full(s, {s.d[t][j], t})
    PROVE  Undone(s, Prune1(Prune1(s, t, j, 3), s.m.tdirearr, i, 2))
<1> DEFINE x == Prune1(s, t, j, 2 + 1)
           r == Prune1(x, s.m.tdirearr, i, 2)
<1>1. 2 \in Uppers /\ 1 \in Levels /\ 2 \in Levels
  BY DEF Uppers, Levels
<1> HIDE DEF x
<1>2. Pruned(s, x, t, 2 + 1)
  BY <1>1, Prunes DEF x
<1>3. s.m.tdirearr \in s.m.head[1] /\ s.m.tdirearr \in Frames
  BY <1>1 DEF Sound, Described, States, Descs
<1>4. s.m.tdirearr # t
  BY <1>1, <1>3 DEF Sound, Tree, LevelsApart
<1>5. x.m.tdirearr = s.m.tdirearr /\ x.d[s.m.tdirearr][i] = t
  BY <1>2, <1>3, <1>4 DEF Pruned, Within
<1> HIDE DEF r
<1>6. Undone(x, r)
  BY <1>2, <1>5, UndoS DEF Pruned, r
<1>7. Undone(s, r)
  BY <1>2, <1>6, Steps DEF Pruned, Undone
<1>8. QED  BY <1>7 DEF r, x

\* ... and after one at the fourth level at those of three: no empty table
\* stays.
LEMMA UndoM ==
    ASSUME NEW s, Sound(s), s.m.tdirearr # NULL, NEW i \in Idx, NEW j \in Idx, NEW k \in Idx,
           NEW t \in s.m.head[2], s.d[s.m.tdirearr][i] = t,
           NEW u \in s.m.head[3], s.d[t][j] = u, Full(s, {s.d[u][k], u})
    PROVE  Undone(s, Prune1(Prune1(Prune1(s, u, k, 4), t, j, 3), s.m.tdirearr, i, 2))
<1> DEFINE x == Prune1(s, u, k, 3 + 1)
           r == Prune1(Prune1(x, t, j, 3), s.m.tdirearr, i, 2)
<1>1. 3 \in Uppers /\ 1 \in Levels /\ 2 \in Levels \ {3 + 1} /\ 3 \in Levels
  BY DEF Uppers, Levels
<1> HIDE DEF x
<1>2. Pruned(s, x, u, 3 + 1)
  BY <1>1, Prunes DEF x
<1>3. s.m.tdirearr \in s.m.head[1] /\ s.m.tdirearr \in Frames /\ t \in Frames
  BY <1>1 DEF Sound, Described, States, Descs, Heads
<1>4. s.m.tdirearr # u /\ t # u
  BY <1>1, <1>3 DEF Sound, Tree, LevelsApart
<1>5. x.m.tdirearr = s.m.tdirearr /\ x.d[s.m.tdirearr][i] = t /\ x.d[t][j] = u
  BY <1>2, <1>3, <1>4 DEF Pruned, Within
<1>6. t \in x.m.head[2]
  BY <1>1, <1>2 DEF Pruned
<1>7. Full(x, {x.d[t][j], t})
  BY <1>2, <1>5 DEF Pruned, Full, FullBut
<1> HIDE DEF r
<1>8. Undone(x, r)
  BY <1>2, <1>5, <1>6, <1>7, UndoI DEF Pruned, r
<1>9. Undone(s, r)
  BY <1>2, <1>8, Steps DEF Pruned, Undone
<1>10. QED  BY <1>9 DEF r, x

-----------------------------------------------------------------------------
(* The operations.                                                          *)

\* Only the translation of v may differ.
SameBut(s, r, v) ==
    \A w \in Vadrs \ {v} : Leaf(r.d, s.m.tdirearr, w) = Leaf(s.d, s.m.tdirearr, w)

\* mmu_untransform_msa and mmu_transform_msa write one entry of the last level.
LEMMA Msa ==
    ASSUME NEW s, Sound(s), NEW v \in Vadrs, NEW p \in Pages \cup {NULL},
           NEW t, t = T4(s.d, s.m.tdirearr, v), t # NULL, s.m.tdirearr # NULL
    PROVE  LET r == [s EXCEPT !.d[t][v[4]] = p]
           IN  /\ Sound(r) /\ Within(s, r) /\ SameBut(s, r, v)
               /\ Leaf(r.d, s.m.tdirearr, v) = p
               /\ r.at = s.at /\ r.m = s.m /\ t \in s.m.head[4]
               /\ r.d[t][v[4]] = p
               /\ \A x \in Frames \ {t} : r.d[x] = s.d[x]
<1> DEFINE r == [s EXCEPT !.d[t][v[4]] = p]
           root == s.m.tdirearr
           H == s.m.head
<1>1. /\ s \in States /\ s.d \in Dirs /\ H \in Heads /\ Tree(s.d, H)
      /\ 4 \in Levels /\ root \in H[1]
  BY DEF Sound, Described, States, Descs, Levels
<1>2. r = [s EXCEPT !.d = Put(s.d, t, v[4], p)]
  BY <1>1 DEF States, Put
<1> DEFINE e == Put(s.d, t, v[4], p)
<1> HIDE DEF r, H, root
<1>2a. LeafPut(s.d, H, root, v, t, p, e)
  <2>1. t = T4(s.d, root, v)
    BY DEF root
  <2>2. v \in Vadrs /\ p \in Pages \cup {NULL} /\ t # NULL
    OBVIOUS
  <2>3. QED  BY ONLY <1>1, <2>1, <2>2, LeafWalk
<1> HIDE DEF e
<1>3. /\ e \in Dirs /\ Tree(e, H) /\ t \in H[4]
      /\ e[t][v[4]] = p
      /\ \A x \in Frames \ {t} : e[x] = s.d[x]
      /\ Leaf(e, root, v) = p
      /\ \A w \in Vadrs \ {v} : Leaf(e, root, w) = Leaf(s.d, root, w)
  BY ONLY <1>2a DEF LeafPut
<1>4. r \in States /\ r.d = e /\ r.m = s.m /\ r.at = s.at /\ r.f = s.f
  BY <1>1, <1>2, <1>3 DEF States, e
<1>5. Sound(r)
  BY <1>3, <1>4 DEF Sound, H
<1>6. t \in Used(H)
  BY <1>1, <1>3 DEF Used
<1>7. Within(s, r)
  BY <1>3, <1>4, <1>6 DEF Within, H
<1>8. SameBut(s, r, v)
  BY <1>3, <1>4 DEF SameBut, root
<1>9. QED
  BY <1>3, <1>4, <1>5, <1>7, <1>8, Zenon DEF r, H, root

\* hal_mmu_untransform_core takes the translation of v away, and with it the
\* tables that only v needed.
LEMMA Untransform ==
    ASSUME NEW s, Sound(s), Full(s, {}), NEW v \in Vadrs
    PROVE  LET r == hal_mmu_untransform_core(s, v)
           IN  /\ Sound(r) /\ Within(s, r) /\ Full(r, {}) /\ SameBut(s, r, v)
               /\ Leaf(r.d, s.m.tdirearr, v) = NULL
<1> DEFINE r == hal_mmu_untransform_core(s, v)
           root == s.m.tdirearr
           t2 == T2(s.d, root, v)
           t3 == T3(s.d, root, v)
           t4 == T4(s.d, root, v)
           P2(x) == Prune1(x, root, v[1], 2)
           P3(x) == P2(Prune1(x, t2, v[2], 3))
           P4(x) == P3(Prune1(x, t3, v[3], 4))
<1>1. r = IF t2 = NULL THEN s
          ELSE IF t3 = NULL THEN P2(s)
          ELSE IF t4 = NULL THEN P3(s)
          ELSE P4(mmu_untransform_msa(s, t4, v))
  <2> DEFINE T == WalkFrom(s.d, root, v)
             U2(x) == mmu_untransform_sdire(x, T[1], v)
             U3(x) == U2(mmu_untransform_idire(x, T[2], v))
             U4(x) == U3(mmu_untransform_mdire(x, T[3], v))
  <2>1. T[1] = root /\ T[2] = t2 /\ T[3] = t3 /\ T[4] = t4
    BY ONLY WalkIs
  <2>2. r = IF T[2] = NULL THEN s
            ELSE IF T[3] = NULL THEN U2(s)
            ELSE IF T[4] = NULL THEN U3(s)
            ELSE U4(mmu_untransform_msa(s, T[4], v))
    BY ONLY DEF hal_mmu_untransform_core
  <2> HIDE DEF T, t2, t3, t4, r, root
  <2>3. \A x : U2(x) = P2(x)
    BY ONLY <2>1, PruneIs
  <2>4. \A x : U3(x) = P3(x)
    BY ONLY <2>1, <2>3, PruneIs
  <2>5. \A x : U4(x) = P4(x)
    BY ONLY <2>1, <2>4, PruneIs
  <2> HIDE DEF U2, U3, U4, P2, P3, P4
  <2>6. QED  BY ONLY <2>1, <2>2, <2>3, <2>4, <2>5
<1>2. /\ s.d \in Dirs /\ s.m.head \in Heads /\ Tree(s.d, s.m.head)
      /\ root \in s.m.head[1] \cup {NULL}
  BY DEF Sound, Described, States, Descs
<1>3. /\ v[1] \in Idx /\ v[2] \in Idx /\ v[3] \in Idx /\ v[4] \in Idx
      /\ t2 \in s.m.head[2] \cup {NULL} /\ t3 \in s.m.head[3] \cup {NULL}
      /\ t4 \in s.m.head[4] \cup {NULL}
  BY <1>2, Indices, WalkLevels
<1>4. /\ t2 # NULL => root # NULL /\ s.d[root][v[1]] = t2
      /\ t3 # NULL => t2 # NULL /\ s.d[t2][v[2]] = t3
      /\ t4 # NULL => t3 # NULL /\ s.d[t3][v[3]] = t4
  BY Zenon DEF T2, T3, T4, Ent
<1>5. t4 = NULL => Leaf(s.d, root, v) = NULL
  BY DEF Leaf, Ent
<1>6. (t2 = NULL => t3 = NULL) /\ (t3 = NULL => t4 = NULL)
  BY DEF T3, T4, Ent
<1>7. \A X : Full(s, X)
  BY DEF Full, FullBut
<1> HIDE DEF r, root, t2, t3, t4
<1>8. ASSUME Undone(s, r), t4 = NULL
      PROVE  /\ Sound(r) /\ Within(s, r) /\ Full(r, {}) /\ SameBut(s, r, v)
             /\ Leaf(r.d, s.m.tdirearr, v) = NULL
  BY <1>5, <1>8 DEF Undone, Same, SameBut, root
<1>9. CASE t2 = NULL
  <2>1. r = s
    BY <1>1, <1>9
  <2>2. Undone(s, s)
    BY DEF Undone, Within, Same
  <2>3. QED  BY <1>6, <1>8, <1>9, <2>1, <2>2 DEF r
<1>10. CASE t2 # NULL /\ t3 = NULL
  <2>1. r = P2(s)
    BY <1>1, <1>10
  <2>2. Undone(s, P2(s))
    BY <1>3, <1>4, <1>7, <1>10, UndoS, Zenon DEF root
  <2>3. QED  BY <1>6, <1>8, <1>10, <2>1, <2>2 DEF r
<1>11. CASE t3 # NULL /\ t4 = NULL
  <2>1. r = P3(s)
    BY <1>1, <1>4, <1>11
  <2>2. Undone(s, P3(s))
    BY <1>3, <1>4, <1>7, <1>11, UndoI, Zenon DEF root
  <2>3. QED  BY <1>8, <1>11, <2>1, <2>2 DEF r
<1>12. CASE t4 # NULL
  <2> DEFINE x == [s EXCEPT !.d[t4][v[4]] = NULL]
  <2>1. r = P4(x)
    BY <1>1, <1>4, <1>12 DEF mmu_untransform_msa
  <2>2. /\ Sound(x) /\ Within(s, x) /\ SameBut(s, x, v)
        /\ Leaf(x.d, root, v) = NULL
        /\ x.m = s.m /\ t4 \in s.m.head[4]
        /\ \A y \in Frames \ {t4} : x.d[y] = s.d[y]
    BY <1>4, <1>12, Msa DEF root, t4
  <2> HIDE DEF x
  <2>3. t2 \in s.m.head[2] /\ t3 \in s.m.head[3] /\ root \in s.m.head[1]
    BY <1>2, <1>3, <1>4, <1>12
  <2>4. /\ root \in Frames \ {t4} /\ t2 \in Frames \ {t4} /\ t3 \in Frames \ {t4}
    <3>1. LevelsApart(s.m.head) /\ s.m.head \in [1 .. 4 -> SUBSET Frames]
      BY ONLY <1>2 DEF Tree, Heads, Levels
    <3>2. t4 \in s.m.head[4]
      BY <2>2
    <3>3. QED  BY ONLY <3>1, <3>2, <2>3 DEF LevelsApart, Levels
  <2>5. x.d[root][v[1]] = t2 /\ x.d[t2][v[2]] = t3 /\ x.d[t3][v[3]] = t4
    BY <1>4, <1>12, <2>2, <2>4
  <2>6. Full(x, {t4, t3})
    <3>1. ASSUME NEW k \in 2 .. 4, NEW y \in s.m.head[k] \ {t4} PROVE x.d[y] # Zero
      <4>1. y \in Frames
        BY <1>2 DEF Heads, Levels
      <4>2. QED  BY <2>2, <4>1 DEF Full, FullBut
    <3>2. QED  BY <2>2, <3>1 DEF Full, FullBut
  <2>7. Undone(x, P4(x))
    BY <1>3, <1>4, <1>12, <2>2, <2>3, <2>5, <2>6, UndoM DEF root
  <2>8. Sound(r) /\ Within(s, r) /\ Full(r, {})
    BY <2>1, <2>2, <2>7, Steps DEF Undone
  <2>9. SameBut(s, r, v) /\ Leaf(r.d, s.m.tdirearr, v) = NULL
    BY <2>1, <2>2, <2>7 DEF Undone, Same, SameBut, root
  <2>10. QED  BY <2>8, <2>9 DEF r
<1>13. QED  BY <1>9, <1>10, <1>11, <1>12
=============================================================================
