----------------------------- MODULE RfsProofs -----------------------------
(***************************************************************************)
(* Proofs about the file system with one caller: directory and block map    *)
(* agree, a file that was made can be opened, and the blocks implement      *)
(* named files, for any number of names, handles, blocks and entries.       *)
(***************************************************************************)
EXTENDS Rfs, WellFoundedInduction, TLAPS

Texts == Seq(Vals)
Buffer == [name : Names, blk : Blocks, text : Texts]

\* Block 0 is never a file's, and NULL is no name, text or buffer.
LEMMA Nones ==
    /\ 0 \notin Blocks /\ Blocks \subseteq Nat
    /\ << >> \in Texts
    /\ NONE \notin Names /\ NONE \notin Texts /\ NONE \notin Buffer
    /\ NONE \notin [name : Names, text : Texts]
<1>1. 0 \notin Blocks /\ Blocks \subseteq Nat
  BY RfsAssumption DEF Blocks
<1>2. << >> \in Texts
  BY DEF Texts
<1>3. NONE \notin Names \cup Texts /\ NONE \notin [name : Names, text : Texts]
  BY RfsAssumption DEF Texts
<1>4. NONE \notin [name : Names, blk : Nat, text : Texts]
  BY RfsAssumption DEF Texts
<1>5. Buffer \subseteq [name : Names, blk : Nat, text : Texts]
  BY <1>1 DEF Buffer
<1>6. QED  BY <1>1, <1>2, <1>3, <1>4, <1>5

-----------------------------------------------------------------------------
(* A directory is a list of entries; what matters is the block of each name. *)

Files(dir) == {i \in 1 .. Len(dir) : dir[i].type = "FIL"}

DirOK(dir) ==
    /\ dir \in Seq(Entry) /\ Len(dir) <= SLOTS
    /\ \A i \in Files(dir) : dir[i].name \in Names /\ dir[i].blk \in Blocks
    /\ \A i, j \in Files(dir) : i # j => dir[i].name # dir[j].name /\ dir[i].blk # dir[j].blk

\* The block of each name, 0 for a name without a file.
View(dir) == [n \in Names |-> IF FindFile(dir, n) = 0 THEN 0 ELSE dir[FindFile(dir, n)].blk]
Used(dir) == {View(dir)[n] : n \in Names} \ {0}

New(n, b) == [type |-> "FIL", name |-> n, blk |-> b]
Gone == [type |-> "DEL", name |-> NONE, blk |-> 0]
Without(dir, n) == [dir EXCEPT ![FindFile(dir, n)] = Gone]

\* A set of numbers has a least one (rfs_new_blk looks for the first free block).
LEMMA MinOf ==
    ASSUME NEW S, S \subseteq Nat, S # {}
    PROVE  Min(S) \in S
<1> DEFINE R == OpToRel(<, Nat)
<1>1. IsWellFoundedOn(R, Nat)
  BY NatLessThanWellFounded
<1> HIDE DEF R
<1>2. PICK m \in S : \A x \in S : ~ (<<x, m>> \in R)
  BY <1>1, WFMin
<1>3. \A x \in S : ~ (x < m)
  BY <1>2 DEF R, OpToRel
<1>4. \A x \in S : m <= x
  BY <1>3
<1>5. QED  BY <1>4 DEF Min

\* The loop that compares names finds the one entry with the name.
LEMMA Found ==
    ASSUME NEW dir, DirOK(dir), NEW n
    PROVE  /\ \A i \in Files(dir) : dir[i].name = n => FindFile(dir, n) = i
           /\ (\A i \in Files(dir) : dir[i].name # n) => FindFile(dir, n) = 0
           /\ FindFile(dir, n) # 0 =>
                FindFile(dir, n) \in Files(dir) /\ dir[FindFile(dir, n)].name = n
<1> DEFINE found == {i \in DOMAIN dir : dir[i].type = "FIL" /\ dir[i].name = n}
<1>1. found = {i \in Files(dir) : dir[i].name = n}
  BY DEF DirOK, Files
<1>2. FindFile(dir, n) = IF found = {} THEN 0 ELSE Min(found)
  BY DEF FindFile
<1>3. \A i, j \in Files(dir) : dir[i].name = n /\ dir[j].name = n => i = j
  BY DEF DirOK
<1>4. Files(dir) \subseteq Nat
  BY DEF Files, DirOK
<1> HIDE DEF found
<1>5. ASSUME NEW i \in Files(dir), dir[i].name = n PROVE FindFile(dir, n) = i
  <2>1. found = {i}
    BY <1>1, <1>3, <1>5
  <2>2. Min({i}) \in {i}
    BY <1>4, MinOf
  <2>3. QED  BY <1>2, <2>1, <2>2
<1>6. (\A i \in Files(dir) : dir[i].name # n) => FindFile(dir, n) = 0
  BY <1>1, <1>2
<1>7. QED  BY <1>5, <1>6

\* View by entries.
LEMMA ViewIs ==
    ASSUME NEW dir, DirOK(dir), NEW n \in Names
    PROVE  /\ View(dir)[n] \in Blocks \cup {0}
           /\ FindFile(dir, n) = 0 <=> View(dir)[n] = 0
           /\ FindFile(dir, n) # 0 => View(dir)[n] = dir[FindFile(dir, n)].blk
           /\ \A i \in Files(dir) : dir[i].name = n => View(dir)[n] = dir[i].blk
           /\ (\A i \in Files(dir) : dir[i].name # n) => View(dir)[n] = 0
<1>1. View(dir)[n] = IF FindFile(dir, n) = 0 THEN 0 ELSE dir[FindFile(dir, n)].blk
  BY DEF View
<1>2. FindFile(dir, n) # 0 => dir[FindFile(dir, n)].blk \in Blocks
  BY Found DEF DirOK
<1>3. 0 \notin Blocks /\ 0 \notin Files(dir)
  BY RfsAssumption DEF Blocks, Files
<1>4. QED  BY ONLY <1>1, <1>2, <1>3, Found, DirOK(dir)

\* No block has two files, and the blocks in use are those of the entries.
LEMMA ViewApart ==
    ASSUME NEW dir, DirOK(dir)
    PROVE  /\ \A n, m \in Names : View(dir)[n] = View(dir)[m] /\ View(dir)[n] # 0 => n = m
           /\ Used(dir) = {dir[i].blk : i \in Files(dir)}
           /\ Used(dir) \subseteq Blocks
<1>1. ASSUME NEW n \in Names, NEW m \in Names, View(dir)[n] = View(dir)[m], View(dir)[n] # 0
      PROVE  n = m
  <2> DEFINE i == FindFile(dir, n)
             j == FindFile(dir, m)
  <2>1. i # 0 /\ j # 0 /\ dir[i].blk = dir[j].blk
    BY <1>1, ViewIs
  <2>2. i \in Files(dir) /\ j \in Files(dir) /\ dir[i].name = n /\ dir[j].name = m
    BY <2>1, Found
  <2> HIDE DEF i, j
  <2>3. i = j
    BY <2>1, <2>2 DEF DirOK
  <2>4. QED  BY <2>2, <2>3
<1>2. ASSUME NEW b \in Used(dir) PROVE b \in {dir[i].blk : i \in Files(dir)}
  <2>1. PICK n \in Names : b = View(dir)[n] /\ b # 0
    BY <1>2 DEF Used
  <2>2. QED  BY <2>1, ViewIs, Found
<1>3. ASSUME NEW i \in Files(dir) PROVE dir[i].blk \in Used(dir)
  <2>1. dir[i].name \in Names /\ dir[i].blk \in Blocks
    BY DEF DirOK
  <2>2. View(dir)[dir[i].name] = dir[i].blk /\ dir[i].blk # 0
    BY <2>1, ViewIs, RfsAssumption DEF Blocks
  <2>3. QED  BY <2>1, <2>2 DEF Used
<1>4. Used(dir) \subseteq Blocks
  BY ViewIs DEF Used
<1>5. QED  BY <1>1, <1>2, <1>3, <1>4

\* rfs_new_dirfileblk: an entry more.
LEMMA Appended ==
    ASSUME NEW dir, DirOK(dir), Len(dir) < SLOTS, NEW n \in Names, View(dir)[n] = 0,
           NEW b \in Blocks, b \notin Used(dir)
    PROVE  /\ DirOK(Append(dir, New(n, b))) /\ Len(Append(dir, New(n, b))) = Len(dir) + 1
           /\ View(Append(dir, New(n, b))) = [View(dir) EXCEPT ![n] = b]
           /\ Used(Append(dir, New(n, b))) = Used(dir) \cup {b}
<1> DEFINE d == Append(dir, New(n, b))
           k == Len(dir) + 1
<1>1. New(n, b) \in Entry /\ New(n, b).type = "FIL" /\ New(n, b).name = n /\ New(n, b).blk = b
  BY DEF New, Entry
<1>2. dir \in Seq(Entry) /\ Len(dir) \in Nat /\ SLOTS \in Nat
  BY RfsAssumption DEF DirOK
<1>3. /\ d \in Seq(Entry) /\ Len(d) = k /\ d[k] = New(n, b)
      /\ \A i \in 1 .. Len(dir) : d[i] = dir[i]
  BY <1>1, <1>2
<1> HIDE DEF d
<1>4. Files(d) = Files(dir) \cup {k}
  BY <1>1, <1>2, <1>3 DEF Files
<1>5. k \notin Files(dir) /\ \A i \in Files(dir) : d[i] = dir[i]
  BY <1>2, <1>3 DEF Files
<1>6. \A i \in Files(dir) : dir[i].name # n /\ dir[i].blk # b /\ dir[i].name \in Names /\ dir[i].blk \in Blocks
  <2>1. \A i \in Files(dir) : dir[i].name \in Names /\ dir[i].blk \in Blocks
    BY DEF DirOK
  <2>2. \A i \in Files(dir) : dir[i].blk # b
    BY ViewApart
  <2>3. 0 \notin Blocks
    BY Nones
  <2>4. QED  BY <2>1, <2>2, <2>3, ViewIs
<1>7. DirOK(d)
  <2>1. \A i, j \in Files(dir) : i # j => dir[i].name # dir[j].name /\ dir[i].blk # dir[j].blk
    BY DEF DirOK
  <2>2. \A i, j \in Files(d) : i # j => d[i].name # d[j].name /\ d[i].blk # d[j].blk
    BY ONLY <2>1, <1>1, <1>3, <1>4, <1>5, <1>6
  <2>3. \A i \in Files(d) : d[i].name \in Names /\ d[i].blk \in Blocks
    BY <1>1, <1>3, <1>4, <1>5, <1>6
  <2>4. Len(d) <= SLOTS
    BY <1>2, <1>3
  <2>5. QED  BY <1>3, <2>2, <2>3, <2>4 DEF DirOK
<1>8. ASSUME NEW m \in Names PROVE View(d)[m] = IF m = n THEN b ELSE View(dir)[m]
  <2>1. CASE m = n
    BY <2>1, <1>1, <1>3, <1>4, <1>7, ViewIs
  <2>2. CASE m # n /\ \E i \in Files(dir) : dir[i].name = m
    <3>1. PICK i \in Files(dir) : dir[i].name = m
      BY <2>2
    <3>2. View(dir)[m] = dir[i].blk
      BY <3>1, ViewIs
    <3>3. View(d)[m] = d[i].blk
      BY <3>1, <1>4, <1>5, <1>7, ViewIs
    <3>4. QED  BY <2>2, <3>1, <3>2, <3>3, <1>5
  <2>3. CASE m # n /\ \A i \in Files(dir) : dir[i].name # m
    <3>1. \A i \in Files(d) : d[i].name # m
      BY <2>3, <1>1, <1>3, <1>4, <1>5
    <3>2. View(dir)[m] = 0 /\ View(d)[m] = 0
      BY <2>3, <3>1, <1>7, ViewIs
    <3>3. QED  BY <2>3, <3>2
  <2>4. QED  BY <2>1, <2>2, <2>3
<1>9. View(d) = [View(dir) EXCEPT ![n] = b]
  BY <1>8 DEF View
<1>10. Used(d) = Used(dir) \cup {b}
  <2>1. Used(d) = {d[i].blk : i \in Files(d)} /\ Used(dir) = {dir[i].blk : i \in Files(dir)}
    BY <1>7, ViewApart
  <2>2. QED  BY ONLY <2>1, <1>1, <1>3, <1>4, <1>5
<1>11. QED  BY <1>3, <1>7, <1>9, <1>10 DEF d

\* del_dirfileblk_core: an entry less; its place stays.
LEMMA Deleted ==
    ASSUME NEW dir, DirOK(dir), NEW n \in Names, View(dir)[n] # 0
    PROVE  /\ DirOK(Without(dir, n)) /\ Len(Without(dir, n)) = Len(dir)
           /\ View(Without(dir, n)) = [View(dir) EXCEPT ![n] = 0]
           /\ Used(Without(dir, n)) = Used(dir) \ {View(dir)[n]}
<1> DEFINE d == Without(dir, n)
           k == FindFile(dir, n)
<1>1. Gone \in Entry /\ Gone.type # "FIL"
  BY DEF Gone, Entry
<1>2. k \in Files(dir) /\ dir[k].name = n /\ View(dir)[n] = dir[k].blk
  BY ViewIs, Found
<1>3. dir \in Seq(Entry) /\ d = [dir EXCEPT ![k] = Gone]
  BY DEF DirOK, Without
<1> HIDE DEF d, k
<1>4. k \in 1 .. Len(dir)
  BY <1>2 DEF Files
<1>5. /\ d \in Seq(Entry) /\ Len(d) = Len(dir) /\ d[k] = Gone
      /\ \A i \in 1 .. Len(dir) : i # k => d[i] = dir[i]
  BY <1>1, <1>3, <1>4
<1>6. Files(d) = Files(dir) \ {k}
  BY <1>1, <1>4, <1>5 DEF Files
<1>7. \A i \in Files(d) : d[i] = dir[i] /\ i \in Files(dir) /\ i # k
  BY <1>5, <1>6 DEF Files
<1>8. \A i, j \in Files(dir) : i # j => dir[i].name # dir[j].name /\ dir[i].blk # dir[j].blk
  BY DEF DirOK
<1>9. DirOK(d)
  <2>1. \A i \in Files(d) : d[i].name \in Names /\ d[i].blk \in Blocks
    BY <1>7 DEF DirOK
  <2>2. \A i, j \in Files(d) : i # j => d[i].name # d[j].name /\ d[i].blk # d[j].blk
    BY <1>7, <1>8
  <2>3. Len(d) <= SLOTS
    BY <1>5 DEF DirOK
  <2>4. QED  BY <1>5, <2>1, <2>2, <2>3 DEF DirOK
<1>10. ASSUME NEW m \in Names PROVE View(d)[m] = IF m = n THEN 0 ELSE View(dir)[m]
  <2>1. CASE m = n
    <3>1. \A i \in Files(d) : d[i].name # m
      BY <2>1, <1>2, <1>7, <1>8
    <3>2. View(d)[m] = 0
      BY <3>1, <1>9, ViewIs
    <3>3. QED  BY <2>1, <3>2
  <2>2. CASE m # n /\ \E i \in Files(dir) : dir[i].name = m
    <3>1. PICK i \in Files(dir) : dir[i].name = m
      BY <2>2
    <3>2. View(dir)[m] = dir[i].blk
      BY <3>1, ViewIs
    <3>3. i \in Files(d) /\ d[i] = dir[i]
      BY <2>2, <3>1, <1>2, <1>6, <1>7
    <3>4. View(d)[m] = d[i].blk
      BY <3>1, <3>3, <1>9, ViewIs
    <3>5. QED  BY <2>2, <3>2, <3>3, <3>4
  <2>3. CASE m # n /\ \A i \in Files(dir) : dir[i].name # m
    <3>1. \A i \in Files(d) : d[i].name # m
      BY <2>3, <1>7
    <3>2. View(dir)[m] = 0 /\ View(d)[m] = 0
      BY <2>3, <3>1, <1>9, ViewIs
    <3>3. QED  BY <2>3, <3>2
  <2>4. QED  BY <2>1, <2>2, <2>3
<1>11. View(d) = [View(dir) EXCEPT ![n] = 0]
  BY <1>10 DEF View
<1>12. Used(d) = Used(dir) \ {View(dir)[n]}
  <2>1. Used(d) = {d[i].blk : i \in Files(d)} /\ Used(dir) = {dir[i].blk : i \in Files(dir)}
    BY <1>9, ViewApart
  <2>2. QED  BY ONLY <2>1, <1>2, <1>6, <1>7, <1>8
<1>13. QED  BY <1>5, <1>9, <1>11, <1>12 DEF d

-----------------------------------------------------------------------------
(* The inductive invariant: what is on the disk, what the handles hold, and *)
(* for each place of an operation what its private copies say.              *)

\* Every file has a block with a text, and a file that was made is there.
Disk(rt, dt, bm, md) ==
    /\ DirOK(rt)
    /\ dt \in [Blocks -> Texts \cup {NONE}]
    /\ \A b \in Used(rt) : dt[b] # NONE
    /\ bm \subseteq Blocks
    /\ md \subseteq {n \in Names : View(rt)[n] # 0}

\* Until a file was deleted under a handle, a handle knows its file's block.
Holds(bf, rt, tn) ==
    /\ bf \in [Hands -> Buffer \cup {NONE}]
    /\ tn \in BOOLEAN
    /\ ~ tn => \A h \in Hands : bf[h] # NONE => View(rt)[bf[h].name] = bf[h].blk

Unopened(bf, n) == \A h \in Hands : bf[h] # NONE => bf[h].name # n

\* The map marks the blocks U of a directory with len entries, and no other
\* unless it is full.
Agree(U, len, bm) == U \subseteq bm /\ (len < SLOTS => bm = U)
Quiet(rt, bm) == Agree(Used(rt), Len(rt), bm)

\* A name without a file, and a block without one.
FreeFor(rt, n, b) == View(rt)[n] = 0 /\ b \notin Used(rt)

AtIdle(l) == l = Idle \/ l = [pc |-> "openerr", name |-> NONE]
AtChk(l, rt) == \E n \in Names : l = [pc |-> "chk", name |-> n, dir |-> rt]
AtNew(l, rt) == \E n \in Names : View(rt)[n] = 0 /\ l = [pc |-> "new", name |-> n]
AtNewblk(l, rt, bm) ==
    \E n \in Names : View(rt)[n] = 0 /\ l = [pc |-> "newblk", name |-> n, map |-> bm]
AtNewdir(l, rt, bm) ==
    \E n \in Names, b \in Blocks :
              /\ FreeFor(rt, n, b) /\ Agree(Used(rt) \cup {b}, Len(rt), bm)
              /\ l = [pc |-> "newdir", name |-> n, blk |-> b]
AtNewdata(l, rt, bm) ==
    \E n \in Names, b \in Blocks :
              /\ FreeFor(rt, n, b) /\ Len(rt) < SLOTS /\ bm = Used(rt) \cup {b}
              /\ l = [pc |-> "newdata", name |-> n, blk |-> b, dir |-> Append(rt, New(n, b))]
AtDel(l, rt, bf, md, tn) ==
    \E n \in Names : /\ View(rt)[n] # 0 /\ n \notin md /\ (tn \/ Unopened(bf, n))
                     /\ l = [pc |-> "del", gone |-> n, dir |-> rt, slot |-> FindFile(rt, n)]
AtDelblk(l, rt, bm, bf, md, tn) ==
    \E n \in Names : /\ View(rt)[n] # 0 /\ n \notin md /\ (tn \/ Unopened(bf, n))
                     /\ l = [pc |-> "delblk", gone |-> n, dir |-> rt,
                             slot |-> FindFile(rt, n), map |-> bm]
AtOpen(l, rt, bf, md) ==
    \E n \in Names, h \in Hands, k \in BOOLEAN :
      /\ bf[h] = NONE /\ (k => n \in md)
      /\ l = [pc |-> "open", name |-> n, hand |-> h, dir |-> rt, known |-> k]
AtNofile(l, rt) ==
    \E n \in Names, h \in Hands :
      l = [pc |-> "nofile", name |-> n, hand |-> h, dir |-> rt, known |-> FALSE]
BackSame(l, rt) == \E g \in Names \cup {NONE} : l = Back(NONE, g, rt)
BackNew(l, rt, bm, dt) ==
    \E n \in Names, b \in Blocks :
              /\ FreeFor(rt, n, b) /\ Len(rt) < SLOTS /\ bm = Used(rt) \cup {b}
              /\ dt[b] = << >>
              /\ l = Back(n, NONE, Append(rt, New(n, b)))
BackDel(l, rt, bm, bf, md, tn) ==
    \E n \in Names : /\ View(rt)[n] # 0 /\ n \notin md /\ (tn \/ Unopened(bf, n))
                     /\ Agree(Used(rt) \ {View(rt)[n]}, Len(rt), bm)
                     /\ l = Back(NONE, n, Without(rt, n))

\* Places where nothing is under way on the disk.
Settled(l, rt, bm, bf, md, tn) ==
    \/ AtIdle(l) \/ AtChk(l, rt) \/ AtNew(l, rt) \/ AtNewblk(l, rt, bm)
    \/ AtDel(l, rt, bf, md, tn) \/ AtDelblk(l, rt, bm, bf, md, tn)
    \/ AtOpen(l, rt, bf, md) \/ AtNofile(l, rt) \/ BackSame(l, rt)

Place(l, rt, dt, bm, bf, md, tn) ==
    \/ Quiet(rt, bm) /\ Settled(l, rt, bm, bf, md, tn)
    \/ AtNewdir(l, rt, bm) \/ AtNewdata(l, rt, bm)
    \/ BackNew(l, rt, bm, dt) \/ BackDel(l, rt, bm, bf, md, tn)

FsInv(p) ==
    /\ DOMAIN loc = Procs /\ DOMAIN buf = Procs
    /\ Disk(root, data, bitmap, made)
    /\ Holds(buf[p], root, torn)
    /\ Place(loc[p], root, data, bitmap, buf[p], made, torn)

\* A step of the file system is one of named files, none, or comes after a
\* file was deleted while it was open.
Follows == Store!Next \/ torn' \/ UNCHANGED Store!vars

\* The place is known from the label of a thread.
LEMMA PlaceIs ==
    ASSUME NEW l, NEW rt, NEW dt, NEW bm, NEW bf, NEW md, NEW tn,
           Place(l, rt, dt, bm, bf, md, tn)
    PROVE  /\ l.pc \in {"idle", "openerr"} => Quiet(rt, bm) /\ AtIdle(l)
           /\ l.pc = "chk" => Quiet(rt, bm) /\ AtChk(l, rt)
           /\ l.pc = "new" => Quiet(rt, bm) /\ AtNew(l, rt)
           /\ l.pc = "newblk" => Quiet(rt, bm) /\ AtNewblk(l, rt, bm)
           /\ l.pc = "newdir" => AtNewdir(l, rt, bm)
           /\ l.pc = "newdata" => AtNewdata(l, rt, bm)
           /\ l.pc = "del" => Quiet(rt, bm) /\ AtDel(l, rt, bf, md, tn)
           /\ l.pc = "delblk" => Quiet(rt, bm) /\ AtDelblk(l, rt, bm, bf, md, tn)
           /\ l.pc = "open" => Quiet(rt, bm) /\ AtOpen(l, rt, bf, md)
           /\ l.pc = "nofile" => Quiet(rt, bm) /\ AtNofile(l, rt)
           /\ l.pc = "back" => \/ Quiet(rt, bm) /\ BackSame(l, rt)
                               \/ BackNew(l, rt, bm, dt)
                               \/ BackDel(l, rt, bm, bf, md, tn)
<1>1. AtIdle(l) => l.pc = "idle" \/ l.pc = "openerr"
  BY DEF AtIdle, Idle
<1>2. AtChk(l, rt) => l.pc = "chk"
  BY DEF AtChk
<1>3. AtNew(l, rt) => l.pc = "new"
  BY DEF AtNew
<1>4. AtNewblk(l, rt, bm) => l.pc = "newblk"
  BY DEF AtNewblk
<1>5. AtNewdir(l, rt, bm) => l.pc = "newdir"
  BY DEF AtNewdir
<1>6. AtNewdata(l, rt, bm) => l.pc = "newdata"
  BY DEF AtNewdata
<1>7. AtDel(l, rt, bf, md, tn) => l.pc = "del"
  BY DEF AtDel
<1>8. AtDelblk(l, rt, bm, bf, md, tn) => l.pc = "delblk"
  BY DEF AtDelblk
<1>9. AtOpen(l, rt, bf, md) => l.pc = "open"
  BY DEF AtOpen
<1>10. AtNofile(l, rt) => l.pc = "nofile"
  BY DEF AtNofile
<1>11. BackSame(l, rt) => l.pc = "back"
  BY DEF BackSame, Back
<1>12. BackNew(l, rt, bm, dt) => l.pc = "back"
  BY DEF BackNew, Back
<1>13. BackDel(l, rt, bm, bf, md, tn) => l.pc = "back"
  BY DEF BackDel, Back
<1>14. \/ Quiet(rt, bm) /\ AtIdle(l)
       \/ Quiet(rt, bm) /\ AtChk(l, rt)
       \/ Quiet(rt, bm) /\ AtNew(l, rt)
       \/ Quiet(rt, bm) /\ AtNewblk(l, rt, bm)
       \/ AtNewdir(l, rt, bm) \/ AtNewdata(l, rt, bm)
       \/ Quiet(rt, bm) /\ AtDel(l, rt, bf, md, tn)
       \/ Quiet(rt, bm) /\ AtDelblk(l, rt, bm, bf, md, tn)
       \/ Quiet(rt, bm) /\ AtOpen(l, rt, bf, md)
       \/ Quiet(rt, bm) /\ AtNofile(l, rt)
       \/ Quiet(rt, bm) /\ BackSame(l, rt)
       \/ BackNew(l, rt, bm, dt) \/ BackDel(l, rt, bm, bf, md, tn)
  BY DEF Place, Settled
<1>15. QED
  BY ONLY <1>1, <1>2, <1>3, <1>4, <1>5, <1>6, <1>7, <1>8, <1>9, <1>10, <1>11, <1>12,
          <1>13, <1>14

\* A thread outside any operation leaves map and directory in agreement.
LEMMA IdleIs ==
    ASSUME NEW p, FsInv(p), IsIdle(p)
    PROVE  Quiet(root, bitmap) /\ AtIdle(loc[p])
  BY PlaceIs DEF FsInv, IsIdle

-----------------------------------------------------------------------------
(* What the user sees.                                                     *)

Texted(rt, dt) == [n \in Names |-> IF View(rt)[n] = 0 THEN NONE ELSE dt[View(rt)[n]]]
Shown(b) == IF b = NONE THEN NONE ELSE [name |-> b.name, text |-> b.text]
Put(f, x, y) == [f EXCEPT ![x] = y]

\* The texts under the names, by blocks.
LEMMA TextedIs ==
    ASSUME NEW rt, NEW dt, DirOK(rt)
    PROVE  [n \in Names |-> LET i == FindFile(rt, n)
                            IN  IF i = 0 THEN NONE ELSE dt[rt[i].blk]] = Texted(rt, dt)
<1>1. \A n \in Names : /\ FindFile(rt, n) = 0 <=> View(rt)[n] = 0
                       /\ FindFile(rt, n) # 0 => View(rt)[n] = rt[FindFile(rt, n)].blk
  BY ViewIs
<1>2. QED  BY <1>1 DEF Texted

\* The store before and after a step.
LEMMA StoreIs ==
    ASSUME NEW p, Procs = {p}
    PROVE  /\ DirOK(root) => Contents = Texted(root, data)
           /\ DirOK(root') => Contents' = Texted(root', data')
           /\ Opened = [x \in Procs \X Hands |-> Shown(buf[x[1]][x[2]])]
           /\ Opened' = [x \in Procs \X Hands |-> Shown(buf'[x[1]][x[2]])]
<1>1. DirOK(root) => Contents = Texted(root, data)
  BY TextedIs DEF Contents
<1>2. DirOK(root') => Contents' = Texted(root', data')
  BY TextedIs DEF Contents
<1>3. QED  BY <1>1, <1>2 DEF Opened, Shown

\* A block that is a file's is that file's only.
LEMMA TextedWrite ==
    ASSUME NEW rt, NEW dt, DirOK(rt), DOMAIN dt = Blocks, NEW n \in Names, View(rt)[n] # 0, NEW t
    PROVE  Texted(rt, Put(dt, View(rt)[n], t)) = Put(Texted(rt, dt), n, t)
<1>1. \A m \in Names : View(rt)[m] \in Blocks \cup {0}
  BY ViewIs
<1>2. \A m \in Names : m # n => View(rt)[m] = 0 \/ View(rt)[m] # View(rt)[n]
  BY ViewApart
<1>3. QED  BY <1>1, <1>2 DEF Texted, Put

\* A block that is no file's is not seen.
LEMMA TextedOther ==
    ASSUME NEW rt, NEW dt, DirOK(rt), NEW b, b \notin Used(rt), NEW t
    PROVE  Texted(rt, Put(dt, b, t)) = Texted(rt, dt)
<1>1. \A m \in Names : View(rt)[m] = 0 \/ View(rt)[m] # b
  BY DEF Used
<1>2. QED  BY <1>1 DEF Texted, Put

\* A step in which only the place of the thread changes.
LEMMA Moves ==
    ASSUME NEW p, Procs = {p}, FsInv(p), UNCHANGED <<bitmap, root, data, buf, made, torn>>,
           DOMAIN loc' = Procs, Place(loc'[p], root, data, bitmap, buf[p], made, torn)
    PROVE  FsInv(p)' /\ Follows
<1>1. FsInv(p)'
  BY DEF FsInv
<1>2. Contents' = Contents /\ Opened' = Opened
  BY DEF Contents, Opened
<1>3. QED  BY <1>1, <1>2 DEF Follows, Store!vars

-----------------------------------------------------------------------------
(* One lemma for each step of an operation.                                *)

\* rfs_new_file: the directory is copied.
LEMMA NewFileStep ==
    ASSUME NEW p, Procs = {p}, FsInv(p), NEW n \in Names, rfs_new_file(p, n)
    PROVE  FsInv(p)' /\ Follows
<1>1. Quiet(root, bitmap)
  BY IdleIs DEF rfs_new_file
<1>2. DOMAIN loc' = Procs /\ loc'[p] = [pc |-> "chk", name |-> n, dir |-> root]
  BY DEF rfs_new_file, FsInv
<1>3. AtChk(loc'[p], root)
  BY <1>2 DEF AtChk
<1>4. UNCHANGED <<bitmap, root, data, buf, made, torn>>
  BY DEF rfs_new_file
<1>5. Place(loc'[p], root, data, bitmap, buf[p], made, torn)
  BY <1>1, <1>3 DEF Place, Settled
<1>6. QED  BY <1>2, <1>4, <1>5, Moves

\* rfs_chkfileisindev: the directory goes back as it was.
LEMMA ChkStep ==
    ASSUME NEW p, Procs = {p}, FsInv(p), rfs_chkfileisindev(p)
    PROVE  FsInv(p)' /\ Follows
<1>1. Quiet(root, bitmap) /\ AtChk(loc[p], root)
  BY PlaceIs DEF rfs_chkfileisindev, At, FsInv
<1>2. PICK n \in Names : loc[p] = [pc |-> "chk", name |-> n, dir |-> root]
  BY <1>1 DEF AtChk
<1>3. UNCHANGED <<bitmap, root, data, buf, made, torn>>
  BY <1>2 DEF rfs_chkfileisindev
<1>4. /\ DOMAIN loc' = Procs
      /\ loc'[p] = IF FindFile(root, n) # 0 THEN Idle ELSE [pc |-> "new", name |-> n]
  <2>1. DOMAIN loc = Procs
    BY DEF FsInv
  <2>2. loc[p].dir = root /\ loc[p].name = n
    BY <1>2
  <2>3. QED  BY ONLY <2>1, <2>2, Procs = {p}, rfs_chkfileisindev(p) DEF rfs_chkfileisindev
<1>5. FindFile(root, n) = 0 => View(root)[n] = 0
  BY ViewIs DEF FsInv, Disk
<1>6. AtIdle(loc'[p]) \/ AtNew(loc'[p], root)
  BY <1>4, <1>5 DEF AtIdle, AtNew
<1>7. Place(loc'[p], root, data, bitmap, buf[p], made, torn)
  BY <1>1, <1>6 DEF Place, Settled
<1>8. QED  BY <1>3, <1>4, <1>7, Moves

\* rfs_new_blk reads the map.
LEMMA GetBitmapStep ==
    ASSUME NEW p, Procs = {p}, FsInv(p), get_bitmapblk(p)
    PROVE  FsInv(p)' /\ Follows
<1>1. Quiet(root, bitmap) /\ AtNew(loc[p], root)
  BY PlaceIs DEF get_bitmapblk, At, FsInv
<1>2. PICK n \in Names : View(root)[n] = 0 /\ loc[p] = [pc |-> "new", name |-> n]
  BY <1>1 DEF AtNew
<1>3. UNCHANGED <<bitmap, root, data, buf, made, torn>>
  BY DEF get_bitmapblk
<1>4. DOMAIN loc' = Procs /\ loc'[p] = [pc |-> "newblk", name |-> n, map |-> bitmap]
  BY <1>2 DEF get_bitmapblk, FsInv
<1>5. AtNewblk(loc'[p], root, bitmap)
  BY <1>2, <1>4 DEF AtNewblk
<1>6. Place(loc'[p], root, data, bitmap, buf[p], made, torn)
  BY <1>1, <1>5 DEF Place, Settled
<1>7. QED  BY <1>3, <1>4, <1>6, Moves

\* A step that changes the map and the place.
LEMMA Marks ==
    ASSUME NEW p, Procs = {p}, FsInv(p), UNCHANGED <<root, data, buf, made, torn>>,
           bitmap' \subseteq Blocks,
           DOMAIN loc' = Procs, Place(loc'[p], root, data, bitmap', buf[p], made, torn)
    PROVE  FsInv(p)' /\ Follows
<1>1. FsInv(p)'
  BY DEF FsInv, Disk
<1>2. Contents' = Contents /\ Opened' = Opened
  BY DEF Contents, Opened
<1>3. QED  BY <1>1, <1>2 DEF Follows, Store!vars

\* rfs_new_blk marks a block that no file has.
LEMMA NewBlkStep ==
    ASSUME NEW p, Procs = {p}, FsInv(p), rfs_new_blk(p)
    PROVE  FsInv(p)' /\ Follows
<1>1. Quiet(root, bitmap) /\ AtNewblk(loc[p], root, bitmap)
  BY PlaceIs DEF rfs_new_blk, At, FsInv
<1>2. PICK n \in Names :
        View(root)[n] = 0 /\ loc[p] = [pc |-> "newblk", name |-> n, map |-> bitmap]
  BY <1>1 DEF AtNewblk
<1> DEFINE free == Blocks \ bitmap
<1>3. /\ bitmap' = IF free = {} THEN bitmap ELSE bitmap \cup {Min(free)}
      /\ DOMAIN loc' = Procs
      /\ loc'[p] = IF free = {} THEN Idle
                   ELSE [pc |-> "newdir", name |-> n, blk |-> Min(free)]
      /\ UNCHANGED <<root, data, buf, made, torn>>
  BY <1>2 DEF rfs_new_blk, FsInv
<1>4. bitmap \subseteq Blocks
  BY DEF FsInv, Disk
<1>5. CASE free = {}
  <2>1. bitmap' = bitmap /\ loc'[p] = Idle
    BY <1>3, <1>5
  <2>2. Place(loc'[p], root, data, bitmap', buf[p], made, torn)
    BY <1>1, <2>1 DEF Place, Settled, AtIdle
  <2>3. QED  BY ONLY <1>3, <1>4, <2>1, <2>2, Marks, Procs = {p}, FsInv(p)
<1>6. CASE free # {}
  <2> DEFINE b == Min(free)
  <2>1. free \subseteq Nat
    BY RfsAssumption DEF Blocks
  <2>2. b \in Blocks /\ b \notin bitmap
    BY <2>1, <1>6, MinOf
  <2>3. bitmap' = bitmap \cup {b} /\ loc'[p] = [pc |-> "newdir", name |-> n, blk |-> b]
    BY <1>3, <1>6
  <2> HIDE DEF b, free
  <2>4. b \notin Used(root) /\ Agree(Used(root) \cup {b}, Len(root), bitmap')
    BY <1>1, <2>2, <2>3 DEF Quiet, Agree
  <2>5. AtNewdir(loc'[p], root, bitmap')
    BY <1>2, <2>2, <2>3, <2>4 DEF AtNewdir, FreeFor
  <2>6. Place(loc'[p], root, data, bitmap', buf[p], made, torn)
    BY <2>5 DEF Place
  <2>7. bitmap' \subseteq Blocks
    BY <1>4, <2>2, <2>3
  <2>8. QED  BY ONLY <1>3, <2>6, <2>7, Marks, Procs = {p}, FsInv(p)
<1>7. QED  BY <1>5, <1>6

\* rfs_new_dirfileblk: the entry goes into the copy, or the directory is full
\* and the block stays marked.
LEMMA NewDirStep ==
    ASSUME NEW p, Procs = {p}, FsInv(p), rfs_new_dirfileblk(p)
    PROVE  FsInv(p)' /\ Follows
<1>1. AtNewdir(loc[p], root, bitmap)
  BY PlaceIs DEF rfs_new_dirfileblk, At, FsInv
<1>2. PICK n \in Names, b \in Blocks :
        /\ FreeFor(root, n, b) /\ Agree(Used(root) \cup {b}, Len(root), bitmap)
        /\ loc[p] = [pc |-> "newdir", name |-> n, blk |-> b]
  BY <1>1 DEF AtNewdir
<1>3. UNCHANGED <<bitmap, root, data, buf, made, torn>>
  BY DEF rfs_new_dirfileblk
<1>4. /\ DOMAIN loc' = Procs
      /\ loc'[p] = IF Len(root) < SLOTS
                   THEN [pc |-> "newdata", name |-> n, blk |-> b, dir |-> Append(root, New(n, b))]
                   ELSE Back(NONE, NONE, root)
  BY <1>2 DEF rfs_new_dirfileblk, FsInv, HasRoom, AppendEntry, New
<1>5. CASE Len(root) < SLOTS
  <2>1. bitmap = Used(root) \cup {b}
    BY <1>2, <1>5 DEF Agree
  <2>2. loc'[p] = [pc |-> "newdata", name |-> n, blk |-> b, dir |-> Append(root, New(n, b))]
    BY <1>4, <1>5
  <2>3. AtNewdata(loc'[p], root, bitmap)
    BY ONLY <1>2, <1>5, <2>1, <2>2, n \in Names, b \in Blocks DEF AtNewdata
  <2>4. Place(loc'[p], root, data, bitmap, buf[p], made, torn)
    BY <2>3 DEF Place
  <2>5. QED  BY ONLY <1>3, <1>4, <2>4, Moves, Procs = {p}, FsInv(p)
<1>6. CASE ~ (Len(root) < SLOTS)
  <2>1. Quiet(root, bitmap)
    BY <1>2, <1>6 DEF Agree, Quiet
  <2>2. BackSame(loc'[p], root)
    BY <1>4, <1>6 DEF BackSame
  <2>3. Place(loc'[p], root, data, bitmap, buf[p], made, torn)
    BY <2>1, <2>2 DEF Place, Settled
  <2>4. QED  BY ONLY <1>3, <1>4, <2>3, Moves, Procs = {p}, FsInv(p)
<1>7. QED  BY <1>5, <1>6

\* The head of the new file goes into a block that no file has.
LEMMA NewHeadStep ==
    ASSUME NEW p, Procs = {p}, FsInv(p), WriteNewHead(p)
    PROVE  FsInv(p)' /\ Follows
<1>1. AtNewdata(loc[p], root, bitmap)
  BY PlaceIs DEF WriteNewHead, At, FsInv
<1>2. PICK n \in Names, b \in Blocks :
        /\ FreeFor(root, n, b) /\ Len(root) < SLOTS /\ bitmap = Used(root) \cup {b}
        /\ loc[p] = [pc |-> "newdata", name |-> n, blk |-> b, dir |-> Append(root, New(n, b))]
  BY <1>1 DEF AtNewdata
<1>3. /\ UNCHANGED <<bitmap, root, buf, made, torn>>
      /\ data' = [data EXCEPT ![b] = << >>]
      /\ DOMAIN loc' = Procs
      /\ loc'[p] = Back(n, NONE, Append(root, New(n, b)))
  BY <1>2 DEF WriteNewHead, FsInv
<1>4. data \in [Blocks -> Texts \cup {NONE}] /\ DirOK(root)
  BY DEF FsInv, Disk
<1>5. /\ data' \in [Blocks -> Texts \cup {NONE}]
      /\ data'[b] = << >> /\ \A c \in Blocks \ {b} : data'[c] = data[c]
  <2>1. << >> \in Texts
    BY Nones
  <2>2. QED  BY ONLY <2>1, <1>3, <1>4, b \in Blocks
<1>6. BackNew(loc'[p], root, bitmap, data')
  BY ONLY <1>2, <1>3, <1>5, n \in Names, b \in Blocks DEF BackNew
<1>7. Disk(root, data', bitmap, made)
  BY <1>2, <1>5, <1>4, ViewApart DEF FsInv, Disk, FreeFor
<1>8. Place(loc'[p], root, data', bitmap, buf[p], made, torn)
  BY <1>6 DEF Place
<1>9. FsInv(p)'
  BY <1>3, <1>7, <1>8 DEF FsInv
<1>10. Contents' = Contents
  <2>1. b \notin Used(root)
    BY <1>2 DEF FreeFor
  <2>2. Texted(root, Put(data, b, << >>)) = Texted(root, data)
    BY ONLY <1>4, <2>1, TextedOther
  <2>3. Texted(root, data') = Texted(root, data)
    BY <2>2, <1>3 DEF Put
  <2>4. QED  BY <1>3, <1>4, <2>3, StoreIs
<1>11. Opened' = Opened
  BY <1>3 DEF Opened
<1>12. QED  BY <1>9, <1>10, <1>11 DEF Follows, Store!vars

\* The directory goes back with the new entry: the file is made.
LEMMA BackNewStep ==
    ASSUME NEW p, Procs = {p}, FsInv(p), del_rootdirfile_blk(p), BackNew(loc[p], root, bitmap, data)
    PROVE  FsInv(p)' /\ Follows
<1>1. PICK n \in Names, b \in Blocks :
        /\ FreeFor(root, n, b) /\ Len(root) < SLOTS /\ bitmap = Used(root) \cup {b}
        /\ data[b] = << >>
        /\ loc[p] = Back(n, NONE, Append(root, New(n, b)))
  BY DEF BackNew
<1> DEFINE d == Append(root, New(n, b))
<1>2. loc[p].name = n /\ loc[p].gone = NONE /\ loc[p].dir = d
  BY <1>1 DEF Back
<1>3. n # NONE /\ ~ Deleting(n)
  <2>1. n # NONE
    BY Nones
  <2>2. QED  BY ONLY <2>1, <1>2, Procs = {p} DEF Deleting
<1>4. /\ UNCHANGED <<bitmap, data, buf, torn>> /\ root' = d
      /\ made' = made \cup {n}
      /\ DOMAIN loc' = Procs /\ loc'[p] = Idle
  BY <1>2, <1>3 DEF del_rootdirfile_blk, FsInv
<1>5. DirOK(root) /\ data \in [Blocks -> Texts \cup {NONE}]
  BY DEF FsInv, Disk
<1>6. /\ DirOK(d) /\ Len(d) = Len(root) + 1 /\ Used(d) = Used(root) \cup {b}
      /\ View(d) = [View(root) EXCEPT ![n] = b]
  BY <1>1, <1>5, Appended DEF FreeFor
<1>7. b # 0 /\ << >> # NONE
  BY Nones
<1> HIDE DEF d
<1>8. View(d)[n] = b /\ \A m \in Names \ {n} : View(d)[m] = View(root)[m]
  BY <1>6 DEF View
<1>9. Disk(d, data, bitmap, made')
  BY <1>1, <1>4, <1>6, <1>7, <1>8 DEF FsInv, Disk
<1>10. Holds(buf[p], d, torn)
  <2>1. Holds(buf[p], root, torn)
    BY DEF FsInv
  <2>2. ASSUME ~ torn, NEW h \in Hands, buf[p][h] # NONE
        PROVE  View(d)[buf[p][h].name] = buf[p][h].blk
    <3>1. /\ buf[p][h].name \in Names /\ buf[p][h].blk \in Blocks
          /\ View(root)[buf[p][h].name] = buf[p][h].blk
      BY <2>1, <2>2 DEF Holds, Buffer
    <3>2. 0 \notin Blocks
      BY Nones
    <3>3. QED  BY <3>1, <3>2, <1>1, <1>8 DEF FreeFor
  <2>3. QED  BY <2>1, <2>2 DEF Holds
<1>11. Quiet(d, bitmap)
  BY <1>1, <1>6 DEF Quiet, Agree
<1>12. FsInv(p)'
  <2>1. Place(loc'[p], d, data, bitmap, buf[p], made', torn)
    BY <1>4, <1>11 DEF Place, Settled, AtIdle
  <2>2. QED  BY <1>4, <1>9, <1>10, <2>1 DEF FsInv
<1>13. Contents[n] = NONE /\ Contents' = [Contents EXCEPT ![n] = << >>]
  <2>1. Contents = Texted(root, data) /\ Contents' = Texted(d, data)
    BY <1>4, <1>5, <1>6, StoreIs
  <2>2. View(root)[n] = 0
    BY <1>1 DEF FreeFor
  <2>3. Texted(root, data)[n] = NONE /\ Texted(d, data)[n] = << >>
    BY <2>2, <1>1, <1>7, <1>8 DEF Texted
  <2>4. \A m \in Names \ {n} : Texted(d, data)[m] = Texted(root, data)[m]
    BY <1>8 DEF Texted
  <2>5. Texted(d, data) = [Texted(root, data) EXCEPT ![n] = << >>]
    BY <2>3, <2>4 DEF Texted
  <2>6. QED  BY <2>1, <2>3, <2>5
<1>14. Opened' = Opened
  BY <1>4 DEF Opened
<1>15. Store!Create(n)
  BY <1>13, <1>14 DEF Store!Create
<1>16. QED  BY <1>12, <1>15 DEF Follows, Store!Next

\* The directory goes back with an entry less: the file is gone.
LEMMA BackDelStep ==
    ASSUME NEW p, Procs = {p}, FsInv(p), del_rootdirfile_blk(p),
           BackDel(loc[p], root, bitmap, buf[p], made, torn)
    PROVE  FsInv(p)' /\ Follows
<1>1. PICK n \in Names :
        /\ View(root)[n] # 0 /\ n \notin made /\ (torn \/ Unopened(buf[p], n))
        /\ Agree(Used(root) \ {View(root)[n]}, Len(root), bitmap)
        /\ loc[p] = Back(NONE, n, Without(root, n))
  BY DEF BackDel
<1> DEFINE d == Without(root, n)
<1>2. loc[p].name = NONE /\ loc[p].dir = d
  BY <1>1 DEF Back
<1>3. /\ UNCHANGED <<bitmap, data, buf, made, torn>> /\ root' = d
      /\ DOMAIN loc' = Procs /\ loc'[p] = Idle
  BY <1>2 DEF del_rootdirfile_blk, FsInv
<1>4. DirOK(root) /\ data \in [Blocks -> Texts \cup {NONE}]
  BY DEF FsInv, Disk
<1>5. /\ DirOK(d) /\ Len(d) = Len(root) /\ Used(d) = Used(root) \ {View(root)[n]}
      /\ View(d) = [View(root) EXCEPT ![n] = 0]
  BY <1>1, <1>4, Deleted
<1> HIDE DEF d
<1>6. View(d)[n] = 0 /\ \A m \in Names \ {n} : View(d)[m] = View(root)[m]
  BY <1>5 DEF View
<1>7. Disk(d, data, bitmap, made)
  BY <1>1, <1>5, <1>6 DEF FsInv, Disk
<1>8. Holds(buf[p], d, torn)
  <2>1. Holds(buf[p], root, torn)
    BY DEF FsInv
  <2>2. ASSUME ~ torn, NEW h \in Hands, buf[p][h] # NONE
        PROVE  View(d)[buf[p][h].name] = buf[p][h].blk
    <3>1. /\ buf[p][h].name \in Names
          /\ View(root)[buf[p][h].name] = buf[p][h].blk
      BY <2>1, <2>2 DEF Holds, Buffer
    <3>2. buf[p][h].name # n
      BY <2>2, <1>1 DEF Unopened
    <3>3. QED  BY <3>1, <3>2, <1>6
  <2>3. QED  BY <2>1, <2>2 DEF Holds
<1>9. Quiet(d, bitmap)
  BY <1>1, <1>5 DEF Quiet, Agree
<1>10. FsInv(p)'
  <2>1. Place(loc'[p], d, data, bitmap, buf[p], made, torn)
    BY <1>3, <1>9 DEF Place, Settled, AtIdle
  <2>2. QED  BY <1>3, <1>7, <1>8, <2>1 DEF FsInv
<1>11. CASE torn
  BY <1>3, <1>10, <1>11 DEF Follows
<1>12. CASE ~ torn
  <2>1. Contents = Texted(root, data) /\ Contents' = Texted(d, data)
    BY <1>3, <1>4, <1>5, StoreIs
  <2>2. Texted(root, data)[n] # NONE /\ Texted(d, data)[n] = NONE
    <3>1. View(root)[n] \in Used(root)
      BY <1>1 DEF Used
    <3>2. data[View(root)[n]] # NONE
      BY <3>1 DEF FsInv, Disk
    <3>3. QED  BY <3>2, <1>1, <1>6 DEF Texted
  <2>3. \A m \in Names \ {n} : Texted(d, data)[m] = Texted(root, data)[m]
    BY <1>6 DEF Texted
  <2>4. Texted(d, data) = [Texted(root, data) EXCEPT ![n] = NONE]
    BY <2>2, <2>3 DEF Texted
  <2>5. Opened' = Opened
    BY <1>3 DEF Opened
  <2>6. \A x \in Procs \X Hands : Opened[x] # NONE => Opened[x].name # n
    <3>1. \A h \in Hands : buf[p][h] # NONE => buf[p][h].name # n
      BY <1>1, <1>12 DEF Unopened
    <3>2. \A h \in Hands : Opened[<<p, h>>] = Shown(buf[p][h])
      BY StoreIs
    <3>3. \A h \in Hands : Shown(buf[p][h]) # NONE => Shown(buf[p][h]).name # n
      BY ONLY <3>1 DEF Shown
    <3>4. QED  BY ONLY <3>2, <3>3, Procs = {p}
  <2>7. Store!Delete(n)
    BY <2>1, <2>2, <2>4, <2>5, <2>6 DEF Store!Delete
  <2>8. QED  BY <1>10, <2>7 DEF Follows, Store!Next
<1>13. QED  BY <1>11, <1>12

\* del_rootdirfile_blk in each of the three operations.
LEMMA BackStep ==
    ASSUME NEW p, Procs = {p}, FsInv(p), del_rootdirfile_blk(p)
    PROVE  FsInv(p)' /\ Follows
<1>1. \/ Quiet(root, bitmap) /\ BackSame(loc[p], root)
      \/ BackNew(loc[p], root, bitmap, data)
      \/ BackDel(loc[p], root, bitmap, buf[p], made, torn)
  BY PlaceIs DEF del_rootdirfile_blk, At, FsInv
<1>2. CASE Quiet(root, bitmap) /\ BackSame(loc[p], root)
  <2>1. PICK g \in Names \cup {NONE} : loc[p] = Back(NONE, g, root)
    BY <1>2 DEF BackSame
  <2>2. loc[p].name = NONE /\ loc[p].dir = root
    BY <2>1 DEF Back
  <2>3. UNCHANGED <<bitmap, root, data, buf, made, torn>> /\ DOMAIN loc' = Procs /\ loc'[p] = Idle
    BY <2>2 DEF del_rootdirfile_blk, FsInv
  <2>4. Place(loc'[p], root, data, bitmap, buf[p], made, torn)
    BY <1>2, <2>3 DEF Place, Settled, AtIdle
  <2>5. QED  BY <2>3, <2>4, Moves
<1>3. QED  BY <1>1, <1>2, BackNewStep, BackDelStep

\* rfs_del_file: the directory is copied.  A file deleted under a handle is
\* noticed here.
LEMMA DelFileStep ==
    ASSUME NEW p, Procs = {p}, FsInv(p), NEW n \in Names, rfs_del_file(p, n)
    PROVE  FsInv(p)' /\ Follows
<1> DEFINE i == FindFile(root, n)
           held == \E h \in Hands : buf[p][h] # NONE /\ buf[p][h].name = n
<1>1. Quiet(root, bitmap)
  BY IdleIs DEF rfs_del_file
<1>2. /\ UNCHANGED <<bitmap, root, data, buf>>
      /\ made' = made \ {n}
      /\ torn' = (torn \/ held)
      /\ DOMAIN loc' = Procs
      /\ loc'[p] = IF i = 0 THEN Back(NONE, n, root)
                   ELSE [pc |-> "del", gone |-> n, dir |-> root, slot |-> i]
  BY DEF rfs_del_file, FsInv
<1>3. Holds(buf[p], root, torn) /\ Disk(root, data, bitmap, made)
  BY DEF FsInv
<1>4. torn' \in BOOLEAN /\ (torn => torn') /\ (held => torn') /\ (~ torn' <=> ~ torn /\ ~ held)
  BY <1>2, <1>3 DEF Holds
<1>5. Holds(buf[p], root, torn')
  BY <1>3, <1>4 DEF Holds
<1>6. Disk(root, data, bitmap, made')
  BY <1>2, <1>3 DEF Disk
<1>7. torn' \/ Unopened(buf[p], n)
  BY <1>4 DEF Unopened
<1>8. i = 0 <=> View(root)[n] = 0
  BY <1>3, ViewIs DEF Disk
<1>9. BackSame(loc'[p], root) \/ AtDel(loc'[p], root, buf[p], made', torn')
  <2>1. CASE i = 0
    BY <2>1, <1>2 DEF BackSame
  <2>2. CASE i # 0
    <3>1. n \notin made'
      BY <1>2
    <3>2. loc'[p] = [pc |-> "del", gone |-> n, dir |-> root, slot |-> FindFile(root, n)]
      BY <1>2, <2>2
    <3>3. QED  BY ONLY <3>1, <3>2, <2>2, <1>7, <1>8, n \in Names DEF AtDel
  <2>3. QED  BY <2>1, <2>2
<1>10. Place(loc'[p], root, data, bitmap, buf[p], made', torn')
  BY <1>1, <1>9 DEF Place, Settled
<1>11. FsInv(p)'
  BY ONLY <1>2, <1>5, <1>6, <1>10, FsInv(p) DEF FsInv
<1>12. Contents' = Contents /\ Opened' = Opened
  BY <1>2 DEF Contents, Opened
<1>13. QED  BY ONLY <1>11, <1>12 DEF Follows, Store!vars

\* rfs_del_blk reads the map ...
LEMMA DelGetStep ==
    ASSUME NEW p, Procs = {p}, FsInv(p), DelGetBitmap(p)
    PROVE  FsInv(p)' /\ Follows
<1>1. Quiet(root, bitmap) /\ AtDel(loc[p], root, buf[p], made, torn)
  BY PlaceIs DEF DelGetBitmap, At, FsInv
<1>2. PICK n \in Names :
        /\ View(root)[n] # 0 /\ n \notin made /\ (torn \/ Unopened(buf[p], n))
        /\ loc[p] = [pc |-> "del", gone |-> n, dir |-> root, slot |-> FindFile(root, n)]
  BY <1>1 DEF AtDel
<1>3. UNCHANGED <<bitmap, root, data, buf, made, torn>>
  BY DEF DelGetBitmap
<1>4. /\ DOMAIN loc' = Procs
      /\ loc'[p] = [pc |-> "delblk", gone |-> n, dir |-> root,
                    slot |-> FindFile(root, n), map |-> bitmap]
  BY <1>2 DEF DelGetBitmap, FsInv
<1>5. AtDelblk(loc'[p], root, bitmap, buf[p], made, torn)
  BY ONLY <1>2, <1>4, n \in Names DEF AtDelblk
<1>6. Place(loc'[p], root, data, bitmap, buf[p], made, torn)
  BY <1>1, <1>5 DEF Place, Settled
<1>7. QED  BY <1>3, <1>4, <1>6, Moves

\* ... and writes it back without the block of the file.
LEMMA DelBlkStep ==
    ASSUME NEW p, Procs = {p}, FsInv(p), rfs_del_blk(p)
    PROVE  FsInv(p)' /\ Follows
<1>1. Quiet(root, bitmap) /\ AtDelblk(loc[p], root, bitmap, buf[p], made, torn)
  BY PlaceIs DEF rfs_del_blk, At, FsInv
<1>2. PICK n \in Names :
        /\ View(root)[n] # 0 /\ n \notin made /\ (torn \/ Unopened(buf[p], n))
        /\ loc[p] = [pc |-> "delblk", gone |-> n, dir |-> root,
                     slot |-> FindFile(root, n), map |-> bitmap]
  BY <1>1 DEF AtDelblk
<1>3. root[FindFile(root, n)].blk = View(root)[n]
  BY <1>2, ViewIs DEF FsInv, Disk
<1>4. /\ loc[p].map = bitmap /\ loc[p].gone = n
      /\ loc[p].dir = root /\ loc[p].slot = FindFile(root, n)
  <2>1. loc[p] = [pc |-> "delblk", gone |-> n, dir |-> root,
                  slot |-> FindFile(root, n), map |-> bitmap]
    BY ONLY <1>2
  <2>2. QED  BY ONLY <2>1
<1>5. UNCHANGED <<root, data, buf, made, torn>> /\ bitmap' = bitmap \ {View(root)[n]}
  BY ONLY <1>3, <1>4, rfs_del_blk(p) DEF rfs_del_blk
<1>6. DOMAIN loc' = Procs /\ loc'[p] = Back(NONE, n, Without(root, n))
  <2>1. DOMAIN loc = Procs
    BY DEF FsInv
  <2>2. QED  BY ONLY <1>4, <2>1, Procs = {p}, rfs_del_blk(p) DEF rfs_del_blk, Without, Gone
<1>7. Agree(Used(root) \ {View(root)[n]}, Len(root), bitmap')
  BY <1>1, <1>5 DEF Quiet, Agree
<1>8. BackDel(loc'[p], root, bitmap', buf[p], made, torn)
  BY ONLY <1>2, <1>6, <1>7, n \in Names DEF BackDel
<1>9. Place(loc'[p], root, data, bitmap', buf[p], made, torn)
  BY <1>8 DEF Place
<1>10. bitmap' \subseteq Blocks
  BY <1>5 DEF FsInv, Disk
<1>11. QED  BY ONLY <1>5, <1>6, <1>9, <1>10, Marks, Procs = {p}, FsInv(p)

\* rfs_open_file: the directory is copied.
LEMMA OpenFileStep ==
    ASSUME NEW p, Procs = {p}, FsInv(p), NEW n \in Names, NEW h \in Hands, rfs_open_file(p, n, h)
    PROVE  FsInv(p)' /\ Follows
<1> DEFINE k == n \in made
<1>1. Quiet(root, bitmap)
  BY IdleIs DEF rfs_open_file
<1>2. k \in BOOLEAN /\ (k => n \in made)
  OBVIOUS
<1>3. /\ buf[p][h] = NONE /\ DOMAIN loc' = Procs
      /\ loc'[p] = [pc |-> "open", name |-> n, hand |-> h, dir |-> root, known |-> k]
  BY DEF rfs_open_file, FsInv
<1> HIDE DEF k
<1>4. AtOpen(loc'[p], root, buf[p], made)
  BY <1>2, <1>3 DEF AtOpen
<1>5. UNCHANGED <<bitmap, root, data, buf, made, torn>>
  BY DEF rfs_open_file
<1>6. Place(loc'[p], root, data, bitmap, buf[p], made, torn)
  BY <1>1, <1>4 DEF Place, Settled
<1>7. QED  BY ONLY <1>3, <1>5, <1>6, Moves, Procs = {p}, FsInv(p)

\* What the user sees when one handle changes (open, write, close).
LEMMA OpenOne ==
    ASSUME NEW p, Procs = {p}, FsInv(p), NEW h \in Hands, NEW b,
           buf'[p] = Put(buf[p], h, b)
    PROVE  /\ Opened[<<p, h>>] = Shown(buf[p][h])
           /\ Opened' = Put(Opened, <<p, h>>, Shown(b))
           /\ Opened'[<<p, h>>] = Shown(b)
           /\ \A g \in Hands : buf'[p][g] = IF g = h THEN b ELSE buf[p][g]
<1> DEFINE X == Procs \X Hands
           y == <<p, h>>
<1>1. DOMAIN buf[p] = Hands
  BY DEF FsInv, Holds
<1>2. \A g \in Hands : buf'[p][g] = IF g = h THEN b ELSE buf[p][g]
  BY <1>1 DEF Put
<1>3. \A g \in Hands : Opened'[<<p, g>>] = Shown(buf'[p][g]) /\ Opened[<<p, g>>] = Shown(buf[p][g])
  BY StoreIs
<1>4. \A x \in X : Opened'[x] = IF x = y THEN Shown(b) ELSE Opened[x]
  <2> SUFFICES ASSUME NEW g \in Hands
               PROVE  Opened'[<<p, g>>] = IF <<p, g>> = <<p, h>> THEN Shown(b) ELSE Opened[<<p, g>>]
    OBVIOUS
  <2>1. QED  BY <1>2, <1>3
<1>5. Opened = [x \in X |-> Opened[x]] /\ Opened' = [x \in X |-> Opened'[x]] /\ y \in X
  BY DEF Opened
<1>6. Opened' = Put(Opened, y, Shown(b))
  <2> HIDE DEF X, y
  <2>1. QED  BY ONLY <1>4, <1>5 DEF Put
<1>7. QED  BY <1>2, <1>3, <1>6

NoFile(l) == [l EXCEPT !.pc = "nofile"]

\* The place of an open that found no file.
LEMMA NoFileIs ==
    ASSUME NEW n, NEW h, NEW d, NEW k
    PROVE  NoFile([pc |-> "open", name |-> n, hand |-> h, dir |-> d, known |-> k])
             = [pc |-> "nofile", name |-> n, hand |-> h, dir |-> d, known |-> k]
  BY DEF NoFile

\* rfs_openfileblk copies the block of the file, if there is one.
LEMMA OpenReadStep ==
    ASSUME NEW p, Procs = {p}, FsInv(p), OpenRead(p)
    PROVE  FsInv(p)' /\ Follows
<1>1. Quiet(root, bitmap) /\ AtOpen(loc[p], root, buf[p], made)
  BY PlaceIs DEF OpenRead, At, FsInv
<1>2. PICK n \in Names, h \in Hands, k \in BOOLEAN :
        /\ buf[p][h] = NONE /\ (k => n \in made)
        /\ loc[p] = [pc |-> "open", name |-> n, hand |-> h, dir |-> root, known |-> k]
  BY <1>1 DEF AtOpen
<1> DEFINE b == View(root)[n]
<1>3. Disk(root, data, bitmap, made) /\ Holds(buf[p], root, torn) /\ DOMAIN loc = Procs
  BY DEF FsInv
<1>4. /\ FindFile(root, n) = 0 <=> b = 0
      /\ FindFile(root, n) # 0 => root[FindFile(root, n)].blk = b
      /\ b \in Blocks \cup {0}
  BY <1>3, ViewIs DEF Disk
<1>5. b # 0 => b \in Used(root) /\ data[b] # NONE
  BY <1>3 DEF Disk, Used
<1>6. n \in made => b # 0
  BY <1>3 DEF Disk
<1>7. UNCHANGED <<bitmap, root, data, made, torn>>
  BY DEF OpenRead
<1>8. CASE b # 0
  <2> DEFINE r == [name |-> n, blk |-> b, text |-> data[b]]
  <2>1. FindFile(root, n) # 0 /\ root[FindFile(root, n)].blk = b /\ data[b] # NONE
    BY <1>4, <1>5, <1>8
  <2>2. buf' = [buf EXCEPT ![p][h] = r] /\ loc' = [loc EXCEPT ![p] = Back(NONE, NONE, root)]
    BY <1>2, <2>1 DEF OpenRead
  <2>3. r \in Buffer /\ Shown(r) = [name |-> n, text |-> data[b]]
    <3>1. data[b] \in Texts /\ b \in Blocks
      BY <1>3, <1>4, <1>8, <2>1 DEF Disk
    <3>2. r \in Buffer
      BY <3>1 DEF Buffer
    <3>3. r # NONE
      BY <3>2, Nones
    <3>4. QED  BY <3>2, <3>3 DEF Shown
  <2>4. r.name = n /\ r.blk = b
    OBVIOUS
  <2> HIDE DEF r, b
  <2>5. DOMAIN buf' = Procs /\ buf'[p] = Put(buf[p], h, r)
    BY <2>2 DEF FsInv, Put
  <2>6. /\ Opened[<<p, h>>] = Shown(buf[p][h])
        /\ Opened' = Put(Opened, <<p, h>>, Shown(r))
        /\ \A g \in Hands : buf'[p][g] = IF g = h THEN r ELSE buf[p][g]
    BY ONLY <2>5, OpenOne, Procs = {p}, FsInv(p), h \in Hands
  <2>7. Holds(buf'[p], root, torn)
    <3>1. buf'[p] \in [Hands -> Buffer \cup {NONE}]
      BY ONLY <2>3, <2>5, <1>3 DEF Holds, Put
    <3>2. View(root)[r.name] = r.blk
      BY <2>4 DEF b
    <3>3. QED  BY ONLY <3>1, <3>2, <2>6, <1>3 DEF Holds
  <2>8. Place(loc'[p], root, data, bitmap, buf'[p], made, torn)
    <3>1. BackSame(loc'[p], root)
      BY <2>2, <1>3 DEF BackSame
    <3>2. QED  BY <1>1, <3>1 DEF Place, Settled
  <2>9. FsInv(p)'
    BY ONLY <1>7, <1>3, <2>2, <2>5, <2>7, <2>8 DEF FsInv
  <2>10. Contents[n] = data[b] /\ Contents' = Contents
    <3>1. Contents = Texted(root, data)
      BY <1>3, StoreIs DEF Disk
    <3>2. Texted(root, data)[n] = data[b]
      BY <1>8 DEF Texted, b
    <3>3. QED  BY <3>1, <3>2, <1>7 DEF Contents
  <2>11. Opened[<<p, h>>] = NONE
    BY <2>6, <1>2 DEF Shown
  <2>12. Store!Open(<<p, h>>, n)
    BY ONLY <2>1, <2>3, <2>6, <2>10, <2>11 DEF Store!Open, Put
  <2>13. <<p, h>> \in Procs \X Hands
    OBVIOUS
  <2>14. QED  BY ONLY <2>9, <2>12, <2>13, n \in Names DEF Follows, Store!Next
<1>9. CASE b = 0
  <2>1. FindFile(root, n) = 0 /\ n \notin made /\ k = FALSE
    BY <1>2, <1>4, <1>6, <1>9
  <2>2. buf' = buf /\ loc' = [loc EXCEPT ![p].pc = "nofile"]
    BY <1>2, <2>1 DEF OpenRead
  <2>3. DOMAIN loc' = Procs /\ loc'[p] = NoFile(loc[p])
    BY <2>2, <1>3 DEF NoFile
  <2>4. loc'[p] = [pc |-> "nofile", name |-> n, hand |-> h, dir |-> root, known |-> k]
    BY ONLY <2>3, <1>2, NoFileIs
  <2>5. loc'[p] = [pc |-> "nofile", name |-> n, hand |-> h, dir |-> root, known |-> FALSE]
    BY ONLY <2>1, <2>4, Zenon
  <2>6. AtNofile(loc'[p], root)
    BY <2>5 DEF AtNofile
  <2>7. Place(loc'[p], root, data, bitmap, buf[p], made, torn)
    BY <1>1, <2>6 DEF Place, Settled
  <2>8. QED  BY ONLY <1>7, <2>2, <2>3, <2>7, Moves, Procs = {p}, FsInv(p)
<1>10. QED  BY <1>8, <1>9

\* rfs_openfileblk returns NULL.
LEMMA OpenFailsStep ==
    ASSUME NEW p, Procs = {p}, FsInv(p), OpenFails(p)
    PROVE  FsInv(p)' /\ Follows
<1>1. Quiet(root, bitmap) /\ AtNofile(loc[p], root)
  BY PlaceIs DEF OpenFails, At, FsInv
<1>2. PICK n \in Names, h \in Hands :
        loc[p] = [pc |-> "nofile", name |-> n, hand |-> h, dir |-> root, known |-> FALSE]
  BY <1>1 DEF AtNofile
<1>3. UNCHANGED <<bitmap, root, data, buf, made, torn>>
  BY <1>2 DEF OpenFails
<1>4. DOMAIN loc' = Procs /\ loc'[p] = [pc |-> "openerr", name |-> NONE]
  BY <1>2 DEF OpenFails, FsInv
<1>5. Place(loc'[p], root, data, bitmap, buf[p], made, torn)
  BY <1>1, <1>4 DEF Place, Settled, AtIdle
<1>6. QED  BY <1>3, <1>4, <1>5, Moves

\* What a handle holds goes to the block it knows: to its own file, unless a
\* file was deleted under a handle.
LEMMA Saves ==
    ASSUME NEW p, Procs = {p}, FsInv(p), NEW h \in Hands, buf[p][h] # NONE, NEW t \in Texts,
           data' = Put(data, buf[p][h].blk, t), UNCHANGED <<bitmap, root, made, torn>>
    PROVE  /\ Disk(root', data', bitmap', made')
           /\ ~ torn => Contents' = Put(Contents, buf[p][h].name, t)
<1> DEFINE b == buf[p][h].blk
           n == buf[p][h].name
<1>1. Disk(root, data, bitmap, made) /\ Holds(buf[p], root, torn)
  BY DEF FsInv
<1>2. b \in Blocks /\ n \in Names
  BY <1>1 DEF Holds, Buffer
<1>3. ~ torn => View(root)[n] = b
  BY <1>1 DEF Holds
<1>4. t # NONE /\ b # 0
  BY <1>2, Nones
<1> HIDE DEF b, n
<1>5. data' = Put(data, b, t)
  BY DEF b
<1>6. Disk(root', data', bitmap', made')
  <2>1. /\ data' \in [Blocks -> Texts \cup {NONE}]
        /\ \A c \in Blocks : data'[c] = IF c = b THEN t ELSE data[c]
    BY ONLY <1>1, <1>2, <1>5, t \in Texts DEF Disk, Put
  <2>2. Used(root) \subseteq Blocks
    BY <1>1, ViewApart DEF Disk
  <2>3. \A c \in Used(root) : data'[c] # NONE
    BY ONLY <2>1, <2>2, <1>1, <1>4 DEF Disk
  <2>4. QED  BY <1>1, <2>1, <2>3 DEF Disk
<1>7. ASSUME ~ torn PROVE Contents' = Put(Contents, n, t)
  <2>1. DirOK(root) /\ DOMAIN data = Blocks /\ View(root)[n] # 0
    BY <1>1, <1>3, <1>4, <1>7 DEF Disk
  <2>2. Texted(root, Put(data, View(root)[n], t)) = Put(Texted(root, data), n, t)
    BY ONLY <2>1, <1>2, TextedWrite
  <2>3. Texted(root, data') = Put(Texted(root, data), n, t)
    BY ONLY <2>2, <1>3, <1>5, <1>7
  <2>4. Contents = Texted(root, data) /\ Contents' = Texted(root, data')
    BY <2>1, StoreIs
  <2>5. QED  BY ONLY <2>3, <2>4
<1>8. QED  BY <1>6, <1>7 DEF n

\* What a handle shows after a write.
LEMMA Longer ==
    ASSUME NEW n, NEW s, NEW v
    PROVE  [[name |-> n, text |-> s] EXCEPT !.text = Append(@, v)]
             = [name |-> n, text |-> Append(s, v)]
  OBVIOUS

\* rfs_writefileblk: the handle's copy grows, and goes to the block.
LEMMA WriteStep ==
    ASSUME NEW p, Procs = {p}, FsInv(p), NEW h \in Hands, NEW v \in Vals, rfs_writefileblk(p, h, v)
    PROVE  FsInv(p)' /\ Follows
<1>1. Quiet(root, bitmap) /\ AtIdle(loc[p])
  BY IdleIs DEF rfs_writefileblk
<1>2. Holds(buf[p], root, torn) /\ DOMAIN buf = Procs /\ DOMAIN loc = Procs
  BY DEF FsInv
<1>3. buf[p][h] # NONE /\ UNCHANGED <<bitmap, root, loc, made, torn>>
  BY DEF rfs_writefileblk
<1>4. buf[p][h] \in Buffer /\ DOMAIN buf[p] = Hands
  BY <1>2, <1>3 DEF Holds
<1> DEFINE t == Append(buf[p][h].text, v)
           r == [buf[p][h] EXCEPT !.text = t]
<1>5. DOMAIN buf' = Procs /\ buf'[p] = Put(buf[p], h, r)
  BY <1>2, <1>4 DEF rfs_writefileblk, Put
<1>6. t \in Texts
  BY <1>4 DEF Buffer, Texts
<1>7. r \in Buffer /\ r.name = buf[p][h].name /\ r.blk = buf[p][h].blk /\ r.text = t
  BY <1>4, <1>6 DEF Buffer
<1> HIDE DEF t, r
<1>8. /\ Opened[<<p, h>>] = Shown(buf[p][h])
      /\ Opened' = Put(Opened, <<p, h>>, Shown(r))
      /\ Opened'[<<p, h>>] = Shown(r)
      /\ \A g \in Hands : buf'[p][g] = IF g = h THEN r ELSE buf[p][g]
  BY ONLY <1>5, OpenOne, Procs = {p}, FsInv(p), h \in Hands
<1>9. buf'[p][h] = r
  BY <1>8
<1>10. data' = Put(data, buf[p][h].blk, t)
  BY <1>7, <1>9 DEF rfs_writefileblk, Put
<1>11. /\ Disk(root', data', bitmap', made')
       /\ ~ torn => Contents' = Put(Contents, buf[p][h].name, t)
  BY ONLY <1>3, <1>6, <1>10, Saves, Procs = {p}, FsInv(p), h \in Hands
<1>12. Holds(buf'[p], root, torn)
  <2>1. buf'[p] \in [Hands -> Buffer \cup {NONE}]
    BY ONLY <1>2, <1>5, <1>7 DEF Holds, Put
  <2>2. QED  BY ONLY <2>1, <1>2, <1>3, <1>7, <1>8, h \in Hands DEF Holds
<1>13. Place(loc[p], root, data', bitmap, buf'[p], made, torn)
  BY <1>1 DEF Place, Settled
<1>14. FsInv(p)'
  BY ONLY <1>2, <1>3, <1>5, <1>11, <1>12, <1>13 DEF FsInv
<1>15. CASE torn
  BY ONLY <1>3, <1>14, <1>15 DEF Follows
<1>16. CASE ~ torn
  <2> DEFINE x == <<p, h>>
             n == buf[p][h].name
  <2>1. /\ Opened[x] = [name |-> n, text |-> buf[p][h].text] /\ Opened[x] # NONE
        /\ Shown(r) = [name |-> n, text |-> t]
    <3>1. r # NONE
      BY <1>7, Nones
    <3>2. [name |-> n, text |-> buf[p][h].text] \in [name : Names, text : Texts]
      BY <1>4 DEF Buffer
    <3>3. QED  BY <3>1, <3>2, <1>3, <1>7, <1>8, Nones DEF Shown
  <2> HIDE DEF x, n
  <2>2. [Opened[x] EXCEPT !.text = Append(@, v)] = [name |-> n, text |-> t]
    <3>1. Opened[x] = [name |-> n, text |-> buf[p][h].text]
      BY <2>1
    <3>2. QED  BY ONLY <3>1, Longer DEF t
  <2>3. Opened' = [Opened EXCEPT ![x].text = Append(@, v)]
    <3>1. Opened' = Put(Opened, x, [name |-> n, text |-> t])
      BY ONLY <2>1, <1>8 DEF x
    <3>2. QED  BY ONLY <3>1, <2>2 DEF Put
  <2>4. Opened'[x].text = t /\ Opened[x].name = n
    BY ONLY <2>1, <1>8 DEF x
  <2>5. Store!Write(x, v)
    <3>1. Contents' = [Contents EXCEPT ![n] = t]
      BY ONLY <1>11, <1>16 DEF Put, n
    <3>2. QED  BY ONLY <2>1, <2>3, <2>4, <3>1 DEF Store!Write
  <2>6. x \in Procs \X Hands
    BY DEF x
  <2>7. QED  BY ONLY <1>14, <2>5, <2>6, v \in Vals DEF Follows, Store!Next
<1>17. QED  BY <1>15, <1>16

\* rfs_closefileblk: the handle's copy goes to the block, and the handle is
\* free.
LEMMA CloseStep ==
    ASSUME NEW p, Procs = {p}, FsInv(p), NEW h \in Hands, rfs_closefileblk(p, h)
    PROVE  FsInv(p)' /\ Follows
<1>1. Quiet(root, bitmap) /\ AtIdle(loc[p])
  BY IdleIs DEF rfs_closefileblk
<1>2. Holds(buf[p], root, torn) /\ DOMAIN buf = Procs /\ DOMAIN loc = Procs
  BY DEF FsInv
<1>3. buf[p][h] # NONE /\ UNCHANGED <<bitmap, root, loc, made, torn>>
  BY DEF rfs_closefileblk
<1>4. buf[p][h] \in Buffer /\ DOMAIN buf[p] = Hands
  BY <1>2, <1>3 DEF Holds
<1> DEFINE t == buf[p][h].text
<1>5. DOMAIN buf' = Procs /\ buf'[p] = Put(buf[p], h, NONE)
  BY <1>2, <1>4 DEF rfs_closefileblk, Put
<1>6. t \in Texts /\ data' = Put(data, buf[p][h].blk, t)
  BY <1>4 DEF Buffer, rfs_closefileblk, Put
<1> HIDE DEF t
<1>7. /\ Opened[<<p, h>>] = Shown(buf[p][h])
      /\ Opened' = Put(Opened, <<p, h>>, Shown(NONE))
      /\ \A g \in Hands : buf'[p][g] = IF g = h THEN NONE ELSE buf[p][g]
  BY ONLY <1>5, OpenOne, Procs = {p}, FsInv(p), h \in Hands
<1>8. /\ Disk(root', data', bitmap', made')
      /\ ~ torn => Contents' = Put(Contents, buf[p][h].name, t)
  BY ONLY <1>3, <1>6, Saves, Procs = {p}, FsInv(p), h \in Hands
<1>9. Holds(buf'[p], root, torn)
  <2>1. buf'[p] \in [Hands -> Buffer \cup {NONE}]
    BY ONLY <1>2, <1>5 DEF Holds, Put
  <2>2. QED  BY ONLY <2>1, <1>2, <1>7 DEF Holds
<1>10. Place(loc[p], root, data', bitmap, buf'[p], made, torn)
  BY <1>1 DEF Place, Settled
<1>11. FsInv(p)'
  BY ONLY <1>2, <1>3, <1>5, <1>8, <1>9, <1>10 DEF FsInv
<1>12. CASE torn
  BY ONLY <1>3, <1>11, <1>12 DEF Follows
<1>13. CASE ~ torn
  <2>1. Opened[<<p, h>>] = [name |-> buf[p][h].name, text |-> t] /\ Opened[<<p, h>>] # NONE
    <3>1. [name |-> buf[p][h].name, text |-> t] \in [name : Names, text : Texts]
      BY <1>4, <1>6 DEF Buffer
    <3>2. QED  BY <3>1, <1>3, <1>7, Nones DEF Shown, t
  <2>2. Shown(NONE) = NONE
    BY DEF Shown
  <2>3. Store!Close(<<p, h>>)
    BY ONLY <2>1, <2>2, <1>7, <1>8, <1>13 DEF Store!Close, Put
  <2>4. <<p, h>> \in Procs \X Hands
    OBVIOUS
  <2>5. QED  BY ONLY <1>11, <2>3, <2>4 DEF Follows, Store!Next
<1>14. QED  BY <1>12, <1>13

-----------------------------------------------------------------------------
(* The theorems: one caller, any names, handles, blocks and entries.       *)

\* At the start there is no file.
LEMMA FsInit ==
    ASSUME NEW p, Procs = {p}, Init
    PROVE  FsInv(p) /\ Store!Init
<1>1. /\ bitmap = {} /\ root = << >> /\ made = {} /\ torn = FALSE
      /\ data = [b \in Blocks |-> NONE] /\ loc[p] = Idle /\ DOMAIN loc = Procs
      /\ DOMAIN buf = Procs /\ buf[p] = [h \in Hands |-> NONE]
  BY DEF Init
<1>2. Len(root) = 0 /\ Files(root) = {} /\ root \in Seq(Entry)
  BY <1>1 DEF Files
<1>3. DirOK(root)
  BY <1>2, RfsAssumption DEF DirOK
<1>4. \A n \in Names : View(root)[n] = 0
  BY <1>2, <1>3, ViewIs
<1>5. Used(root) = {}
  BY <1>4 DEF Used
<1>6. Disk(root, data, bitmap, made)
  BY <1>1, <1>3, <1>5 DEF Disk
<1>7. Holds(buf[p], root, torn)
  BY <1>1 DEF Holds
<1>8. Quiet(root, bitmap)
  BY <1>1, <1>5 DEF Quiet, Agree
<1>9. Place(loc[p], root, data, bitmap, buf[p], made, torn)
  BY <1>1, <1>8 DEF Place, Settled, AtIdle
<1>10. FsInv(p)
  BY <1>1, <1>6, <1>7, <1>9 DEF FsInv
<1>11. Contents = [n \in Names |-> NONE]
  <2>1. Contents = Texted(root, data)
    BY <1>3, StoreIs
  <2>2. QED  BY <2>1, <1>4 DEF Texted
<1>12. Opened = [x \in Procs \X Hands |-> NONE]
  <2>1. \A x \in Procs \X Hands : buf[x[1]][x[2]] = NONE
    BY <1>1
  <2>2. QED  BY <2>1, StoreIs DEF Shown
<1>13. QED  BY <1>10, <1>11, <1>12 DEF Store!Init

\* Every step keeps the invariant and is one of named files.
LEMMA FsStep ==
    ASSUME NEW p, Procs = {p}, FsInv(p), [Next]_vars
    PROVE  FsInv(p)' /\ Follows
<1>1. CASE UNCHANGED vars
  <2>1. UNCHANGED <<bitmap, root, data, buf, made, torn>> /\ loc' = loc
    BY <1>1 DEF vars
  <2>2. DOMAIN loc' = Procs /\ Place(loc'[p], root, data, bitmap, buf[p], made, torn)
    BY <2>1 DEF FsInv
  <2>3. QED  BY <2>1, <2>2, Moves
<1>2. CASE Next
  <2>1. \/ \E n \in Names : rfs_new_file(p, n) \/ rfs_del_file(p, n)
        \/ rfs_chkfileisindev(p) \/ get_bitmapblk(p) \/ rfs_new_blk(p)
        \/ rfs_new_dirfileblk(p) \/ WriteNewHead(p) \/ del_rootdirfile_blk(p)
        \/ DelGetBitmap(p) \/ rfs_del_blk(p)
        \/ \E n \in Names, h \in Hands : rfs_open_file(p, n, h)
        \/ OpenRead(p) \/ OpenFails(p)
        \/ \E h \in Hands : \/ \E v \in Vals : rfs_writefileblk(p, h, v)
                            \/ rfs_closefileblk(p, h)
    BY <1>2 DEF Next
  <2>2. QED
    BY ONLY <2>1, Procs = {p}, FsInv(p), NewFileStep, DelFileStep, ChkStep, GetBitmapStep,
            NewBlkStep, NewDirStep, NewHeadStep, BackStep, DelGetStep, DelBlkStep,
            OpenFileStep, OpenReadStep, OpenFailsStep, WriteStep, CloseStep
<1>3. QED  BY <1>1, <1>2

\* The invariant holds at all times.
LEMMA FsAlways ==
    ASSUME NEW p, Procs = {p}
    PROVE  Spec => []FsInv(p)
<1>1. Init => FsInv(p)
  BY FsInit
<1>2. FsInv(p) /\ [Next]_vars => FsInv(p)'
  BY FsStep
<1>3. QED  BY <1>1, <1>2, PTL DEF Spec

\* Directory and map agree when one thread calls the file system: names and
\* blocks of files are distinct, and no block is marked without need before
\* the directory is full.
THEOREM DirectoryExactCorrect ==
    ASSUME NEW p, Procs = {p}
    PROVE  Spec => []DirectoryExact
<1>1. FsInv(p) => DirectoryExact
  <2> SUFFICES ASSUME FsInv(p) PROVE DirectoryExact
    OBVIOUS
  <2>1. DirOK(root) /\ \A b \in Used(root) : data[b] # NONE
    BY DEF FsInv, Disk
  <2>2. Live = Files(root)
    BY <2>1 DEF Live, Files, DirOK
  <2>3. Used(root) = {root[i].blk : i \in Files(root)}
    BY <2>1, ViewApart
  <2>4. (\A q \in Procs : IsIdle(q)) => Quiet(root, bitmap)
    BY IdleIs
  <2>5. Len(root) <= SLOTS /\ \A i, j \in Live :
          i # j => root[i].name # root[j].name /\ root[i].blk # root[j].blk
    BY ONLY <2>1, <2>2 DEF DirOK
  <2>6. \A i \in Live : data[root[i].blk] # NONE
    BY ONLY <2>1, <2>2, <2>3
  <2>7. Used(root) = {root[i].blk : i \in Live}
    BY ONLY <2>2, <2>3
  <2>8. QED  BY ONLY <2>4, <2>5, <2>6, <2>7 DEF DirectoryExact, Quiet, Agree
<1>2. QED  BY <1>1, FsAlways, PTL

\* A file that was made and is not deleted can be opened, when one thread
\* calls the file system.
THEOREM NewFileOpensCorrect ==
    ASSUME NEW p, Procs = {p}
    PROVE  Spec => []NewFileOpens
<1>1. FsInv(p) => NewFileOpens
  <2> SUFFICES ASSUME FsInv(p), At(p, "openerr") PROVE loc[p].name \notin made
    BY DEF NewFileOpens
  <2>1. AtIdle(loc[p]) /\ loc[p].pc = "openerr"
    BY IdleIs DEF IsIdle, At
  <2>2. loc[p].name = NONE
    BY <2>1 DEF AtIdle, Idle
  <2>3. made \subseteq Names
    BY DEF FsInv, Disk
  <2>4. QED  BY <2>2, <2>3, Nones
<1>2. QED  BY <1>1, FsAlways, PTL

\* Map, directory and blocks implement named files, when one thread calls the
\* file system and until a file is deleted while it is open.
THEOREM FileStoreImplemented ==
    ASSUME NEW p, Procs = {p}
    PROVE  Spec => ImplementsFileStore
<1>1. Init => Store!Init
  BY FsInit
<1>2. FsInv(p) /\ [Next]_vars => [Store!Next \/ torn']_(Store!vars)
  BY FsStep DEF Follows
<1>3. QED  BY <1>1, <1>2, FsAlways, PTL DEF Spec, ImplementsFileStore
=============================================================================
