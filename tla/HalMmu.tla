------------------------------- MODULE HalMmu -------------------------------
(***************************************************************************)
(* The four-level page tables of hal/x86/halmmu.c: a root table (tdire) per *)
(* address space, and tables of sdire, idire and mdire entries that are made *)
(* on the way to the first page they map and given back with the last one.  *)
(*                                                                          *)
(* A virtual page is the sequence of its four indices. Levels are numbered  *)
(* 1 (tdire) to 4 (mdire). An entry is NULL or the page it points to: the   *)
(* access bits are the same in every entry and are left out, and so is the  *)
(* kernel half of the root, which every root takes from the boot tables and *)
(* no operation on user addresses touches. Operations on one descriptor run *)
(* under mud_lock with interrupts off, hence each is one step; the processor *)
(* may read the tables between any two of them.                             *)
(***************************************************************************)
EXTENDS Integers, FiniteSets

CONSTANTS
    Mmus,            \* descriptors of address spaces
    Idx,             \* indices of a table (512 of them in the code)
    Vadrs,           \* virtual pages: sequences of four indices
    Frames,          \* kernel pages that tables can be made of
    Pages,           \* pages of the user area
    NULL

ASSUME MmuAssumption ==
    /\ Vadrs \subseteq [1 .. 4 -> Idx]
    /\ IsFiniteSet(Frames) /\ Frames # {}
    /\ Frames \cap Pages = {}
    /\ NULL \notin Frames \cup Pages

VARIABLES
    dir,             \* dir[f]: the entries of the table in page f
    free,            \* the pages of Frames nobody has
    mmu,             \* mmudsc_t: mud_tdirearr, and per level the list of the
                     \* pages its tables are in and their number
    live,            \* the descriptors in use
    curr,            \* the address space of the running thread
    cr3,             \* the root the processor walks
    tlb              \* the translations it remembers

vars == <<dir, free, mmu, live, curr, cr3, tlb>>

Zero == [i \in Idx |-> NULL]

mmudsc_t_init == [tdirearr |-> NULL, head |-> [l \in 1 .. 4 |-> {}], msanr |-> [l \in 1 .. 4 |-> 0]]

\* The tables on the way to v: WalkFrom(d, r, v)[l] is the one at level l, and
\* the page itself at level 5.
WalkFrom(d, r, v) ==
    LET Ent(t, i) == IF t = NULL THEN NULL ELSE d[t][i]
        t2 == Ent(r, v[1])
        t3 == Ent(t2, v[2])
        t4 == Ent(t3, v[3])
    IN  <<r, t2, t3, t4, Ent(t4, v[4])>>

-----------------------------------------------------------------------------
(* The operations work on a record s: the tables d, the free pages f, the    *)
(* descriptor m, and the table they have reached, at.                        *)

\* A new table of level l. mm_division_pages may fail: s.at is then NULL.
mmu_new_direarr(s, l) ==
    IF s.f = {} THEN [s EXCEPT !.at = NULL]
    ELSE LET new == CHOOSE p \in s.f : TRUE
         IN [s EXCEPT !.f = @ \ {new}, !.d[new] = Zero, !.at = new,
                      !.m.head[l] = @ \cup {new}, !.m.msanr[l] = @ + 1]

mmu_new_sdirearr(s) == mmu_new_direarr(s, 2)
mmu_new_idirearr(s) == mmu_new_direarr(s, 3)
mmu_new_mdirearr(s) == mmu_new_direarr(s, 4)

\* Table t of level l goes back to the page allocator if the list has it.
mmu_del_direarr(s, t, l) ==
    IF t \in s.m.head[l]
    THEN [s EXCEPT !.f = @ \cup {t}, !.m.head[l] = @ \ {t}, !.m.msanr[l] = @ - 1]
    ELSE s

mmu_del_sdirearr(s, t) == mmu_del_direarr(s, t, 2)
mmu_del_idirearr(s, t) == mmu_del_direarr(s, t, 3)
mmu_del_mdirearr(s, t) == mmu_del_direarr(s, t, 4)

\* The table that entry i of s.at leads to, made by New if there is none.
Descend(s, i, new) ==
    IF s.at = NULL THEN s
    ELSE IF s.d[s.at][i] # NULL THEN [s EXCEPT !.at = s.d[s.at][i]]
    ELSE IF new.at = NULL THEN new
    ELSE [new EXCEPT !.d[s.at][i] = new.at]

mmu_transform_sdire(s, v) == Descend(s, v[1], mmu_new_sdirearr(s))
mmu_transform_idire(s, v) == Descend(s, v[2], mmu_new_idirearr(s))
mmu_transform_mdire(s, v) == Descend(s, v[3], mmu_new_mdirearr(s))

\* The table that entry i of table t leads to is given up if it is all zero.
Prune(s, t, i, Del(_, _)) ==
    LET sub == s.d[t][i]
    IN  IF sub # NULL /\ s.d[sub] = Zero
        THEN [Del(s, sub) EXCEPT !.d[t][i] = NULL]
        ELSE s

mmu_untransform_sdire(s, t, v) == Prune(s, t, v[1], mmu_del_sdirearr)
mmu_untransform_idire(s, t, v) == Prune(s, t, v[2], mmu_del_idirearr)

UntransformFull(s, t, v) ==
    [mmu_del_mdirearr(s, s.d[t][v[3]]) EXCEPT !.d[t][v[3]] = NULL]

mmu_untransform_mdire(s, t, v) == Prune(s, t, v[3], mmu_del_mdirearr)

mmu_untransform_msa(s, t, v) == [s EXCEPT !.d[t][v[4]] = NULL]

mmu_transform_msa(s, v, p) == [s EXCEPT !.d[s.at][v[4]] = p]

NoUndo(s, v, p) ==
    LET s3 == mmu_transform_mdire(mmu_transform_idire(mmu_transform_sdire(
                  [s EXCEPT !.at = s.m.tdirearr], v), v), v)
    IN  IF s3.at = NULL THEN s3 ELSE mmu_transform_msa(s3, v, p)

\* The tables made on the way to a table that could not be made are undone.
hal_mmu_transform_core(s, v, p) ==
    LET root == s.m.tdirearr
        s1 == mmu_transform_sdire([s EXCEPT !.at = root], v)
        s2 == mmu_transform_idire(s1, v)
        s3 == mmu_transform_mdire(s2, v)
        undo_s(x) == mmu_untransform_sdire(x, root, v)
        undo_i(x) == undo_s(mmu_untransform_idire(x, s1.at, v))
        undo_m(x) == undo_i(mmu_untransform_mdire(x, s2.at, v))
    IN  IF root = NULL THEN s
        ELSE IF s1.at = NULL THEN undo_s(s1)
        ELSE IF s2.at = NULL THEN undo_i(s2)
        ELSE IF s3.at = NULL THEN undo_m(s3)
        ELSE mmu_transform_msa(s3, v, p)

hal_mmu_untransform_core(s, v) ==
    LET T == WalkFrom(s.d, s.m.tdirearr, v)
        undo_s(x) == mmu_untransform_sdire(x, T[1], v)
        undo_i(x) == undo_s(mmu_untransform_idire(x, T[2], v))
        undo_m(x) == undo_i(mmu_untransform_mdire(x, T[3], v))
    IN  IF T[2] = NULL THEN s
        ELSE IF T[3] = NULL THEN undo_s(s)
        ELSE IF T[4] = NULL THEN undo_i(s)
        ELSE undo_m(mmu_untransform_msa(s, T[4], v))

-----------------------------------------------------------------------------
Locked(m) == [d |-> dir, f |-> free, m |-> mmu[m], at |-> NULL]

Unlock(m, s) ==
    /\ dir' = s.d
    /\ free' = s.f
    /\ mmu' = [mmu EXCEPT ![m] = s.m]

NoRefresh == UNCHANGED tlb

\* Rewriting CR3 makes the processor forget every translation.
hal_mmu_refresh == tlb' = {}

\* At boot the first address space is made and loaded.
Init ==
    \E m \in Mmus, f \in {CHOOSE f \in Frames : TRUE} :
        /\ dir = [g \in Frames |-> Zero]
        /\ free = Frames \ {f}
        /\ mmu = [[n \in Mmus |-> mmudsc_t_init] EXCEPT ![m] =
                     [@ EXCEPT !.tdirearr = f, !.head[1] = {f}, !.msanr[1] = 1]]
        /\ live = {m}
        /\ curr = m
        /\ cr3 = f
        /\ tlb = {}

\* A page fault maps a page of the running thread's address space. Only a
\* successful call refreshes.
hal_mmu_transform(v, p) ==
    LET s == hal_mmu_transform_core(Locked(curr), v, p)
    IN  /\ Unlock(curr, s)
        /\ IF s.at = NULL THEN UNCHANGED tlb ELSE hal_mmu_refresh
        /\ UNCHANGED <<live, curr, cr3>>

\* The running thread gives a page of its address space up.
hal_mmu_untransform(v) ==
    /\ Unlock(curr, hal_mmu_untransform_core(Locked(curr), v))
    /\ hal_mmu_refresh
    /\ UNCHANGED <<live, curr, cr3>>

InitFromRunning(m) ==
    LET s == mmu_new_direarr(Locked(m), 1)
    IN  /\ m \notin live
        /\ s.at # NULL
        /\ Unlock(m, [s EXCEPT !.m.tdirearr = s.at, !.d[s.at] = dir[cr3]])
        /\ live' = live \cup {m}
        /\ UNCHANGED <<curr, cr3, tlb>>

\* A new address space. new_mmadrsdsc does not look at the result: without a
\* page for the root the descriptor is used with tdirearr = NULL.
hal_mmu_init(m) ==
    LET s == mmu_new_direarr(Locked(m), 1)
    IN  /\ m \notin live
        /\ Unlock(m, [s EXCEPT !.m.tdirearr = s.at])
        /\ live' = live \cup {m}
        /\ UNCHANGED <<curr, cr3, tlb>>

\* The scheduler switches to a thread of m. A descriptor without a root is not
\* loaded: the processor stays on the tables it has.
hal_mmu_load(m) ==
    /\ m \in live
    /\ curr' = m
    /\ IF mmu[m].tdirearr = NULL
       THEN UNCHANGED <<cr3, tlb>>
       ELSE cr3' = mmu[m].tdirearr /\ tlb' = {}
    /\ UNCHANGED <<dir, free, mmu, live>>

\* The address space of a thread that could not be made is given up, unless
\* the processor is on its tables.
hal_mmu_clean(m) ==
    /\ m \in live \ {curr}
    /\ mmu[m].tdirearr # cr3
    /\ free' = free \cup UNION {mmu[m].head[l] : l \in 1 .. 4}
    /\ mmu' = [mmu EXCEPT ![m] = mmudsc_t_init]
    /\ live' = live \ {m}
    /\ UNCHANGED <<dir, curr, cr3, tlb>>

\* The processor translates v and remembers the result.
Translate(v) ==
    LET p == WalkFrom(dir, cr3, v)[5]
    IN  /\ p # NULL
        /\ tlb' = tlb \cup {<<v, p>>}
        /\ UNCHANGED <<dir, free, mmu, live, curr, cr3>>

Next ==
    \/ \E v \in Vadrs, p \in Pages : hal_mmu_transform(v, p)
    \/ \E v \in Vadrs : hal_mmu_untransform(v)
    \/ \E m \in Mmus : hal_mmu_init(m)
    \/ \E m \in Mmus : hal_mmu_load(m)
    \/ \E m \in Mmus : hal_mmu_clean(m)
    \/ \E v \in Vadrs : Translate(v)

Spec == Init /\ [][Next]_vars

-----------------------------------------------------------------------------
\* Every page of the pool is free or is one table, at one level of one address
\* space, that one entry leads to: no address space shares a table of its user
\* half with another (the fault that the comment in hal_mmu_init remembers).
TablesPrivate ==
    LET Heads == Mmus \X (1 .. 4)
        Head(h) == mmu[h[1]].head[h[2]]
    IN  /\ \A h, k \in Heads : h # k => Head(h) \cap Head(k) = {}
        /\ free = Frames \ UNION {Head(h) : h \in Heads}
        /\ \A t, u \in Frames \ free, i, j \in Idx :
               dir[t][i] \in Frames /\ dir[t][i] = dir[u][j] => <<t, i>> = <<u, j>>

\* The tables that the tables in T lead to.
Below(T) == {dir[t][i] : t \in T, i \in Idx} \ {NULL}

\* The four lists of a descriptor hold exactly the tables that can be reached
\* from its root, level by level, and msanr counts them: mmu_del_*direarr finds
\* every table, and hal_mmu_clean gives all of them back and nothing else.  No
\* table below a root is empty: a table goes with its last entry, and a mapping
\* that fails half-way leaves no table behind.
ListsExact ==
    \A m \in Mmus :
        /\ mmu[m].head[1] = {mmu[m].tdirearr} \ {NULL}
        /\ \A l \in 1 .. 3 : mmu[m].head[l + 1] = Below(mmu[m].head[l])
        /\ \A l \in 1 .. 4 : mmu[m].msanr[l] = Cardinality(mmu[m].head[l])
        /\ \A l \in 2 .. 4 : \A t \in mmu[m].head[l] : dir[t] # Zero

\* The processor never uses a translation that the tables it is on do not
\* have, and these tables are not free for other use.
TlbCoherent ==
    /\ cr3 \notin free
    /\ \A e \in tlb : WalkFrom(dir, cr3, e[1])[5] = e[2]

\* The tables of every address space, read as a map, change as PageMap allows:
\* one page at a time, and not at all when an operation fails.
Map == INSTANCE PageMap WITH
           map <- [m \in Mmus |-> [v \in Vadrs |-> WalkFrom(dir, mmu[m].tdirearr, v)[5]]]

ImplementsPageMap == Map!Spec
=============================================================================
