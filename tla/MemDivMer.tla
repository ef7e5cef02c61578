----------------------------- MODULE MemDivMer -----------------------------
(***************************************************************************)
(* The page allocator: the boot-time carving of free memory into blocks    *)
(* (memarea.c), the division and merging of blocks (memdivmer.c) and the   *)
(* page half of the kernel memory pool above it (krlpagempol.c).           *)
(*                                                                         *)
(* A free block of 2^o pages is on the list af_frelst of order o, linked   *)
(* by its first page.  Nothing but flags in the descriptors of its first   *)
(* and last page (mf_olkty, md_odlink, mf_uindx, paf_alloc) tells what a   *)
(* page is part of; the flags of inner pages go stale.  Every operation    *)
(* runs under ma_lock, which is one step here.  The two locked sections of *)
(* a pool call are one step as well: in between, only the caller knows the *)
(* block.  The hardware area is left out (nothing is allocated from it     *)
(* after boot), and so are ma_maxpages and af_mobjnr (never below          *)
(* ma_freepages, always af_fobjnr) and mf_uindx above 1 (nobody shares).   *)
(***************************************************************************)
EXTENDS Integers, Sequences, SequencesExt, FiniteSets, FiniteSetsExt

CONSTANTS
    KRNL,        \* number of pages of the kernel area, at addresses 0 ..
    PROC,        \* number of pages of the process area, behind it
    LMAX,        \* MDIVMER_ARR_LMAX (52 in the code)
    PHYMSA_MAX,  \* number of lists of the pool (512 in the code)
    Wants,       \* page counts that are asked for
    Busy         \* sets of pages the kernel image may occupy at boot

ASSUME MemAssumption ==
    /\ KRNL \in Nat /\ PROC \in Nat
    /\ LMAX \in Nat /\ 2 ^ (LMAX - 1) > KRNL
    /\ PHYMSA_MAX \in Nat \ {0, 1}
    /\ Wants \subseteq Nat \ {0}
    /\ Busy \subseteq SUBSET (0 .. KRNL - 1)

Pages == 0 .. KRNL + PROC - 1
Orders == 0 .. LMAX - 1
ONE == LMAX                     \* dm_onemsalst, the process area's list
Lists == Orders \cup {ONE}
oderpnr(l) == IF l = ONE THEN 1 ELSE 2 ^ l
Area(p) == IF p < KRNL THEN "KRNL" ELSE "PROC"
Areas == {"KRNL", "PROC"}

VARIABLES
    mem,     \* used: mf_uindx and paf_alloc of each page
             \* link: mf_olkty and md_odlink of each page
             \* frelst, fobjnr: the free lists and their counters
             \* err: the system_error the kernel stopped with
    pgs,     \* ma_freepages and ma_allocpages of each area, and mo_freepages
    pool,    \* mp_msalsthead: first pages of the blocks the pool gave out
    owned,   \* the blocks given out and not given back, and to whom
    lost     \* blocks a caller gave back and the pool did not take

vars == <<mem, pgs, pool, owned, lost>>

-----------------------------------------------------------------------------
(* Boot: init_merlove_mem.                                                 *)

\* The runs of free pages of an area: first page and length.
Runs(free) ==
    {<<a, n>> \in free \X (1 .. KRNL + PROC) :
        /\ a - 1 \notin free
        /\ a + n \notin free
        /\ a .. a + n - 1 \subseteq free}

\* A run is cut from its front into the largest blocks that fit.
Carve[a \in 0 .. KRNL, n \in 0 .. KRNL] ==
    IF n = 0 THEN {}
    ELSE LET o == CHOOSE o \in Orders : 2 ^ o <= n /\ n < 2 ^ (o + 1)
         IN  {<<o, a>>} \cup Carve[a + 2 ^ o, n - 2 ^ o]

\* Later blocks are put before earlier ones.
Descending(S) == SetToSortSeq(S, >)

BootMem(busy) ==
    LET blocks == UNION {Carve[r[1], r[2]] : r \in Runs((0 .. KRNL - 1) \ busy)}
        proc   == KRNL .. KRNL + PROC - 1
        starts(l) == IF l = ONE THEN proc
                     ELSE {b[2] : b \in {b \in blocks : b[1] = l}}
        last(b) == b[2] + 2 ^ b[1] - 1
    IN  [used   |-> [p \in Pages |-> p \in busy],
         link   |-> [p \in Pages |->
                       CASE p \in proc -> <<"BAFH", ONE>>
                         [] \E b \in blocks : p = last(b) ->
                              <<"BAFH", (CHOOSE b \in blocks : p = last(b))[1]>>
                         [] \E b \in blocks : p = b[2] ->
                              <<"ODER", last(CHOOSE b \in blocks : p = b[2])>>
                         [] OTHER -> <<"INIT", 0>>],
         frelst |-> [l \in Lists |-> Descending(starts(l))],
         fobjnr |-> [l \in Lists |-> Cardinality(starts(l))],
         err    |-> "none"]

Init ==
    \E busy \in Busy :
      /\ mem = BootMem(busy)
      /\ pgs = [free  |-> [KRNL |-> KRNL - Cardinality(busy), PROC |-> PROC],
                alloc |-> [KRNL |-> 0, PROC |-> 0],
                mo    |-> KRNL + PROC - Cardinality(busy)]
      /\ pool = [i \in 0 .. PHYMSA_MAX - 1 |-> << >>]
      /\ owned = {}
      /\ lost = {}

-----------------------------------------------------------------------------
(* Division.                                                               *)

\* mrdmb_add_msa_bafh and mpobf_add_msadsc.
AddFree(m, l, s, e) ==
    [m EXCEPT !.link = [@ EXCEPT ![s] = <<"ODER", e>>, ![e] = <<"BAFH", l>>],
              !.frelst[l] = Cons(s, @),
              !.fobjnr[l] = @ + 1]

mrdmb_add_msa_bafh(m, l, s, e) ==
    IF e - s + 1 # oderpnr(l) \/ m.used[s] \/ m.used[e]
      THEN [m EXCEPT !.err = "mrdmb_add_msa_bafh fail"]
      ELSE AddFree(m, l, s, e)

\* mm_retnmsaob_onbafhlst: the first block of the list, off the list.
FirstStart(m, l) == Head(m.frelst[l])
LastOf(m, s) == IF m.link[s][1] = "BAFH" THEN s ELSE m.link[s][2]
TakeFirst(m, l) ==
    [m EXCEPT !.frelst[l] = Tail(@), !.fobjnr[l] = @ - 1]

mm_divpages_opmsadsc(m, s, mnr) ==
    LET e == LastOf(m, s)
    IN  IF \/ m.link[s][1] = "INIT"
           \/ m.used[s] \/ m.used[e]
           \/ e - s + 1 # mnr
          THEN [m EXCEPT !.err = "mm_divpages_opmsadsc err"]
          ELSE [m EXCEPT !.used = [@ EXCEPT ![s] = TRUE, ![e] = TRUE],
                         !.link[s] = <<"ODER", e>>]

\* One turn of the loop of mm_reldpgsdivmsa_bafhl: the upper half of the block
\* at s becomes a free block of order k.
Split(m, s, k) ==
    LET a == mrdmb_add_msa_bafh(m, k, s + 2 ^ k, m.link[s][2])
    IN  [a EXCEPT !.link[s] = <<@[1], s + 2 ^ k - 1>>]

\* The code would drop a first block whose length is not its list's and
\* return NULL; err records that too.
mm_reldpgsdivmsa_bafhl(m, rel, div) ==
    LET s == FirstStart(m, div)
        SplitTo[k \in rel .. div] ==
            IF k = div THEN TakeFirst(m, div) ELSE Split(SplitTo[k + 1], s, k)
    IN  IF LastOf(m, s) - s + 1 # oderpnr(div)
          THEN [TakeFirst(m, div) EXCEPT !.err = "block dropped"]
          ELSE mm_divpages_opmsadsc(SplitTo[rel], s, oderpnr(rel))

\* The smallest order whose blocks hold the pages.
retn_divoder(pages) ==
    CHOOSE o \in Orders : pages <= 2 ^ o /\ \A q \in 0 .. o - 1 : 2 ^ q < pages

scan_mapgsalloc_ok(a, pages) == pgs.free[a] >= pages

\* onmpgs_retn_bafhlst: the orders from which pages can be served.
Serving(pages) == {l \in retn_divoder(pages) .. LMAX - 1 : mem.fobjnr[l] > 0}

CanDivide(pages) ==
    /\ scan_mapgsalloc_ok("KRNL", pages)
    /\ pages <= 2 ^ (LMAX - 1)
    /\ Serving(pages) # {}
    /\ mem.frelst[Min(Serving(pages))] # << >>

\* Mutant: a block is counted as one page.
TakenAsOne(a, n) == [pgs EXCEPT !.free[a] = @ - 1, !.alloc[a] = @ + n, !.mo = @ - n]

\* mm_update_memarea and mm_update_memmgrob.
Taken(a, n) ==
    [pgs EXCEPT !.free[a] = @ - n, !.alloc[a] = @ + n, !.mo = @ - n]
GivenBack(a, n) ==
    [pgs EXCEPT !.free[a] = @ + n, !.alloc[a] = @ - n, !.mo = @ + n]

\* mm_division_pages(pages, MA_TYPE_KRNL, DMF_RELDIV) with its block for who.
mm_division_pages(pages, who) ==
    LET rel == retn_divoder(pages)
        div == Min(Serving(pages))
    IN  /\ CanDivide(pages)
        /\ mem' = mm_reldpgsdivmsa_bafhl(mem, rel, div)
        /\ pgs' = Taken("KRNL", oderpnr(rel))
        /\ owned' = owned \cup {[at |-> FirstStart(mem, div), who |-> who,
                                 nr |-> oderpnr(rel), want |-> pages]}

-----------------------------------------------------------------------------
(* Merging.                                                                *)

\* mm_cmsa1blk_isok: the flags of a free block of order l.
mm_cmsa1blk_isok(m, l, s, e) ==
    /\ s # e => m.link[s] = <<"ODER", e>>
    /\ m.link[e] = <<"BAFH", l>>
    /\ ~ m.used[s] /\ ~ m.used[e]

\* Mutant: a block behind need not begin where this one ends.
AdjacentLoose(s, l, b) == b > s \/ b + 2 ^ l = s

\* mm_cmsa2blk_isok: neighbours, whatever their alignment.
Adjacent(s, l, b) == b = s + 2 ^ l \/ b + 2 ^ l = s

\* mm_find_cmsa2blk: the block of x.m, first page x.s and order l, joined
\* with the first neighbour on its list, or not.
mm_find_cmsa2blk(x, l) ==
    LET m     == x.m
        lst   == m.frelst[l]
        found == {i \in DOMAIN lst : Adjacent(x.s, l, lst[i])}
        seen  == IF found = {} THEN DOMAIN lst ELSE 1 .. Min(found)
        ok    == \A b \in {x.s} \cup {lst[i] : i \in seen} :
                    mm_cmsa1blk_isok(m, l, b, b + 2 ^ l - 1)
        b     == lst[Min(found)]
        lo    == IF b < x.s THEN b ELSE x.s
        hi    == IF b < x.s THEN x.s ELSE b
        end   == hi + 2 ^ l - 1
        joined == [m EXCEPT !.frelst[l] = RemoveAt(@, Min(found)),
                            !.fobjnr[l] = @ - 1,
                            !.link = [@ EXCEPT ![hi - 1] = <<"INIT", 0>>,
                                               ![hi] = <<"INIT", 0>>,
                                               ![lo] = <<"ODER", end>>,
                                               ![end] = <<"BAFH", l + 1>>]]
    IN  CASE m.fobjnr[l] < 1 -> [x EXCEPT !.done = TRUE]
          [] m.fobjnr[l] >= 1 /\ lst # << >> /\ ~ ok ->
               [x EXCEPT !.m.err = "mm_cmsa1blk_isok", !.done = TRUE]
          [] m.fobjnr[l] >= 1 /\ (lst = << >> \/ ok) ->
               IF found = {} THEN [x EXCEPT !.done = TRUE]
               ELSE [x EXCEPT !.m = joined, !.s = lo, !.l = l + 1]

\* mm_merpages_onbafhlst: join upwards, then put the block on its list.
mm_merpages_onbafhlst(m, s, rel) ==
    LET MergeTo[k \in rel .. LMAX - 1] ==
            IF k = rel THEN [m |-> m, s |-> s, l |-> rel, done |-> FALSE]
            ELSE LET x == MergeTo[k - 1]
                 IN  IF x.done THEN x ELSE mm_find_cmsa2blk(x, k - 1)
        x == MergeTo[LMAX - 1]
    IN  AddFree(x.m, x.l, x.s, x.s + 2 ^ x.l - 1)

\* onfrmsa_retn_marea, scan_freemsa_isok and, in the kernel area,
\* onfpgs_retn_bafhlst: mm_merge_pages takes the block.
CanMerge(s, n) ==
    /\ n >= 1
    /\ mem.link[s][1] = "ODER"
    /\ LET e == mem.link[s][2]
       IN  e - s + 1 = n /\ Area(e) = Area(s) /\ mem.used[s] /\ mem.used[e]
    /\ Area(s) = "KRNL" => n <= 2 ^ (LMAX - 1) /\ 2 ^ retn_divoder(n) = n

\* mm_merpages_opmsadsc: free again.
Unused(m, l, s, e) ==
    [m EXCEPT !.used = [@ EXCEPT ![s] = FALSE, ![e] = FALSE],
              !.link = [@ EXCEPT ![s] = <<"ODER", e>>, ![e] = <<"BAFH", l>>]]

\* Mutant: no merging in the kernel area.
Unmerged(s, n) ==
    LET l == IF Area(s) = "PROC" THEN ONE ELSE retn_divoder(n)
        e == s + n - 1
    IN  AddFree(Unused(mem, l, s, e), l, s, e)

\* mm_merpages_onmarea: a page of the process area goes back on its list, a
\* block of the kernel area is merged.
Merged(s, n) ==
    LET l == IF Area(s) = "PROC" THEN ONE ELSE retn_divoder(n)
        e == s + n - 1
        m == Unused(mem, l, s, e)
    IN  CASE l = ONE /\ n # 1 ->
               [mem EXCEPT !.err = "mm_merpages_opmsadsc err3"]
          [] l = ONE /\ n = 1 -> AddFree(m, ONE, s, e)
          [] OTHER -> mm_merpages_onbafhlst(m, s, l)

-----------------------------------------------------------------------------
(* The callers.                                                            *)

Running == mem.err = "none"

\* Page tables (halmmu.c) and slabs (kmsob.c): blocks that are given back by
\* the count of pages they really have.
KernelNew(pages) ==
    /\ Running
    /\ mm_division_pages(pages, "kernel")
    /\ UNCHANGED <<pool, lost>>

KernelDelete(b) ==
    /\ Running
    /\ b.who = "kernel"
    /\ owned' = owned \ {b}
    /\ mem' = IF CanMerge(b.at, b.nr) THEN Merged(b.at, b.nr)
              ELSE [mem EXCEPT !.err = "mm_merge_pages FALSE"]
    /\ pgs' = GivenBack(Area(b.at), b.nr)
    /\ UNCHANGED <<pool, lost>>

\* vma_new_usermsa: mm_divpages_procmarea, a page of the process area or else
\* one of the kernel's.  (The two areas have locks of their own: a process
\* page that comes back in between leaves KernelNew(1).)
vma_new_usermsa ==
    /\ Running
    /\ IF scan_mapgsalloc_ok("PROC", 1) /\ mem.fobjnr[ONE] >= 1
         THEN LET s == FirstStart(mem, ONE)
              IN  /\ mem' = mm_divpages_opmsadsc(TakeFirst(mem, ONE), s, 1)
                  /\ pgs' = Taken("PROC", 1)
                  /\ owned' = owned \cup
                        {[at |-> s, who |-> "kernel", nr |-> 1, want |-> 1]}
         ELSE mm_division_pages(1, "kernel")
    /\ UNCHANGED <<pool, lost>>

\* The list of the pool for blocks of n pages.
PoolList(n) == IF PHYMSA_MAX - 1 <= n THEN PHYMSA_MAX - 1 ELSE n

\* kmempool_pages_core_new: filed under the pages it really got.
kmempool_pages_new(pages) ==
    /\ Running
    /\ mm_division_pages(pages, "pool")
    /\ pool' = [pool EXCEPT ![PoolList(2 ^ retn_divoder(pages))] =
                  Cons(FirstStart(mem, Min(Serving(pages))), @)]
    /\ UNCHANGED lost

\* kmempool_pages_core_delete: looked up, and merged, under the pages that
\* were asked for.
kmempool_pages_delete(b) ==
    LET i == PoolList(b.want)
        found == \E j \in DOMAIN pool[i] : pool[i][j] = b.at
    IN  /\ Running
        /\ b.who = "pool"
        /\ owned' = owned \ {b}
        /\ pool' = [pool EXCEPT ![i] = RemoveFirst(@, b.at)]
        /\ IF found /\ CanMerge(b.at, b.want)
             THEN /\ mem' = Merged(b.at, b.want)
                  /\ pgs' = GivenBack(Area(b.at), b.want)
                  /\ UNCHANGED lost
             ELSE /\ lost' = lost \cup {b}
                  /\ UNCHANGED <<mem, pgs>>

Next ==
    \/ \E n \in Wants : KernelNew(n) \/ kmempool_pages_new(n)
    \/ \E b \in owned : KernelDelete(b) \/ kmempool_pages_delete(b)
    \/ vma_new_usermsa

Spec == Init /\ [][Next]_vars

-----------------------------------------------------------------------------
(* Properties.                                                             *)

FreeBlocks == UNION {{[at |-> mem.frelst[l][i], nr |-> oderpnr(l)] :
                         i \in DOMAIN mem.frelst[l]} : l \in Lists}
GivenOut == {[at |-> b.at, nr |-> b.nr] : b \in owned \cup lost}
Extent(b) == b.at .. b.at + b.nr - 1
PagesOf(B) == UNION {Extent(b) : b \in B}

\* What mem_check_mareadata checks once, at the end of boot, stays true: the
\* pages of a free block are unused, its first page leads to its last and that
\* one to its list.  And what chek_one_mchks checks of a block given out: its
\* first page leads to its last, so it can be given back.
MareaDataOK ==
    /\ \A l \in Lists : \A i \in DOMAIN mem.frelst[l] :
         LET s == mem.frelst[l][i]
             e == s + oderpnr(l) - 1
         IN  /\ LastOf(mem, s) = e
             /\ mem.link[e] = <<"BAFH", l>>
             /\ \A p \in s .. e : ~ mem.used[p]
    /\ \A b \in GivenOut :
         LET e == b.at + b.nr - 1
         IN  mem.link[b.at] = <<"ODER", e>> /\ mem.used[b.at] /\ mem.used[e]

\* Memory is partitioned: a page is in one free block or in one block given
\* out, never in two, and only the pages the kernel image occupies are in
\* none; division and merging lose no page and never join the two areas.  The
\* flags of blocks stay as MareaDataOK says, so that no consistency check of
\* the allocator (system_error in memdivmer.c and memarea.c) ever fires, and a
\* block given back by the number of pages it really has is always taken.
Partition ==
    /\ \A b, c \in FreeBlocks \cup GivenOut :
         b # c => Extent(b) \cap Extent(c) = {}
    /\ FreeBlocks \cap GivenOut = {}
    /\ \A p \in Pages \ PagesOf(FreeBlocks \cup GivenOut) :
         mem.used[p] /\ mem.link[p] = <<"INIT", 0>>
    /\ \A b \in FreeBlocks : Area(b.at) = Area(b.at + b.nr - 1)
    /\ MareaDataOK
    /\ Running

\* The counters that decide whether a request is admitted, and which list
\* serves it, are exact.
CountersExact ==
    /\ \A l \in Lists : mem.fobjnr[l] = Len(mem.frelst[l])
    /\ \A a \in Areas :
         /\ pgs.free[a] =
              Cardinality({p \in PagesOf(FreeBlocks) : Area(p) = a})
         /\ pgs.alloc[a] =
              Cardinality({p \in PagesOf(GivenOut) : Area(p) = a})
    /\ pgs.mo = pgs.free["KRNL"] + pgs.free["PROC"]

\* Two free blocks of the same size are never neighbours, though merging looks
\* at one neighbour per size only: a division makes blocks only of sizes that
\* had none, and a merge stops only at a size without a neighbour.
Coalesced ==
    \A l \in 0 .. LMAX - 2 : \A i, j \in DOMAIN mem.frelst[l] :
        mem.frelst[l][i] + 2 ^ l # mem.frelst[l][j]

\* The allocator seen by its callers: a set of free pages, and extents out.
Abstract == INSTANCE PageAlloc WITH
    free <- PagesOf(FreeBlocks), out <- {Extent(b) : b \in GivenOut}

\* Division and merging implement the abstract allocator: a call hands out
\* pages nobody has, in one piece, or takes back one piece as it was handed
\* out, and nothing else changes hands.
ImplementsPageAlloc == Abstract!Spec
=============================================================================
