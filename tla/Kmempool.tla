------------------------------ MODULE Kmempool ------------------------------
(***************************************************************************)
(* The kernel heap: krlnew and krldelete (kernel/krlmm.c), the page pool    *)
(* behind them for large blocks (kernel/krlpagempol.c) and the slab         *)
(* allocator for small ones (hal/x86/kmsob.c).                              *)
(*                                                                         *)
(* A kmsob_t lives at the start of its first run of pages and is named by   *)
(* the number of its first page; a kmbext_t lives at the start of every     *)
(* run by which the kmsob_t was extended.  Addresses are numbers, so the    *)
(* headers, the objects and the ends of the runs can be compared as the     *)
(* code compares them (so_vend and mt_vend are the LAST address of a run).  *)
(*                                                                         *)
(* The slab works under ks_lock with interrupts off from start to end.  The *)
(* page pool takes its lock only around its list, so a page block is        *)
(* between two steps while it is listed or merged: that is mid.             *)
(*                                                                         *)
(* The page allocator below is module MemDivMer; here it is what it         *)
(* promises (module PageAlloc): it gives a run of free pages or nothing.    *)
(***************************************************************************)
EXTENDS Integers, Sequences, FiniteSets, SequencesExt, Functions

CONSTANTS
    Pages,         \* page numbers of the kernel area, none of them 0
    PAGESIZE,
    OBJSTEP,       \* 32: the difference between two neighbouring ol_sz
    KOBLST_MAX,    \* number of size lists
    OBJALIGN,      \* 4, of OBJS_ALIGN
    OBJSORPAGE,    \* the largest size the slab serves
    MALCSZ_MAX,    \* the largest size of all
    SOHDR,         \* sizeof(kmsob_t)
    EXTHDR,        \* sizeof(kmbext_t)
    FREHDR,        \* sizeof(freobjh_t)
    TWOPG, FOURPG, \* 128 and 512: larger objects come from 2 and 4 pages
    MSCLST_MAX,    \* lists of extension runs of a kmsob_t
    PHYMSA_MAX,    \* lists of the page pool
    Sizes,         \* the sizes callers ask for
    HOLDMAX,       \* bound: blocks that callers hold at a time
    THREADS,       \* bound: threads between two steps of the page pool
    NULL

Lists == 1 .. KOBLST_MAX

ASSUME KmempoolAssumption ==
    /\ Pages \subseteq Nat \ {0}
    /\ NULL \notin Pages
    /\ Sizes \subseteq 0 .. MALCSZ_MAX + 1
    /\ FREHDR <= OBJSTEP
    /\ OBJSORPAGE = KOBLST_MAX * OBJSTEP

VARIABLES
    free,     \* pages the page allocator has
    kms,      \* the kmsob_t that exist, by number of their first page
    lst,      \* ks_msoblst[i].ol_emplst
    emnr,     \* ks_msoblst[i].ol_emnr
    msobnr,   \* ks_msobnr
    cahe,     \* ks_msoblst[i].ol_cahe
    msobche,  \* ks_msobche
    pool,     \* mp_msalsthead[i]: the page blocks on that list
    mid,      \* page blocks between two steps of an operation
    out,      \* the blocks callers hold, with the sizes they asked for
    lost,     \* page blocks whose krldelete returned FALSE
    died      \* a system_error was reached

vars == <<free, kms, lst, emnr, msobnr, cahe, msobche, pool, mid, out, lost, died>>

Adr(p) == p * PAGESIZE

VEnd(r) == Adr(r.p) + r.n * PAGESIZE - 1

RunPages(r) == r.p .. r.p + r.n - 1

AlignUp(x, a) == ((x + a - 1) \div a) * a

-----------------------------------------------------------------------------
(* The page allocator, as its callers here use it.                         *)

\* The order the allocator serves a request from: the least power of two.
RealPages(n) ==
    CHOOSE r \in {2 ^ i : i \in 0 .. n} :
        r >= n /\ \A i \in 0 .. n : 2 ^ i >= n => r <= 2 ^ i

\* mm_division_pages with DMF_RELDIV: all it may return.
mm_division_pages(f, n) ==
    LET r == RealPages(n)
    IN  {[run |-> NULL, free |-> f]}
          \cup {[run |-> [p |-> p, n |-> r], free |-> f \ (p .. p + r - 1)] :
                    p \in {q \in f : q .. q + r - 1 \subseteq f}}

\* mm_merge_pages takes a run back only with the number of pages it has.
mm_merge_pages(f, run, n) ==
    IF n = run.n THEN [ok |-> TRUE, free |-> f \cup RunPages(run)]
                 ELSE [ok |-> FALSE, free |-> f]

-----------------------------------------------------------------------------
(* The slab.  Its operations work on a record of the state they change.    *)

Slab == [k |-> kms, l |-> lst, nr |-> emnr, tot |-> msobnr, c |-> cahe,
         mc |-> msobche, f |-> free, died |-> died]

SetSlab(s) ==
    /\ kms' = s.k
    /\ lst' = s.l
    /\ emnr' = s.nr
    /\ msobnr' = s.tot
    /\ cahe' = s.c
    /\ msobche' = s.mc
    /\ free' = s.f
    /\ died' = s.died

Die(s) == [s EXCEPT !.died = TRUE]

OlSz(i) == i * OBJSTEP

\* onmsz_retn_koblst: the first list whose objects are large enough.
onmsz_retn_koblst(msz) ==
    LET fit == {i \in Lists : OlSz(i) >= msz}
    IN  IF msz < 1 \/ fit = {} THEN NULL
        ELSE CHOOSE i \in fit : \A j \in fit : i <= j

SlabPages(objsz) == IF FOURPG < objsz THEN 4 ELSE IF TWOPG < objsz THEN 2 ELSE 1

\* The objects cut out of the addresses first .. vend, in list order: each
\* is added at the head, and the last must END at vend or before.
CutObjs(first, vend, objsz) ==
    LET n == (vend - first) \div objsz
    IN  [i \in 1 .. n |-> first + (n - i) * objsz]

\* kmsob_updata_cache with KUC_NEWFLG or KUC_DELFLG.
CacheSet(s, i, k) == [s EXCEPT !.mc = k, !.c[i] = k]

\* Mutant: ol_cahe survives the kmsob_t.
CacheKeep(s, i, k) == [s EXCEPT !.mc = IF @ = k THEN NULL ELSE @]

\* kmsob_updata_cache with KUC_DSYFLG.
CacheDrop(s, i, k) ==
    [s EXCEPT !.mc = IF @ = k THEN NULL ELSE @,
              !.c[i] = IF @ = k THEN NULL ELSE @]

\* All objects of a list have the list's size, so scan_newkmsob_isok accepts
\* the cached kmsob_t and else the first of the list, free objects or not.
onkoblst_retn_newkmsob(s, i) ==
    IF s.c[i] # NULL THEN s.c[i]
    ELSE IF s.nr[i] > 0 THEN Head(s.l[i])
    ELSE NULL

\* _create_init_kmsob
NewKmsob(run, objsz) ==
    LET objs == CutObjs(Adr(run.p) + SOHDR, VEnd(run), objsz)
    IN  [run |-> run, objsz |-> objsz, ext |-> <<>>, fre |-> objs,
         m |-> Len(objs), f |-> Len(objs)]

\* The refusals of _create_init_kmsob.
InitRefused(run, objsz) ==
    objsz < FREHDR \/ run.n * PAGESIZE <= SOHDR + FREHDR

_create_kmsob(s, i) ==
    {IF d.run = NULL THEN [s |-> s, k |-> NULL]
     ELSE IF InitRefused(d.run, OlSz(i))
     THEN LET back == mm_merge_pages(d.free, d.run, d.run.n)
          IN  [s |-> [s EXCEPT !.f = back.free, !.died = ~back.ok], k |-> NULL]
     ELSE [s |-> [s EXCEPT !.f = d.free,
                           !.k = (d.run.p :> NewKmsob(d.run, OlSz(i))) @@ @,
                           !.l[i] = <<d.run.p>> \o @,
                           !.nr[i] = @ + 1,
                           !.tot = @ + 1],
           k |-> d.run.p] :
        d \in mm_division_pages(s.f, SlabPages(OlSz(i)))}

\* The list mc_lst[i] holds runs of 2 ^ i pages.
OnMscLst(run) == run.n <= 2 ^ (MSCLST_MAX - 1)

\* Mutant: the objects of an extension start at its header.
ExtendedOverHeader(ko, run) ==
    LET objs == CutObjs(Adr(run.p), VEnd(run), ko.objsz)
    IN  [ko EXCEPT !.ext = <<run>> \o @, !.fre = objs \o @,
                   !.m = @ + Len(objs), !.f = @ + Len(objs)]

\* What kmsob_extn_pages does to the kmsob_t once it has a run.
Extended(ko, run) ==
    LET objs == CutObjs(Adr(run.p) + EXTHDR, VEnd(run), ko.objsz)
    IN  [ko EXCEPT !.ext = <<run>> \o @,
                   !.fre = objs \o @,
                   !.m = @ + Len(objs),
                   !.f = @ + Len(objs)]

kmsob_extn_pages(s, k) ==
    {IF d.run = NULL THEN [s |-> s, ok |-> FALSE]
     ELSE IF ~OnMscLst(d.run)
     THEN LET back == mm_merge_pages(d.free, d.run, d.run.n)
          IN  [s |-> [s EXCEPT !.f = back.free, !.died = ~back.ok], ok |-> FALSE]
     ELSE [s |-> [s EXCEPT !.f = d.free, !.k[k] = Extended(@, d.run)],
           ok |-> TRUE] :
        d \in mm_division_pages(s.f, SlabPages(s.k[k].objsz))}

\* Mutant: the object stays on so_frelst.
NewNotTaken(s, k, msz) ==
    LET ko == s.k[k]
    IN  IF ko.f < 1 \/ ko.m < 1 \/ msz > ko.objsz \/ ko.fre = <<>>
        THEN [s |-> s, a |-> NULL]
        ELSE [s |-> [s EXCEPT !.k[k].f = @ - 1], a |-> Head(ko.fre)]

\* kmsob_new_opkmsob with scan_nmszkmsob_isok: the first object of so_frelst.
kmsob_new_opkmsob(s, k, msz) ==
    LET ko == s.k[k]
    IN  IF ko.f < 1 \/ ko.m < 1 \/ msz > ko.objsz \/ ko.fre = <<>>
        THEN [s |-> s, a |-> NULL]
        ELSE [s |-> [s EXCEPT !.k[k].fre = Tail(@), !.k[k].f = @ - 1],
              a |-> Head(ko.fre)]

\* kmsob_new_onkmsob with scan_kmsob_objnr: extended only when it has none.
kmsob_new_onkmsob(s, k, msz) ==
    LET ko == s.k[k]
    IN  IF ko.f < 1 /\ ko.fre # <<>> THEN {[s |-> Die(s), a |-> NULL]}
        ELSE IF ko.f > 0 THEN {kmsob_new_opkmsob(s, k, msz)}
        ELSE {IF x.ok THEN kmsob_new_opkmsob(x.s, k, msz)
                      ELSE [s |-> x.s, a |-> NULL] : x \in kmsob_extn_pages(s, k)}

\* kmsob_new: all the results it may have.
kmsob_new(s, msz) ==
    LET i     == onmsz_retn_koblst(msz)
        k     == onkoblst_retn_newkmsob(s, i)
        made  == IF k # NULL THEN {[s |-> s, k |-> k]} ELSE _create_kmsob(s, i)
        got(c) == {IF r.a = NULL THEN r
                   ELSE [r EXCEPT !.s = CacheSet(@, i, c.k)] :
                       r \in kmsob_new_onkmsob(c.s, c.k, msz)}
    IN  IF msz > OBJSORPAGE \/ i = NULL THEN {[s |-> s, a |-> NULL]}
        ELSE UNION {IF c.k = NULL THEN {[s |-> c.s, a |-> NULL]} ELSE got(c) :
                        c \in made}

-----------------------------------------------------------------------------
(* Giving an object back.                                                  *)

\* scan_delkmsob_isok: the block lies behind the header of one of the runs.
scan_delkmsob_isok(ko, a, sz) ==
    /\ sz <= ko.objsz
    /\ \/ a >= Adr(ko.run.p) + SOHDR /\ a + sz <= VEnd(ko.run)
       \/ \E j \in DOMAIN ko.ext :
             a >= Adr(ko.ext[j].p) + EXTHDR /\ a + sz <= VEnd(ko.ext[j])

\* onkoblst_retn_delkmsob: the cached kmsob_t, else the first that accepts.
onkoblst_retn_delkmsob(s, i, a, sz) ==
    LET ok(k) == scan_delkmsob_isok(s.k[k], a, sz)
        pos   == {j \in DOMAIN s.l[i] : ok(s.l[i][j])}
    IN  IF s.c[i] # NULL /\ ok(s.c[i]) THEN s.c[i]
        ELSE IF s.nr[i] > 0 /\ pos # {}
        THEN s.l[i][CHOOSE j \in pos : \A h \in pos : j <= h]
        ELSE NULL

\* scan_fadrskmsob_isok: an object starts there.
scan_fadrskmsob_isok(fostat, vend, a, objsz) ==
    a >= fostat /\ a + objsz <= vend /\ (a - fostat) % objsz = 0

\* scan_dfszkmsob_isok
scan_dfszkmsob_isok(ko, a, sz) ==
    LET in(r) == a >= Adr(r.p) /\ a + sz - 1 <= VEnd(r)
    IN  IF in(ko.run)
        THEN scan_fadrskmsob_isok(Adr(ko.run.p) + SOHDR, VEnd(ko.run), a, ko.objsz)
        ELSE \E j \in DOMAIN ko.ext :
                /\ in(ko.ext[j])
                /\ scan_fadrskmsob_isok(Adr(ko.ext[j].p) + EXTHDR,
                                        VEnd(ko.ext[j]), a, ko.objsz)

\* kmsob_del_opkmsob
kmsob_del_opkmsob(s, k, a, sz) ==
    LET ko == s.k[k]
    IN  IF ko.f + 1 > ko.m \/ ~scan_dfszkmsob_isok(ko, a, sz)
        THEN [s |-> s, ok |-> FALSE]
        ELSE [s |-> [s EXCEPT !.k[k].fre = <<a>> \o @, !.k[k].f = @ + 1],
              ok |-> TRUE]

\* scan_freekmsob_isok: 2 when no object of the kmsob_t is in use.
scan_freekmsob_isok(ko) ==
    IF ko.m < ko.f THEN 0 ELSE IF ko.m = ko.f THEN 2 ELSE 1

\* Mutant: the extensions are not merged.
MergeOwn(f, ko) ==
    LET back == mm_merge_pages(f, ko.run, ko.run.n)
    IN  [ok |-> back.ok, free |-> back.free]

\* The pages a destroyed kmsob_t returns: its extensions and its own run.
\* An extension is merged with the page number of the list it was on.
MergeAll(f, ko) ==
    FoldSeq(LAMBDA run, acc :
                LET back == mm_merge_pages(acc.free, run, RealPages(run.n))
                IN  [ok |-> acc.ok /\ back.ok, free |-> back.free],
            [ok |-> TRUE, free |-> f], <<ko.run>> \o ko.ext)

_destroy_kmsob_core(s, i, k) ==
    LET back == MergeAll(s.f, s.k[k])
        t    == [s EXCEPT !.l[i] = SelectSeq(@, LAMBDA x : x # k),
                          !.nr[i] = @ - 1,
                          !.tot = @ - 1,
                          !.k = [x \in DOMAIN @ \ {k} |-> @[x]],
                          !.f = back.free,
                          !.died = ~back.ok]
    IN  CacheDrop(t, i, k)

_destroy_kmsob(s, i, k) ==
    IF s.tot < 1 \/ s.nr[i] < 1 THEN [s |-> s, ok |-> FALSE]
    ELSE CASE scan_freekmsob_isok(s.k[k]) = 0 -> [s |-> Die(s), ok |-> FALSE]
           [] scan_freekmsob_isok(s.k[k]) = 1 -> [s |-> CacheSet(s, i, k), ok |-> TRUE]
           [] scan_freekmsob_isok(s.k[k]) = 2 ->
                [s |-> _destroy_kmsob_core(s, i, k), ok |-> TRUE]

\* kmsob_delete
kmsob_delete(s, a, sz) ==
    LET i == onmsz_retn_koblst(sz)
        k == onkoblst_retn_delkmsob(s, i, a, sz)
        d == kmsob_del_opkmsob(s, k, a, sz)
    IN  IF sz > OBJSORPAGE \/ i = NULL THEN [s |-> s, ok |-> FALSE]
        ELSE IF k = NULL THEN [s |-> s, ok |-> FALSE]
        ELSE IF ~d.ok THEN d
        ELSE _destroy_kmsob(d.s, i, k)

-----------------------------------------------------------------------------
(* krlnew and krldelete.                                                   *)

Init ==
    /\ free = Pages
    /\ kms = <<>>
    /\ lst = [i \in Lists |-> <<>>]
    /\ emnr = [i \in Lists |-> 0]
    /\ msobnr = 0
    /\ cahe = [i \in Lists |-> NULL]
    /\ msobche = NULL
    /\ pool = [i \in 1 .. PHYMSA_MAX - 1 |-> {}]
    /\ mid = {}
    /\ out = {}
    /\ lost = {}
    /\ died = FALSE

slabVars == <<kms, lst, emnr, msobnr, cahe, msobche>>

\* krlnew refuses 0 and what is above MALCSZ_MAX.
SizeOk(sz) == sz > 0 /\ sz <= MALCSZ_MAX

PageAlign(sz) == AlignUp(sz, PAGESIZE) \div PAGESIZE

\* The list of the page pool for blocks of n pages.
PoolList(n) == IF PHYMSA_MAX - 1 <= n THEN PHYMSA_MAX - 1 ELSE n

\* A small block: kmempool_objsz_new and the whole of kmsob_new.
krlnew_objsz(sz) ==
    /\ SizeOk(sz) /\ sz <= OBJSORPAGE
    /\ \E r \in kmsob_new(Slab, AlignUp(sz, OBJALIGN)) :
         /\ SetSlab(r.s)
         /\ out' = IF r.a = NULL THEN out ELSE out \cup {[a |-> r.a, sz |-> sz]}
    /\ UNCHANGED <<pool, mid, lost>>

\* A large block: kmempool_pages_core_new up to mm_division_pages.
krlnew_pages(sz) ==
    /\ SizeOk(sz) /\ sz > OBJSORPAGE
    /\ Cardinality(mid) < THREADS
    /\ \E d \in mm_division_pages(free, PageAlign(sz)) :
         /\ free' = d.free
         /\ mid' = IF d.run = NULL THEN mid
                   ELSE mid \cup {[op |-> "add", run |-> d.run, sz |-> sz]}
    /\ UNCHANGED <<slabVars, pool, out, lost, died>>

\* msadsc_add_kmempool: listed under the pages it REALLY has; the caller
\* gets the address of the run.
msadsc_add_kmempool(x) ==
    /\ x.op = "add"
    /\ pool' = [pool EXCEPT ![PoolList(x.run.n)] = @ \cup {x.run}]
    /\ mid' = mid \ {x}
    /\ out' = out \cup {[a |-> Adr(x.run.p), sz |-> x.sz]}
    /\ UNCHANGED <<free, slabVars, lost, died>>

\* A small block comes back.
krldelete_objsz(o) ==
    /\ o.sz <= OBJSORPAGE
    /\ LET r == kmsob_delete(Slab, o.a, AlignUp(o.sz, OBJALIGN))
       IN  /\ SetSlab(r.s)
           /\ out' = IF r.ok THEN out \ {o} ELSE out
    /\ UNCHANGED <<pool, mid, lost>>

\* A large block comes back: msadsc_del_kmempool looks for its address on
\* the list for the pages ASKED for.
msadsc_del_kmempool(o) ==
    LET n     == PageAlign(o.sz)
        found == {run \in pool[PoolList(n)] : Adr(run.p) = o.a}
    IN  /\ o.sz > OBJSORPAGE
        /\ Cardinality(mid) < THREADS
        /\ out' = out \ {o}
        /\ pool' = [pool EXCEPT ![PoolList(n)] = @ \ found]
        /\ mid' = mid \cup {[op |-> "merge", run |-> run, sz |-> o.sz] : run \in found}
        /\ lost' = IF found = {} THEN lost \cup {o} ELSE lost
        /\ UNCHANGED <<free, slabVars, died>>

\* The end of kmempool_pages_core_delete.
merge_pages(x) ==
    LET back == mm_merge_pages(free, x.run, PageAlign(x.sz))
    IN  /\ x.op = "merge"
        /\ free' = back.free
        /\ mid' = mid \ {x}
        /\ lost' = IF back.ok THEN lost
                   ELSE lost \cup {[a |-> Adr(x.run.p), sz |-> x.sz]}
        /\ UNCHANGED <<slabVars, pool, out, died>>

Next ==
    /\ ~died
    /\ \/ \E sz \in Sizes :
             /\ Cardinality(out) + Cardinality(mid) < HOLDMAX
             /\ krlnew_objsz(sz) \/ krlnew_pages(sz)
       \/ \E x \in mid : msadsc_add_kmempool(x) \/ merge_pages(x)
       \/ \E o \in out : krldelete_objsz(o) \/ msadsc_del_kmempool(o)

Spec == Init /\ [][Next]_vars

-----------------------------------------------------------------------------
(* Properties.                                                             *)

Runs(ko) == {ko.run} \cup Range(ko.ext)

\* The bytes of a header, of a whole object or of a block.
Bytes(a, n) == a .. a + n - 1

\* Inside the runs of a kmsob_t the headers, the free objects and the small
\* blocks callers hold never share a byte, and none passes the end of its
\* run; an object is on so_frelst once or held once (_create_init_kmsob,
\* kmsob_extn_pages and scan_dfszkmsob_isok agree on where objects start).
ObjectsApart ==
    \A k \in DOMAIN kms :
        LET ko    == kms[k]
            held  == {o.a : o \in {q \in out : \E r \in Runs(ko) :
                         q.a \in Bytes(Adr(r.p), r.n * PAGESIZE)}}
            heads == {Bytes(Adr(k), SOHDR)}
                        \cup {Bytes(Adr(r.p), EXTHDR) : r \in Range(ko.ext)}
            objs  == {Bytes(a, ko.objsz) : a \in held \cup Range(ko.fre)}
        IN  /\ held \cap Range(ko.fre) = {}
            /\ IsInjective(ko.fre)
            /\ \A E, F \in heads \cup objs : E # F => E \cap F = {}
            /\ \A E \in objs : \E r \in Runs(ko) :
                 E \subseteq Bytes(Adr(r.p), r.n * PAGESIZE)

\* so_fobjnr counts so_frelst and so_mobjnr - so_fobjnr the objects that
\* callers hold, so the last krldelete is seen as the last.
CountsExact ==
    /\ \A k \in DOMAIN kms :
         LET ko == kms[k] IN
         /\ ko.f = Len(ko.fre)
         /\ ko.m - ko.f = Cardinality({o \in out : \E r \in Runs(ko) :
                             o.a \in Bytes(Adr(r.p), r.n * PAGESIZE)})
    /\ \A i \in Lists : emnr[i] = Len(lst[i])
    /\ msobnr = Cardinality(DOMAIN kms)

\* A size list has one kmsob_t while a caller holds an object of its size
\* and none otherwise: a second is never made, and the last krldelete gives
\* all its pages back (_destroy_kmsob).  ol_cahe and ks_msobche, which are
\* used without any check, never outlive the kmsob_t they point to.  And no
\* call of system_error in kmsob.c is reached.
SlabsExact ==
    /\ ~died
    /\ CountsExact
    /\ \A i \in Lists :
         /\ Len(lst[i]) = IF \E o \in out : /\ o.sz <= OBJSORPAGE
                                            /\ onmsz_retn_koblst(o.sz) = i
                          THEN 1 ELSE 0
         /\ cahe[i] # NULL => cahe[i] \in Range(lst[i])
    /\ msobche # NULL => msobche \in DOMAIN kms
    /\ UNION {Range(lst[i]) : i \in Lists} = DOMAIN kms

\* Every page is free, or in one run of one kmsob_t, or in one block of the
\* page pool, or in the hands of a thread, or was lost with a block whose
\* list entry is gone; none is in two of these and none is forgotten.  Such a
\* block has a number of pages that is no power of two: it is listed under the
\* pages it was given and looked for under the pages that were asked for.
\* Every other block can be given back with the size it was asked with.
PagesExact ==
    LET owned == UNION {{RunPages(r) : r \in Runs(kms[k])} : k \in DOMAIN kms}
                    \cup {RunPages(r) : r \in UNION Range(pool)}
                    \cup {RunPages(x.run) : x \in mid}
        gone  == {p \in Pages \ free : \E o \in lost : p >= o.a \div PAGESIZE
                     /\ p < o.a \div PAGESIZE + RealPages(PageAlign(o.sz))}
    IN  /\ \A E, F \in owned : E # F => E \cap F = {}
        /\ free \cap UNION owned = {}
        /\ Pages = free \cup UNION owned \cup gone
        /\ \A o \in lost : RealPages(PageAlign(o.sz)) # PageAlign(o.sz)
        /\ \A o \in out : o.sz > OBJSORPAGE =>
             \E i \in DOMAIN pool : \E r \in pool[i] :
                /\ Adr(r.p) = o.a
                /\ r.n = PageAlign(o.sz) => i = PoolList(PageAlign(o.sz))

\* The heap gives out runs of bytes the way the page allocator gives out
\* runs of pages: bytes nobody has, and a block comes back as a whole.
HeapBytes == UNION {Bytes(Adr(p), PAGESIZE) : p \in Pages}

HeldBytes ==
    {Bytes(o.a, o.sz) : o \in out \cup lost}
        \cup {Bytes(Adr(x.run.p), x.sz) : x \in {y \in mid : y.op = "merge"}}

Heap == INSTANCE PageAlloc WITH
    Pages <- HeapBytes, free <- HeapBytes \ UNION HeldBytes, out <- HeldBytes

\* krlnew and krldelete implement that allocator, whatever page blocks, size
\* lists and extensions they use for it.
ImplementsHeap == Heap!Spec
=============================================================================
