-------------------------------- MODULE Vma --------------------------------
(***************************************************************************)
(* Virtual address spaces (kernel/krlvadrsmem.c): the sorted list of ranges *)
(* of every process, the boxes that hold the pages behind a range, the      *)
(* cache of boxes, and the page fault that supplies a page.                 *)
(*                                                                          *)
(* An address counts half pages, because the user half of the address space *)
(* ends one byte before a page does (USER_VIRTUAL_ADDRESS_END). Sizes are   *)
(* rounded to pages. The page tables are the map that HalMmu implements;    *)
(* making an entry may fail. kva_limits is 0 in every call and left out, as *)
(* is the copying of the program text into a new page. Every operation runs *)
(* under vs_lock with interrupts off and is one step.                       *)
(***************************************************************************)
EXTENDS Integers, Sequences, FiniteSets

CONSTANTS
    Mms,             \* processes (mmadrsdsc_t)
    DSCMAX,          \* range descriptors there is memory for
    Boxes,           \* memory for page boxes (kvmemcbox_t)
    Frames,          \* physical pages of the user area
    APPRUN,          \* where programs are loaded (APPRUN_START_VITRUALADDR)
    HEAP,            \* THREAD_HEAPADR_START
    STACK,           \* the lowest address of the stack
    END,             \* USER_VIRTUAL_ADDRESS_END
    CACHEMAX,        \* kbm_cachemax
    Wants,           \* sizes that are asked for, in pages
    WIDTH,           \* uint_t counts modulo WIDTH
    NULL

PGSZ == 2
Page(a) == a \div PGSZ
Addrs == 1 .. END
VPages == {Page(a) : a \in Addrs}

ASSUME VmaAssumption ==
    /\ {DSCMAX, APPRUN, HEAP, STACK, END, CACHEMAX} \subseteq Nat
    /\ Wants \subseteq Nat \ {0}
    /\ WIDTH \in Nat \ {0}
    /\ 2 * PGSZ <= APPRUN /\ APPRUN < HEAP /\ HEAP + PGSZ <= STACK /\ STACK < END
    /\ \A a \in {APPRUN, HEAP, STACK, END + 1} : a % PGSZ = 0
    /\ NULL \notin Boxes \cup Frames \cup Nat

VARIABLES
    vs,              \* vs[m]: virmemadrs_t of process m; its pointers curr
                     \* and end are positions in its list, 0 for none
    box,             \* box[b]: page box b
    mgr,             \* kvmemcboxmgr_t
    map,             \* map[m]: the page tables of m
    ufree,           \* the free pages of the user area
    lost,            \* pages whose place a later fault gave to another page
    ready,           \* the processes whose program is loaded
    stop             \* the processes whose thread has ended in hal_sysdie

vars == <<vs, box, mgr, map, ufree, lost, ready, stop>>
phys == <<box, mgr, map, ufree, lost>>

virmemadrs_t_init == [list |-> <<>>, curr |-> 0, end |-> 0, nr |-> 0]

kmvarsdsc_t_init(start, end, type) == [start |-> start, end |-> end, type |-> type, box |-> NULL]

\* Whether kmsob_new has memory for n more descriptors.
new_kmvarsdsc(n) ==
    Cardinality(UNION {{m} \X (DOMAIN vs[m].list) : m \in Mms}) + n <= DSCMAX

\* list_add of r after position i. Positions after i move; r is at i + 1.
ListAdd(v, i, r) ==
    [v EXCEPT !.list = SubSeq(@, 1, i) \o <<r>> \o SubSeq(@, i + 1, Len(@)),
              !.curr = i + 1,
              !.end = IF i = Len(v.list) THEN i + 1 ELSE @ + 1]

\* The first position of list l that satisfies T, or 0.
First(l, T(_)) ==
    LET I == {i \in DOMAIN l : T(i)}
    IN  IF I = {} THEN 0 ELSE CHOOSE i \in I : \A j \in I : i <= j

-----------------------------------------------------------------------------
Init ==
    /\ vs = [m \in Mms |-> virmemadrs_t_init]
    /\ box = [b \in Boxes |-> [cont |-> 0, msas |-> {}]]
    /\ mgr = [head |-> {}, nr |-> 0, cache |-> <<>>, cachenr |-> 0]
    /\ map = [m \in Mms |-> [v \in VPages |-> NULL]]
    /\ ufree = Frames
    /\ lost = {}
    /\ ready = {}
    /\ stop = {}

\* new_mmadrsdsc: three ranges, or none when memory for descriptors is short
\* (the address space is then given up).
kvma_inituserspace_virmemadrs(m) ==
    /\ vs[m] = virmemadrs_t_init /\ m \notin ready
    /\ new_kmvarsdsc(3)
    /\ vs' = [vs EXCEPT ![m] =
           [list |-> <<kmvarsdsc_t_init(PGSZ, 2 * PGSZ, "none"),
                       kmvarsdsc_t_init(HEAP, HEAP + PGSZ, "heap"),
                       kmvarsdsc_t_init(STACK, END, "stack")>>,
            curr |-> 0, end |-> 3, nr |-> 3 % WIDTH]]
    /\ UNCHANGED <<phys, ready, stop>>

FitsBeforeEnd(l, i, start, n) ==
    LET at == IF start = NULL THEN l[i].end ELSE start
    IN  l[i].end <= at /\ at + n < END

\* Whether size n fits after range i of list l, at start or, if start is NULL,
\* right after the range.
vma_find_kmvarsdsc_is_ok(l, i, start, n) ==
    LET at == IF start = NULL THEN l[i].end ELSE start
    IN  /\ l[i].end <= at
        /\ IF i = Len(l) THEN at + n < END ELSE at + n <= l[i + 1].start

\* The range that a new piece goes after: the current one or else the first
\* one of the same type, or else the first one.
vma_find_kmvarsdsc(v, start, n, type) ==
    LET ok(i) == vma_find_kmvarsdsc_is_ok(v.list, i, start, n)
        same(i) == v.list[i].type = type /\ ok(i)
    IN  IF n > END \/ (start # NULL /\ start + n > END) THEN 0
        ELSE IF v.curr # 0 /\ same(v.curr) THEN v.curr
        ELSE IF First(v.list, same) # 0 THEN First(v.list, same)
        ELSE First(v.list, ok)

\* A piece of n half pages of the given type, at start or anywhere: the range
\* before it grows, or a range is added. Nothing happens if none fits or memory
\* for a descriptor is short.
vma_new_vadrs_core(m, start, n, type) ==
    LET i == vma_find_kmvarsdsc(vs[m], start, n, type)
        r == vs[m].list[i]
        at == IF start = NULL THEN r.end ELSE start
        grow == at = r.end /\ r.type = type
    IN  /\ i # 0
        /\ \/ /\ grow
              /\ vs' = [vs EXCEPT ![m].list[i].end = @ + n, ![m].curr = i]
           \/ /\ ~ grow /\ new_kmvarsdsc(1)
              /\ vs' = [vs EXCEPT ![m] = ListAdd(@, i, kmvarsdsc_t_init(at, at + n, type))]
        /\ UNCHANGED <<phys, stop>>

\* krlthread_execvl loads the program before the process runs.
krlthread_execvl(m, n) ==
    /\ vs[m].list # <<>> /\ m \notin ready
    /\ APPRUN + PGSZ * n <= HEAP
    /\ vma_new_vadrs_core(m, APPRUN, PGSZ * n, "bin")
    /\ ready' = ready \cup {m}

Running(m) == m \in ready \ stop

krlsve_core_mallocblk(m, n) ==
    /\ Running(m)
    /\ vma_new_vadrs_core(m, NULL, PGSZ * n, "heap")
    /\ UNCHANGED ready

-----------------------------------------------------------------------------
Cached == {mgr.cache[i] : i \in DOMAIN mgr.cache}

\* A box for a range that has none: the one that was put into the cache last,
\* or a new one if there is memory for it.
knl_get_kvmemcbox ==
    IF mgr.cachenr > 0 /\ mgr.cache # <<>> THEN {mgr.cache[1]} ELSE Boxes \ (mgr.head \cup Cached)

GetUncounted(b) ==
    [mgr EXCEPT !.head = @ \cup {b}, !.nr = @ + 1, !.cache = IF b \in Cached THEN Tail(@) ELSE @]

\* The manager after box b was got.
GetBox(b) ==
    IF b \in Cached
    THEN [head |-> mgr.head \cup {b}, nr |-> mgr.nr + 1, cache |-> Tail(mgr.cache), cachenr |-> mgr.cachenr - 1]
    ELSE [mgr EXCEPT !.head = @ \cup {b}, !.nr = @ + 1]

\* The boxes and the manager after a range let go of box b: the last one to do
\* so puts it into the cache or, when that is full, gives it up.
knl_put_kvmemcbox(b, bx) ==
    LET bx1 == [bx EXCEPT ![b].cont = @ - 1]
    IN  IF b = NULL THEN [box |-> bx, mgr |-> mgr]
        ELSE IF bx1[b].cont >= 1 THEN [box |-> bx1, mgr |-> mgr]
        ELSE IF mgr.cachenr >= CACHEMAX
        THEN [box |-> bx1, mgr |-> [mgr EXCEPT !.head = @ \ {b}, !.nr = @ - 1]]
        ELSE [box |-> bx1, mgr |-> [head |-> mgr.head \ {b}, nr |-> mgr.nr - 1,
                                    cache |-> <<b>> \o mgr.cache, cachenr |-> mgr.cachenr + 1]]

vma_map_find_kmvarsdsc(v, a) ==
    LET has(i) == v.list[i].start <= a /\ a < v.list[i].end
    IN  IF v.curr # 0 /\ has(v.curr) THEN v.curr ELSE First(v.list, has)

\* The page fault: the range that has the address gets a box if it has none,
\* the box gets a page, and the page tables lead to it. Without a range, a page
\* or a table the thread ends in hal_sysdie; without a box, which is found
\* missing under vs_lock, the machine stops. ok: hal_mmu_transform succeeds.
\* The address may have a page already: hal_fault_allocator reads it from cr2
\* with interrupts on, where it may be the address of another fault.
krluserspace_accessfailed(m, a, ok) ==
    LET i == vma_map_find_kmvarsdsc(vs[m], a)
        fresh == vs[m].list[i].box = NULL
        B == IF fresh THEN knl_get_kvmemcbox ELSE {vs[m].list[i].box}
    IN  /\ Running(m)
        /\ \/ /\ i = 0
              /\ stop' = stop \cup {m}
              /\ UNCHANGED <<vs, phys>>
           \/ /\ i # 0 /\ B = {}
              /\ stop' = Mms
              /\ UNCHANGED <<vs, phys>>
           \/ i # 0 /\ \E b \in B :
              LET had == IF fresh THEN [cont |-> 1, msas |-> {}] ELSE box[b]
              IN  /\ vs' = [vs EXCEPT ![m].list[i].box = b]
                  /\ mgr' = IF fresh THEN GetBox(b) ELSE mgr
                  /\ \/ \E f \in ufree :
                        /\ ok
                        /\ map' = [map EXCEPT ![m][Page(a)] = f]
                        /\ ufree' = ufree \ {f}
                        /\ lost' = lost \cup ({map[m][Page(a)]} \ {NULL})
                        /\ box' = [box EXCEPT ![b] = [had EXCEPT !.msas = @ \cup {f}]]
                        /\ UNCHANGED stop
                     \/ /\ ufree = {} \/ ~ ok
                        /\ box' = [box EXCEPT ![b] = had]
                        /\ stop' = stop \cup {m}
                        /\ UNCHANGED <<map, ufree, lost>>
        /\ UNCHANGED ready

-----------------------------------------------------------------------------
vma_del_find_kmvarsdsc(v, start, n) ==
    LET has(i) == v.list[i].start <= start /\ start + n <= v.list[i].end
    IN  IF v.curr # 0 /\ has(v.curr) THEN v.curr ELSE First(v.list, has)

UnmapOnly(m, b, start, n) ==
    [map |-> [map EXCEPT ![m] = [v \in VPages |-> IF PGSZ * v \in start .. start + n - 1 THEN NULL ELSE @[v]]],
     box |-> box, ufree |-> ufree]

KeepMapped(m, b, start, n) == [map |-> map, box |-> box, ufree |-> ufree]

\* The page tables, the box b of the range and the free pages without the
\* pages mapped in a piece of a range. A page the box does not have is not
\* freed.
vma_del_unmapping_phyadrs(m, b, start, n) ==
    LET P == {Page(start + k) : k \in 0 .. n - 1}
        F == {map[m][v] : v \in P} \ {NULL}
        del == IF b = NULL THEN {} ELSE F \cap box[b].msas
    IN  [map |-> [map EXCEPT ![m] = [v \in VPages |-> IF v \in P THEN NULL ELSE @[v]]],
         box |-> IF b = NULL THEN box ELSE [box EXCEPT ![b].msas = @ \ del],
         ufree |-> ufree \cup del]

\* vma_del_set_endcurrkmvd and list_del: range i goes, the one after it or else
\* the one before it is the current one.
ListDel(v, i) ==
    [v EXCEPT !.list = SubSeq(@, 1, i - 1) \o SubSeq(@, i + 1, Len(@)),
              !.curr = IF i = Len(v.list) THEN i - 1 ELSE i,
              !.end = IF i = Len(v.list) THEN i - 1 ELSE @ - 1]

\* A piece of a range comes back: all of it, its beginning, its end, or a part
\* from its middle, which leaves two ranges that share a box. Nothing happens
\* if no range has it or memory for the second range is short.
vma_del_vadrs_core(m, start, n) ==
    LET v == vs[m]
        i == vma_del_find_kmvarsdsc(v, start, n)
        r == v.list[i]
        u == vma_del_unmapping_phyadrs(m, r.box, start, n)
    IN  /\ i # 0
        /\ \/ /\ r.start = start /\ r.end = start + n
              /\ vs' = [vs EXCEPT ![m] = [ListDel(v, i) EXCEPT !.nr = (v.nr + WIDTH - 1) % WIDTH]]
              /\ LET p == knl_put_kvmemcbox(r.box, u.box)
                 IN  box' = p.box /\ mgr' = p.mgr
           \/ /\ r.start = start /\ r.end > start + n
              /\ vs' = [vs EXCEPT ![m].list[i].start = start + n]
              /\ box' = u.box
              /\ UNCHANGED mgr
           \/ /\ r.start < start /\ r.end = start + n
              /\ vs' = [vs EXCEPT ![m].list[i].end = start]
              /\ box' = u.box
              /\ UNCHANGED mgr
           \/ /\ r.start < start /\ r.end > start + n /\ new_kmvarsdsc(1)
              /\ vs' = [vs EXCEPT ![m] =
                     [ListAdd(v, i, [r EXCEPT !.start = start + n]) EXCEPT
                         !.list[i].end = start, !.nr = (v.nr + 1) % WIDTH]]
              /\ box' = IF r.box = NULL THEN box ELSE [u.box EXCEPT ![r.box].cont = @ + 1]
              /\ UNCHANGED mgr
        /\ map' = u.map
        /\ ufree' = u.ufree
        /\ UNCHANGED lost

krlsve_core_mfreeblk(m, start, n) ==
    /\ Running(m)
    /\ vma_del_vadrs_core(m, start, PGSZ * n)
    /\ UNCHANGED <<ready, stop>>

\* Pieces that come back are taken to start at a page, and so, without loss,
\* are addresses of faults.
Next ==
    \E m \in Mms :
        \/ kvma_inituserspace_virmemadrs(m)
        \/ \E n \in Wants : krlthread_execvl(m, n)
        \/ \E n \in Wants : krlsve_core_mallocblk(m, n)
        \/ \E v \in VPages \ {0}, n \in Wants : krlsve_core_mfreeblk(m, PGSZ * v, n)
        \/ \E v \in VPages, ok \in BOOLEAN : krluserspace_accessfailed(m, PGSZ * v, ok)

Spec == Init /\ [][Next]_vars

-----------------------------------------------------------------------------
Ranges(m) == {vs[m].list[i] : i \in DOMAIN vs[m].list}

\* The ranges of a process are sorted, not empty and do not overlap, which the
\* self-test vma_chk_one_kmva stops the machine for; the current range is on
\* the list and the last one is its last: neither pointer is left to a range
\* that was deleted.
RangesOK ==
    \A m \in Mms :
        LET l == vs[m].list
        IN  /\ \A i \in DOMAIN l : PGSZ <= l[i].start /\ l[i].start < l[i].end /\ l[i].end <= END
            /\ \A i \in DOMAIN l : i > 1 => l[i - 1].end <= l[i].start
            /\ vs[m].curr \in 0 .. Len(l)
            /\ vs[m].end = Len(l)

\* A box is shared by as many ranges as it counts, all of one process; the
\* cache holds boxes that no range has; the manager counts both kinds.  The
\* page behind a mapped address is in the box of the range that has the
\* address, so that it is freed when the address comes back.
BoxesOK ==
    LET Sharing(m, b) == {r \in Ranges(m) : r.box = b}
    IN  /\ mgr.nr = Cardinality(mgr.head) /\ mgr.cachenr = Len(mgr.cache)
        /\ Cardinality(Cached) = Len(mgr.cache) /\ Cached \cap mgr.head = {}
        /\ \A b \in Boxes : b \in mgr.head <=> \E m \in Mms : Sharing(m, b) # {}
        /\ \A b \in mgr.head, m, k \in Mms :
               Sharing(m, b) # {} /\ Sharing(k, b) # {} =>
                   m = k /\ box[b].cont = Cardinality(Sharing(m, b))
        /\ \A m \in Mms, a \in Addrs \ {END} :
               map[m][Page(a)] # NULL =>
                   \E r \in Ranges(m) :
                       /\ r.start <= a /\ a < r.end
                       /\ r.box # NULL /\ map[m][Page(a)] \in box[r.box].msas

\* Every page of the user area is free, or behind exactly one address of one
\* process; the only pages that are never freed are those that a fault at an
\* address that had a page replaced.
FramesExact ==
    /\ ufree = Frames \ (lost \cup {map[m][v] : m \in Mms, v \in VPages})
    /\ lost \cap {map[m][v] : m \in Mms, v \in VPages} = {}
    /\ \A m, k \in Mms, v, w \in VPages :
           map[m][v] # NULL /\ map[m][v] = map[k][w] => m = k /\ v = w

\* The number of ranges on the list, as the comment on vs_kmvdscnr says.
CountOfRanges == \A m \in Mms : vs[m].nr = Len(vs[m].list)

\* Ranges and page tables implement the abstract address space.
Space == INSTANCE AddressSpace WITH
             alloc <- [m \in Mms |-> {a \in Addrs : \E r \in Ranges(m) : r.start <= a /\ a < r.end}]

ImplementsAddressSpace == Space!Spec
=============================================================================
