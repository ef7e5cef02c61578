------------------------------- MODULE Device -------------------------------
(***************************************************************************)
(* The device layer: the table of devices that the drivers fill at boot     *)
(* (krldevice.c), the object nodes (krlobjnode.c), the handle table of each  *)
(* thread (krlthread.c), and the services that open, use and close a handle *)
(* (krlsveopen.c, krlsveread.c, krlsvewrite.c, krlsveioctrl.c,              *)
(* krlsveclose.c) down to the drivers' open and close functions.            *)
(*                                                                          *)
(* A step is a stretch between two accesses to what threads share: the heap *)
(* that object nodes come from, and dev_count, which is tested without      *)
(* dev_lock and then changed under it. The table of devices does not change *)
(* after boot. A node is written by the thread that has it in its table.    *)
(* krlsve_lseek always fails, before it looks at anything, and is left out; *)
(* so is the request queue of a device, which nothing uses. hal_sysdie is a *)
(* loop that its thread never leaves, with interrupts on: others go on.     *)
(***************************************************************************)
EXTENDS Integers, Sequences, FiniteSets, FiniteSetsExt, Functions

CONSTANTS
    Threads,
    Nodes,           \* object nodes there is memory for
    TD_HAND_MAX,
    COUNTMAX,        \* ~0UL, the largest uint_t
    NULL

Hands == 0 .. TD_HAND_MAX - 1
NO_HAND == -1

\* osdrvetytabl: the drivers in the order in which they are started, each with
\* its one device.
osdrvetytabl == <<"systick", "rfs", "uart">>
Devices == Range(osdrvetytabl)

\* What is asked for: a device (the clock too, which the library opens but no
\* driver has), or a file to open or to make.
Requests ==
    [dev : Devices \cup {"rtc"}, type : {"DEV"}, acsflgs : {"none"}] \cup
    [dev : {"rfs"}, type : {"FIL"}, acsflgs : {"NEWFILE", "OPEFILE"}]

\* What a node says, from when it is made: the device, the type (OBJN_TY_DEV,
\* OBJN_TY_FIL) and the flag for rfs_open.
Node == {o \in Requests : o.dev \in Devices}

ASSUME DeviceAssumption ==
    /\ IsFiniteSet(Threads)
    /\ IsFiniteSet(Nodes)
    /\ TD_HAND_MAX \in Nat \ {0}
    /\ COUNTMAX \in Nat /\ COUNTMAX > Cardinality(Nodes)
    /\ NULL \notin Nodes \cup Devices \cup Requests

VARIABLES
    boot,            \* the driver that init_krldriver starts next, 0 after
                     \* one has failed
    osdevtable,      \* the devices that krlnew_device has put into the table
    dev_count,       \* dev_count of each device
    td_handtbl,      \* td_handtbl[t][h]: the node behind handle h of thread t
    node,            \* node[n]: what is in object node n, NULL if it is free
    loc,             \* each thread's place in a service
    lost             \* nodes in the tables of threads that have exited

vars == <<boot, osdevtable, dev_count, td_handtbl, node, loc, lost>>
booted == <<boot, osdevtable>>

Idle == [pc |-> "user"]
At(t, pc) == loc[t].pc = pc
Booted == boot > Len(osdrvetytabl)

Init ==
    /\ boot = 1
    /\ osdevtable = {}
    /\ dev_count = [d \in Devices |-> 0]
    /\ td_handtbl = [t \in Threads |-> [h \in Hands |-> NULL]]
    /\ node = [n \in Nodes |-> NULL]
    /\ loc = [t \in Threads |-> Idle]
    /\ lost = {}

\* No two of the devices have the same id.
krlnew_device(d) == osdevtable \cup {d}

\* The table after an entry function has failed: those of the keyboard and the
\* timer may do so after they have put their device into it.
EntryFails(d) == IF d = "rfs" THEN {osdevtable} ELSE {osdevtable, krlnew_device(d)}

\* init_krldriver: the entry function of the next driver makes the device and
\* puts it into the table. One that fails ends the boot.
krlrun_driverentry ==
    LET d == osdrvetytabl[boot]
    IN  /\ boot \in 1 .. Len(osdrvetytabl)
        /\ \/ osdevtable' = krlnew_device(d) /\ boot' = boot + 1
           \/ osdevtable' \in EntryFails(d) /\ boot' = 0
        /\ UNCHANGED <<dev_count, td_handtbl, node, loc, lost>>

-----------------------------------------------------------------------------
Go(t, l) == loc' = [loc EXCEPT ![t] = l]

\* Back to the caller, whatever the result.
Return(t) == Go(t, Idle)

\* hal_sysdie in thread t.
hal_sysdie(t, why) ==
    Go(t, [pc |-> "die", node |-> loc[t].node, hand |-> loc[t].hand, why |-> why])

\* The lookup of the device and krlnew_objnode. A file is opened on the file
\* system's device; a new one gets no handle.
krlsve_core_open(t, o) ==
    /\ Booted /\ At(t, "user")
    /\ \/ /\ o.dev \in osdevtable
          /\ \E n \in Nodes :
               /\ node[n] = NULL
               /\ node' = [node EXCEPT ![n] = o]
               /\ Go(t, [pc |-> IF o.acsflgs = "NEWFILE" THEN "open" ELSE "add",
                         node |-> n, hand |-> NO_HAND])
       \/ /\ o.dev \notin osdevtable \/ \A n \in Nodes : node[n] # NULL
          /\ Return(t)
          /\ UNCHANGED node
    /\ UNCHANGED <<booted, dev_count, td_handtbl, lost>>

\* Mutant: the search starts at handle 1.
FreeFromOne(t) == {h \in Hands \ {0} : td_handtbl[t][h] = NULL}

FreeHands(t) == {h \in Hands : td_handtbl[t][h] = NULL}

\* The node goes to the first free handle of the thread, if there is one.
krlthd_add_objnode(t) ==
    LET h == Min(FreeHands(t))
    IN  /\ At(t, "add")
        /\ \/ /\ FreeHands(t) # {}
              /\ td_handtbl' = [td_handtbl EXCEPT ![t][h] = loc[t].node]
              /\ Go(t, [loc[t] EXCEPT !.pc = "open", !.hand = h])
           \/ /\ FreeHands(t) = {}
              /\ Go(t, [loc[t] EXCEPT !.pc = "res"])
              /\ UNCHANGED td_handtbl
        /\ UNCHANGED <<booted, dev_count, node, lost>>

\* What follows the driver's open: the node of a new file is given back (the
\* result is 0, as for the first handle); anything else is open.
Opened(t) ==
    IF node[loc[t].node].acsflgs = "NEWFILE"
    THEN Go(t, [loc[t] EXCEPT !.pc = "del"])
    ELSE Return(t)

\* Mutant: the path for devices dies as the path for files does.
AnyFailureDies(t) ==
    hal_sysdie(t, IF node[loc[t].node].acsflgs = "OPEFILE" THEN "open sve die^^^^^^" ELSE "open dev die")

\* A file that cannot be opened ends the thread; other failures are undone at
\* res_step.
OpenFailed(t) ==
    IF node[loc[t].node].acsflgs = "OPEFILE"
    THEN hal_sysdie(t, "open sve die^^^^^^")
    ELSE Go(t, [loc[t] EXCEPT !.pc = "res"])

\* krldev_io and krldev_call_driver: thread t is in the open function of
\* device d.
Calls(t, d) == At(t, "open") /\ node[loc[t].node].dev = d

\* uart_open and systick_open count, after a test of dev_count, which only
\* uart_open passes on.
uart_open(t) ==
    /\ Calls(t, "uart")
    /\ IF dev_count["uart"] >= COUNTMAX THEN OpenFailed(t)
       ELSE Go(t, [loc[t] EXCEPT !.pc = "inc"])
    /\ UNCHANGED <<booted, dev_count, td_handtbl, node, lost>>

systick_open(t) ==
    /\ Calls(t, "systick")
    /\ IF dev_count["systick"] >= COUNTMAX THEN Opened(t)
       ELSE Go(t, [loc[t] EXCEPT !.pc = "inc"])
    /\ UNCHANGED <<booted, dev_count, td_handtbl, node, lost>>

\* A file is opened or made, which may fail; anything else fails.
rfs_open(t) ==
    /\ Calls(t, "rfs")
    /\ \/ node[loc[t].node].acsflgs # "none" /\ Opened(t)
       \/ OpenFailed(t)
    /\ UNCHANGED <<booted, dev_count, td_handtbl, node, lost>>

\* Under dev_lock.
krldev_inc_devcount(t) ==
    /\ At(t, "inc")
    /\ dev_count' = [dev_count EXCEPT ![node[loc[t].node].dev] = @ + 1]
    /\ Opened(t)
    /\ UNCHANGED <<booted, td_handtbl, node, lost>>

\* Mutant: the handle is kept.
KeepHand(t) ==
    /\ At(t, "res")
    /\ Go(t, [loc[t] EXCEPT !.pc = "del"])
    /\ UNCHANGED <<booted, dev_count, td_handtbl, node, lost>>

\* res_step of krlsve_core_open: the handle, if there is one, is given back.
res_step(t) ==
    LET h == loc[t].hand
    IN  /\ At(t, "res")
        /\ IF h # NO_HAND /\ td_handtbl[t][h] = NULL
             THEN hal_sysdie(t, "open api td del objnode err") /\ UNCHANGED td_handtbl
             ELSE /\ td_handtbl' = IF h = NO_HAND THEN td_handtbl
                                   ELSE [td_handtbl EXCEPT ![t][h] = NULL]
                  /\ Go(t, [loc[t] EXCEPT !.pc = "del"])
        /\ UNCHANGED <<booted, dev_count, node, lost>>

\* krldelete of the node, which fails if the node is free already.
krldel_objnode(t) ==
    LET n == loc[t].node
    IN  /\ At(t, "del")
        /\ node' = [node EXCEPT ![n] = NULL]
        /\ IF node[n] = NULL THEN hal_sysdie(t, "krldel_objnode err")
                             ELSE Return(t)
        /\ UNCHANGED <<booted, dev_count, td_handtbl, lost>>

-----------------------------------------------------------------------------
\* The handle is looked up; read, write and ioctrl go to the driver and come
\* back without a change to what is modelled here (the keyboard is in Kboard,
\* the file system in Rfs). The thread may wait in the driver.
krlsve_core_rw(t, h) ==
    /\ Booted /\ At(t, "user")
    /\ IF td_handtbl[t][h] = NULL THEN Return(t)
       ELSE Go(t, [pc |-> "rw", node |-> td_handtbl[t][h], hand |-> h])
    /\ UNCHANGED <<booted, dev_count, td_handtbl, node, lost>>

DriverReturns(t) ==
    /\ At(t, "rw")
    /\ Return(t)
    /\ UNCHANGED <<booted, dev_count, td_handtbl, node, lost>>

\* Mutant: the last count is never given up.
MoreThanOne(d) == dev_count[d] > 1

\* The test that krldev_dec_devcount makes before it takes dev_lock.
Counting(d) == dev_count[d] >= 1

\* The close functions of the drivers, with l the way on from a success.
uart_close(t, l) ==
    IF Counting("uart") THEN Go(t, [l EXCEPT !.pc = "dec"]) ELSE Return(t)

systick_close(t, l) ==
    IF Counting("systick") THEN Go(t, [l EXCEPT !.pc = "dec"]) ELSE Go(t, l)

\* A node without on_finode has no file.
rfs_close(t, l) ==
    IF node[l.node].acsflgs = "OPEFILE" THEN Go(t, l) ELSE Return(t)

\* The handle is looked up and the driver's close is called; when that fails,
\* the handle stays.
krlsve_core_close(t, h) ==
    LET n == td_handtbl[t][h]
        l == [pc |-> "delhand", node |-> n, hand |-> h]
    IN  /\ Booted /\ At(t, "user")
        /\ \/ n = NULL /\ Return(t)
           \/ n # NULL /\ node[n].dev = "uart" /\ uart_close(t, l)
           \/ n # NULL /\ node[n].dev = "systick" /\ systick_close(t, l)
           \/ n # NULL /\ node[n].dev = "rfs" /\ rfs_close(t, l)
        /\ UNCHANGED <<booted, dev_count, td_handtbl, node, lost>>

\* Under dev_lock.
krldev_dec_devcount(t) ==
    /\ At(t, "dec")
    /\ dev_count' = [dev_count EXCEPT ![node[loc[t].node].dev] =
                       IF @ = 0 THEN COUNTMAX ELSE @ - 1]
    /\ Go(t, [loc[t] EXCEPT !.pc = "delhand"])
    /\ UNCHANGED <<booted, td_handtbl, node, lost>>

krlthd_del_objnode(t) ==
    LET h == loc[t].hand
    IN  /\ At(t, "delhand")
        /\ IF td_handtbl[t][h] = NULL
             THEN hal_sysdie(t, "close api td del objnode err") /\ UNCHANGED td_handtbl
             ELSE /\ td_handtbl' = [td_handtbl EXCEPT ![t][h] = NULL]
                  /\ Go(t, [loc[t] EXCEPT !.pc = "del"])
        /\ UNCHANGED <<booted, dev_count, node, lost>>

\* krlsched_exit frees neither the handles of the thread nor their nodes, and
\* the devices keep counting them. A new thread starts with an empty table.
krlsve_core_exit_thread(t) ==
    /\ Booted /\ At(t, "user")
    /\ lost' = lost \cup (Range(td_handtbl[t]) \ {NULL})
    /\ td_handtbl' = [td_handtbl EXCEPT ![t] = [h \in Hands |-> NULL]]
    /\ UNCHANGED <<booted, dev_count, node, loc>>

Next ==
    \/ krlrun_driverentry
    \/ \E t \in Threads :
         \/ \E o \in Requests : krlsve_core_open(t, o)
         \/ krlthd_add_objnode(t) \/ krldev_inc_devcount(t)
         \/ uart_open(t) \/ systick_open(t) \/ rfs_open(t)
         \/ res_step(t) \/ krldel_objnode(t)
         \/ \E h \in Hands : krlsve_core_rw(t, h) \/ krlsve_core_close(t, h)
         \/ DriverReturns(t)
         \/ krldev_dec_devcount(t) \/ krlthd_del_objnode(t)
         \/ krlsve_core_exit_thread(t)

Spec == Init /\ [][Next]_vars

-----------------------------------------------------------------------------
(* Properties.                                                             *)

\* The handles that have a node, and the threads that have one which is not,
\* or no longer, in their table.
Filled == {s \in Threads \X Hands : td_handtbl[s[1]][s[2]] # NULL}
NodeAt(s) == td_handtbl[s[1]][s[2]]
Carrying == {t \in Threads : ~ At(t, "user") /\ loc[t].node \notin Range(td_handtbl[t])}

\* Every object node is free, or behind one handle of one thread, or carried by
\* one running service, or left behind by an exited thread, and only one of
\* these: no failure path of open loses a node or frees one that a handle
\* still leads to, and close frees each once.
NodesExact ==
    LET shown == {NodeAt(s) : s \in Filled}
        carried == {loc[t].node : t \in Carrying}
    IN  /\ \A r, s \in Filled : NodeAt(r) = NodeAt(s) => r = s
        /\ \A t, u \in Carrying : loc[t].node = loc[u].node => t = u
        /\ shown \cap carried = {} /\ (shown \cup carried) \cap lost = {}
        /\ {n \in Nodes : node[n] # NULL} = shown \cup carried \cup lost

\* A handle is in use from the moment its device counts it (or, for a file,
\* has opened it) until the device stops counting it.
InUse(s) ==
    s \in Filled /\ ~ (/\ loc[s[1]].pc \in {"open", "inc", "res", "delhand", "die"}
                      /\ loc[s[1]].hand = s[2])

\* dev_count of the keyboard and the timer is the number of handles in use,
\* those of exited threads included. The test of dev_count outside dev_lock
\* is therefore never out of date in a way that matters: whoever counts down
\* finds its own count there, and the counter never wraps.
CountExact ==
    \A d \in {"uart", "systick"} :
        dev_count[d] = Cardinality({s \in Threads \X Hands : InUse(s) /\ node[NodeAt(s)].dev = d})
                       + Cardinality({n \in lost : node[n].dev = d})

\* The only hal_sysdie that a thread ever runs into is the one in
\* krlsve_core_open after a file could not be opened: the ones that stand for
\* a handle or a node that is gone already are never reached.
OnlyMissingFileDies ==
    \A t \in Threads : At(t, "die") => loc[t].why = "open sve die^^^^^^"

\* The handles as the threads see them, and the devices' counts.
OpenHandles == [s \in Threads \X Hands |-> IF InUse(s) THEN node[NodeAt(s)].dev ELSE NULL]
Users == [d \in {"uart", "systick"} |-> dev_count[d]]

Handles == INSTANCE HandleTable WITH open <- OpenHandles, users <- Users

\* The services implement a table of handles: an open takes the lowest free
\* handle and counts, or changes nothing, whatever step of it fails and
\* whatever other threads do in between; a close undoes one open.
ImplementsHandles == Handles!Spec
=============================================================================
