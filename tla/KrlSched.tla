------------------------------ MODULE KrlSched ------------------------------
(***************************************************************************)
(* The thread scheduler of the Cosmos kernel with what drives it: the      *)
(* priority run lists (krlsched.c), the wait list and the semaphore built  *)
(* on it (krlwaitlist.c, krlsem.c), thread start and exit (krlthread.c,    *)
(* krlsvethread.c), the idle thread (krlcpuidle.c) and the timer and       *)
(* keyboard interrupts (drvtick.c, drvuart.c, halintupt.c).                *)
(*                                                                         *)
(* There is one CPU.  A step is a stretch of code that runs with           *)
(* interrupts off (a krlspinlock_cli section); between two steps           *)
(* interrupts are on, also inside the kernel, so an interrupt may arrive   *)
(* there, run its handler and call krlschedul on the interrupted thread's  *)
(* own kernel stack.  stk[t] is that stack: one frame per pending call.    *)
(***************************************************************************)
EXTENDS Integers, Sequences, FiniteSets, Functions, Lists

CONSTANTS
    Threads,      \* the thread_t objects that may ever be created
    Idle,         \* the cpuidle thread, never on a list
    NULL,
    PRITY_MAX,    \* number of priorities (64 in the code)
    td_priority,  \* the priority each thread is created with
    TDRUN_TICK,   \* ticks of a time slice (20 in the code)
    UINT,         \* number of values of a uint_t
    SemCap,       \* bound: keys pressed and not read
    MaxFrames     \* bound: frames on one kernel stack

Prios == 0 .. PRITY_MAX - 1

ASSUME SchedAssumption ==
    /\ Idle \notin Threads
    /\ NULL \notin Threads \cup {Idle}
    /\ PRITY_MAX \in Nat \ {0}
    /\ td_priority \in [Threads -> Prios]
    /\ TDRUN_TICK \in Nat
    /\ UINT \in Nat \ {0}
    /\ SemCap \in Nat
    /\ MaxFrames \in Nat

\* The kernel never has as many threads as a uint_t can count.
ASSUME CountAssumption == IsFiniteSet(Threads) /\ Cardinality(Threads) < UINT

VARIABLES
    td_stus,       \* thread status; "NONE" before the thread exists
    td_tick,       \* ticks used of the current slice
    stk,           \* kernel stack of each thread
    bin,           \* threads whose program krlthread_execvl has mapped
    tdl_lsth,      \* run list of each priority
    tdl_curruntd,  \* the thread of each priority taken off its run list
    tdl_nr,        \* number of runnable threads the code counts
    sda_currtd,    \* the thread on the CPU
    sda_schdflgs,  \* TRUE is NEED_SCHED_FLGS
    sda_threadnr,
    scls_threadnr,
    sda_exitlist,
    sem_count,     \* kb_sem, the keyboard's semaphore
    wl_list,       \* its wait list
    wl_tdnr,
    cli,           \* "open": interrupts on; else what runs with them off
    stale          \* history: a switch went to a thread no longer selected

thdVars  == <<td_tick, bin>>
runVars  == <<tdl_lsth, tdl_curruntd, tdl_nr>>
cntVars  == <<sda_threadnr, scls_threadnr>>
semVars  == <<sem_count, wl_list, wl_tdnr>>
vars == <<td_stus, thdVars, stk, runVars, sda_currtd, sda_schdflgs, cntVars,
          sda_exitlist, semVars, cli, stale>>

-----------------------------------------------------------------------------
(* Kernel stacks.                                                          *)

Anyone == Threads \cup {Idle}

Frame(pc, arg) == [pc |-> pc, arg |-> arg]

\* What a thread of its own program may be doing ...
UserFrames ==
    [pc : {"user", "krlsem_down", "krlsched_exit", "del_thread_addexit",
           "sysdie"}, arg : {NULL}]
      \cup [pc : {"krlthread_execvl"}, arg : Threads]

\* ... and what any thread may, the idle one included.
SchedFrames ==
    [pc : {"krlcpuidle_main", "chkneed_pmptsched", "krlschedul"}, arg : {NULL}]
      \cup [pc : {"save_to_new_context"}, arg : Anyone]

\* The current thread executes at pc, with interrupts on.
At(pc) ==
    /\ cli = "open"
    /\ stk[sda_currtd] # << >>
    /\ Last(stk[sda_currtd]).pc = pc

Arg == Last(stk[sda_currtd]).arg

Call(pc, arg) ==
    stk' = [stk EXCEPT ![sda_currtd] = Append(@, Frame(pc, arg))]

Return == stk' = [stk EXCEPT ![sda_currtd] = Front(@)]

GoTo(pc, arg) ==
    stk' = [stk EXCEPT ![sda_currtd] = Append(Front(@), Frame(pc, arg))]

-----------------------------------------------------------------------------
(* Lists.  td_list links a thread into at most one list; list_del unlinks  *)
(* it from whichever list holds it.                                        *)

UnlinkFromRunLists(t) ==
    [p \in Prios |-> list_del(tdl_lsth[p], t)]

\* Mutant: tdl_curruntd keeps the thread that leaves.
StillCurrun(t) == tdl_curruntd

\* tdl_curruntd is cleared when it is the thread that leaves.
NotCurrun(t) ==
    [tdl_curruntd EXCEPT ![td_priority[t]] = IF @ = t THEN NULL ELSE @]

\* Mutant: a count that is not taken down.
DecForgotten(n) == n

Dec(n) == (n - 1) % UINT
Inc(n) == (n + 1) % UINT

\* Boot: init_krlsched, new_cpuidle, init_user_thread (interrupts still
\* off, so its program is mapped before anyone can run it), krlcpuidle_start.
Init ==
    \E first \in Threads :
      /\ td_stus = [t \in Threads |-> IF t = first THEN "NEW" ELSE "NONE"]
      /\ td_tick = [t \in Anyone |-> 0]
      /\ stk = [t \in Anyone |->
                  CASE t = Idle  -> <<Frame("krlcpuidle_main", NULL)>>
                    [] t = first -> <<Frame("user", NULL)>>
                    [] OTHER     -> << >>]
      /\ bin = {first}
      /\ tdl_lsth = [p \in Prios |->
                       IF p = td_priority[first] THEN <<first>> ELSE << >>]
      /\ tdl_curruntd = [p \in Prios |-> NULL]
      /\ tdl_nr = [p \in Prios |-> IF p = td_priority[first] THEN 1 % UINT ELSE 0]
      /\ sda_currtd = Idle
      /\ sda_schdflgs = FALSE
      /\ sda_threadnr = 1 % UINT
      /\ scls_threadnr = 1 % UINT
      /\ sda_exitlist = << >>
      /\ sem_count = 0
      /\ wl_list = << >>
      /\ wl_tdnr = 0
      /\ cli = "open"
      /\ stale = FALSE

-----------------------------------------------------------------------------
(* krlschedul: select under sda_lock, interrupts on again, then switch.    *)

Ready(t) == td_stus[t] \in {"RUN", "NEW"}

\* No priority before p has a ready thread or a current one.
NoneBefore(p) ==
    \A q \in 0 .. p - 1 :
        /\ tdl_curruntd[q] = NULL
        /\ \A i \in DOMAIN tdl_lsth[q] : ~ Ready(tdl_lsth[q][i])

\* The i-th thread of the list is the first ready one: it leaves the list,
\* the previous current thread of that priority goes to the tail.
SelectFromList(p, i) ==
    LET t    == tdl_lsth[p][i]
        cur  == tdl_curruntd[p]
        rest == RemoveAt(tdl_lsth[p], i)
    IN  /\ At("krlschedul")
        /\ NoneBefore(p)
        /\ Ready(t)
        /\ \A j \in 1 .. i - 1 : ~ Ready(tdl_lsth[p][j])
        /\ tdl_lsth' = [tdl_lsth EXCEPT ![p] =
                          IF cur # NULL THEN Append(rest, cur) ELSE rest]
        /\ tdl_curruntd' = [tdl_curruntd EXCEPT ![p] = t]
        /\ GoTo("save_to_new_context", t)
        /\ UNCHANGED <<td_stus, thdVars, tdl_nr, sda_currtd, sda_schdflgs,
                       cntVars, sda_exitlist, semVars, cli, stale>>

SelectCurrun(p) ==
    /\ At("krlschedul")
    /\ NoneBefore(p)
    /\ \A i \in DOMAIN tdl_lsth[p] : ~ Ready(tdl_lsth[p][i])
    /\ tdl_curruntd[p] # NULL
    /\ GoTo("save_to_new_context", tdl_curruntd[p])
    /\ UNCHANGED <<td_stus, thdVars, runVars, sda_currtd, sda_schdflgs,
                   cntVars, sda_exitlist, semVars, cli, stale>>

SelectIdle ==
    /\ At("krlschedul")
    /\ NoneBefore(PRITY_MAX)
    /\ GoTo("save_to_new_context", Idle)
    /\ UNCHANGED <<td_stus, thdVars, runVars, sda_currtd, sda_schdflgs,
                   cntVars, sda_exitlist, semVars, cli, stale>>

krlsched_select_thread ==
    \/ \E p \in Prios : \E i \in DOMAIN tdl_lsth[p] : SelectFromList(p, i)
    \/ \E p \in Prios : SelectCurrun(p)
    \/ SelectIdle

\* t is the one the last selection, by whatever interrupt, left on top.
StillSelected(t) ==
    /\ t # Idle => tdl_curruntd[td_priority[t]] = t
    /\ \A q \in Prios : (t # Idle => q < td_priority[t]) =>
                          tdl_curruntd[q] = NULL

\* The switch goes to the thread selected earlier, whatever happened to it
\* since.  The frame is popped: that is where the thread resumes later.
save_to_new_context ==
    LET next == Arg
    IN  /\ At("save_to_new_context")
        /\ sda_currtd' = next
        /\ td_stus' = [t \in Threads |->
                         IF t = next /\ td_stus[t] = "NEW"
                           THEN "RUN" ELSE td_stus[t]]
        /\ stale' = (stale \/ ~ StillSelected(next))
        /\ Return
        /\ UNCHANGED <<thdVars, runVars, sda_schdflgs, cntVars, sda_exitlist,
                       semVars, cli>>

-----------------------------------------------------------------------------
(* krlsem_down, the blocking half of a read of the keyboard.               *)

SysRead ==
    /\ At("user")
    /\ sda_currtd \in bin
    /\ Call("krlsem_down", NULL)
    /\ UNCHANGED <<td_stus, thdVars, runVars, sda_currtd, sda_schdflgs,
                   cntVars, sda_exitlist, semVars, cli, stale>>

krlsem_down_take ==
    /\ At("krlsem_down")
    /\ sem_count >= 1
    /\ sem_count' = sem_count - 1
    /\ Return
    /\ UNCHANGED <<td_stus, thdVars, runVars, sda_currtd, sda_schdflgs,
                   cntVars, sda_exitlist, wl_list, wl_tdnr, cli, stale>>

\* Mutant: wl_tdnr is not counted up.
AddThreadUncounted(t) ==
    /\ wl_list' = list_add(t, list_del(wl_list, t))
    /\ UNCHANGED wl_tdnr

krlwlst_add_thread(t) ==
    /\ wl_list' = list_add(t, list_del(wl_list, t))
    /\ wl_tdnr' = wl_tdnr + 1

\* krlwlst_wait, krlsched_wait, krlwlst_add_thread; then krlschedul, and the
\* krlsem_down frame below it starts over.
krlsched_wait ==
    LET t == sda_currtd
        p == td_priority[t]
    IN  /\ At("krlsem_down")
        /\ sem_count < 1
        /\ tdl_nr[p] >= 1
        /\ td_stus' = [td_stus EXCEPT ![t] = "WAIT"]
        /\ tdl_lsth' = UnlinkFromRunLists(t)
        /\ sda_exitlist' = list_del(sda_exitlist, t)
        /\ tdl_curruntd' = NotCurrun(t)
        /\ tdl_nr' = [tdl_nr EXCEPT ![p] = Dec(@)]
        /\ krlwlst_add_thread(t)
        /\ Call("krlschedul", NULL)
        /\ UNCHANGED <<thdVars, sda_currtd, sda_schdflgs, cntVars, sem_count,
                       cli, stale>>

\* hal_sysdie inside the locked section: interrupts stay off for ever.
krlsched_wait_err ==
    /\ At("krlsem_down")
    /\ sem_count < 1
    /\ tdl_nr[td_priority[sda_currtd]] < 1
    /\ cli' = "krlsched_wait err"
    /\ UNCHANGED <<td_stus, thdVars, stk, runVars, sda_currtd, sda_schdflgs,
                   cntVars, sda_exitlist, semVars, stale>>

-----------------------------------------------------------------------------
(* Interrupts.                                                             *)

Interruptible == cli = "open" /\ Len(stk[sda_currtd]) < MaxFrames

\* uart_handle: krlsem_up counts the key and goes on to krlwlst_allup.
uart_handle ==
    /\ Interruptible
    /\ sem_count < SemCap
    /\ sem_count' = sem_count + 1
    /\ cli' = IF sem_count + 1 < 1 THEN "sem up err" ELSE "krlwlst_allup"
    /\ Call("chkneed_pmptsched", NULL)
    /\ UNCHANGED <<td_stus, thdVars, runVars, sda_currtd, sda_schdflgs,
                   cntVars, sda_exitlist, wl_list, wl_tdnr, stale>>

\* One turn of krlwlst_allup: krlsched_up moves the head of the wait list to
\* the tail of its run list.
krlsched_up ==
    LET t == Head(wl_list)
        p == td_priority[t]
    IN  /\ cli = "krlwlst_allup"
        /\ wl_list # << >>
        /\ IF wl_tdnr < 1
             THEN /\ cli' = "krlsched_up err"
                  /\ UNCHANGED <<td_stus, wl_list, wl_tdnr, tdl_lsth, tdl_nr>>
             ELSE /\ wl_list' = Tail(wl_list)
                  /\ wl_tdnr' = wl_tdnr - 1
                  /\ td_stus' = [td_stus EXCEPT ![t] = "RUN"]
                  /\ tdl_lsth' = [tdl_lsth EXCEPT ![p] = Append(@, t)]
                  /\ tdl_nr' = [tdl_nr EXCEPT ![p] = Inc(@)]
                  /\ UNCHANGED cli
        /\ UNCHANGED <<thdVars, stk, tdl_curruntd, sda_currtd, sda_schdflgs,
                       cntVars, sda_exitlist, sem_count, stale>>

\* Mutant: krlsem_up wakes nobody.
UpEndWithoutAllup ==
    /\ cli = "krlwlst_allup"
    /\ sda_schdflgs' = TRUE
    /\ cli' = "open"
    /\ UNCHANGED <<td_stus, thdVars, stk, runVars, sda_currtd, cntVars,
                   sda_exitlist, semVars, stale>>

krlsem_up_end ==
    /\ cli = "krlwlst_allup"
    /\ wl_list = << >>
    /\ sda_schdflgs' = TRUE
    /\ cli' = "open"
    /\ UNCHANGED <<td_stus, thdVars, stk, runVars, sda_currtd, cntVars,
                   sda_exitlist, semVars, stale>>

\* Mutants: the slice is never reset; the end of the slice is not noticed.
TickWithoutReset ==
    LET over == td_tick[sda_currtd] + 1 > TDRUN_TICK
    IN  /\ Interruptible
        /\ td_tick' = [td_tick EXCEPT ![sda_currtd] = @ + 1]
        /\ sda_schdflgs' = (sda_schdflgs \/ over)
        /\ Call("chkneed_pmptsched", NULL)
        /\ UNCHANGED <<td_stus, bin, runVars, sda_currtd, cntVars,
                       sda_exitlist, semVars, cli, stale>>

TickWithoutSchedflgs ==
    /\ Interruptible
    /\ Call("chkneed_pmptsched", NULL)
    /\ UNCHANGED <<td_stus, thdVars, runVars, sda_currtd, sda_schdflgs,
                   cntVars, sda_exitlist, semVars, cli, stale>>

\* systick_handle: krlthd_inc_tick of the current thread.
systick_handle ==
    LET over == td_tick[sda_currtd] + 1 > TDRUN_TICK
    IN  /\ Interruptible
        /\ td_tick' = [td_tick EXCEPT ![sda_currtd] =
                         IF over THEN 0 ELSE @ + 1]
        /\ sda_schdflgs' = (sda_schdflgs \/ over)
        /\ Call("chkneed_pmptsched", NULL)
        /\ UNCHANGED <<td_stus, bin, runVars, sda_currtd, cntVars,
                       sda_exitlist, semVars, cli, stale>>

\* The tail of hal_hwint_allocator.
krlsched_chkneed_pmptsched ==
    /\ At("chkneed_pmptsched")
    /\ sda_schdflgs' = FALSE
    /\ IF sda_schdflgs THEN GoTo("krlschedul", NULL) ELSE Return
    /\ UNCHANGED <<td_stus, thdVars, runVars, sda_currtd, cntVars,
                   sda_exitlist, semVars, cli, stale>>

-----------------------------------------------------------------------------
(* Threads come and go.                                                    *)

krlcpuidle_main ==
    /\ At("krlcpuidle_main")
    /\ Call("krlschedul", NULL)
    /\ UNCHANGED <<td_stus, thdVars, runVars, sda_currtd, sda_schdflgs,
                   cntVars, sda_exitlist, semVars, cli, stale>>

\* krlsve_core_exel_thread up to krlschdclass_add_thread: from here on the
\* new thread can be selected.
krlnew_thread(n) ==
    LET p == td_priority[n]
    IN  /\ At("user")
        /\ sda_currtd \in bin
        /\ td_stus[n] = "NONE"
        /\ td_stus' = [td_stus EXCEPT ![n] = "NEW"]
        /\ tdl_lsth' = [tdl_lsth EXCEPT ![p] = list_add(n, @)]
        /\ tdl_nr' = [tdl_nr EXCEPT ![p] = Inc(@)]
        /\ sda_threadnr' = Inc(sda_threadnr)
        /\ stk' = [stk EXCEPT
                     ![sda_currtd] = Append(@, Frame("krlthread_execvl", n)),
                     ![n] = <<Frame("user", NULL)>>]
        /\ UNCHANGED <<thdVars, tdl_curruntd, sda_currtd, sda_schdflgs,
                       scls_threadnr, sda_exitlist, semVars, cli, stale>>

\* The rest of the call: scls_threadnr, then the mapping of the program,
\* which may fail for want of memory and leaves the thread scheduled.
krlthread_execvl(ok) ==
    /\ At("krlthread_execvl")
    /\ bin' = IF ok THEN bin \cup {Arg} ELSE bin
    /\ scls_threadnr' = Inc(scls_threadnr)
    /\ Return
    /\ UNCHANGED <<td_stus, td_tick, runVars, sda_currtd, sda_schdflgs,
                   sda_threadnr, sda_exitlist, semVars, cli, stale>>

\* A thread without a program faults on its first instruction; system_error
\* spins with interrupts on.
hal_fault_allocator ==
    /\ At("user")
    /\ sda_currtd \notin bin
    /\ Call("sysdie", NULL)
    /\ UNCHANGED <<td_stus, thdVars, runVars, sda_currtd, sda_schdflgs,
                   cntVars, sda_exitlist, semVars, cli, stale>>

\* The exit call, or a fault other than a page fault.
SysExit ==
    /\ At("user")
    /\ sda_currtd \in bin
    /\ Call("krlsched_exit", NULL)
    /\ UNCHANGED <<td_stus, thdVars, runVars, sda_currtd, sda_schdflgs,
                   cntVars, sda_exitlist, semVars, cli, stale>>

\* The check of tdl_nr, made before the lock is taken.
krlsched_exit ==
    /\ At("krlsched_exit")
    /\ IF tdl_nr[td_priority[sda_currtd]] < 1
         THEN GoTo("sysdie", NULL)
         ELSE GoTo("del_thread_addexit", NULL)
    /\ UNCHANGED <<td_stus, thdVars, runVars, sda_currtd, sda_schdflgs,
                   cntVars, sda_exitlist, semVars, cli, stale>>

\* Then krlschedul; a thread that came back from it would return to user
\* mode.
krlschdclass_del_thread_addexit ==
    LET t == sda_currtd
        p == td_priority[t]
    IN  /\ At("del_thread_addexit")
        /\ tdl_nr' = [tdl_nr EXCEPT ![p] = Dec(@)]
        /\ sda_threadnr' = Dec(sda_threadnr)
        /\ tdl_curruntd' = NotCurrun(t)
        /\ tdl_lsth' = UnlinkFromRunLists(t)
        /\ wl_list' = list_del(wl_list, t)
        /\ td_stus' = [td_stus EXCEPT ![t] = "EXIT"]
        /\ sda_exitlist' = list_add(t, list_del(sda_exitlist, t))
        /\ GoTo("krlschedul", NULL)
        /\ UNCHANGED <<thdVars, sda_currtd, sda_schdflgs, scls_threadnr,
                       sem_count, wl_tdnr, cli, stale>>

\* hal_sysdie with interrupts off: for (;;).
hal_sysdie ==
    /\ cli \notin {"open", "krlwlst_allup"}
    /\ UNCHANGED vars

-----------------------------------------------------------------------------
KernelStep ==
    \/ krlsched_select_thread
    \/ save_to_new_context
    \/ krlsem_down_take
    \/ krlsched_wait
    \/ krlsched_wait_err
    \/ krlsched_up
    \/ krlsem_up_end
    \/ krlsched_chkneed_pmptsched
    \/ krlcpuidle_main
    \/ \E ok \in BOOLEAN : krlthread_execvl(ok)
    \/ hal_fault_allocator
    \/ krlsched_exit
    \/ krlschdclass_del_thread_addexit

Next ==
    \/ KernelStep
    \/ SysRead
    \/ SysExit
    \/ \E n \in Threads : krlnew_thread(n)
    \/ uart_handle
    \/ systick_handle
    \/ hal_sysdie

Spec == Init /\ [][Next]_vars

\* The CPU executes; the timer keeps its interrupt pending until accepted.
Fairness ==
    /\ WF_vars(KernelStep)
    /\ SF_vars(systick_handle)

FairSpec == Spec /\ Fairness

-----------------------------------------------------------------------------
(* Properties.                                                             *)

StackType(s) ==
    /\ s \in [Anyone -> Seq(UserFrames \cup SchedFrames)]
    /\ s[Idle] \in Seq(SchedFrames)

\* Every field has its type; the idle thread's stack holds only idle and
\* scheduling frames, so it never waits, exits or starts a thread.
TypeOK ==
    /\ td_stus \in [Threads -> {"NONE", "NEW", "RUN", "WAIT", "EXIT"}]
    /\ td_tick \in [Anyone -> 0 .. TDRUN_TICK]
    /\ StackType(stk)
    /\ bin \subseteq Threads
    /\ tdl_lsth \in [Prios -> Seq(Threads)]
    /\ tdl_curruntd \in [Prios -> Threads \cup {NULL}]
    /\ tdl_nr \in [Prios -> 0 .. UINT - 1]
    /\ sda_currtd \in Anyone
    /\ sda_schdflgs \in BOOLEAN
    /\ sda_threadnr \in 0 .. UINT - 1
    /\ scls_threadnr \in 0 .. UINT - 1
    /\ sda_exitlist \in Seq(Threads)
    /\ sem_count \in Nat
    /\ wl_list \in Seq(Threads)
    /\ wl_tdnr \in Nat
    /\ cli \in {"open", "krlwlst_allup", "krlsched_wait err",
                "krlsched_up err", "sem up err"}
    /\ stale \in BOOLEAN

\* A thread is linked where its status says, on one list, once: a runnable
\* one on the run list of its priority or taken off it as tdl_curruntd, never
\* both; a waiting one on the wait list; an exited one on the exit list.  This
\* is what makes every list_add of the scheduler sound, as td_list has room
\* for one list only.
RunListsOK ==
    /\ \A p \in Prios : IsInjective(tdl_lsth[p])
    /\ \A p \in Prios : \A t \in Range(tdl_lsth[p]) :
          p = td_priority[t] /\ Ready(t) /\ tdl_curruntd[p] # t
    /\ \A p \in Prios : tdl_curruntd[p] # NULL =>
          /\ p = td_priority[tdl_curruntd[p]]
          /\ Ready(tdl_curruntd[p])
    /\ \A t \in Threads : Ready(t) =>
          \/ tdl_curruntd[td_priority[t]] = t
          \/ t \in Range(tdl_lsth[td_priority[t]])

WaitListOK ==
    /\ IsInjective(wl_list)
    /\ \A t \in Threads : t \in Range(wl_list) <=> td_stus[t] = "WAIT"

ExitListOK ==
    /\ IsInjective(sda_exitlist)
    /\ \A t \in Threads : t \in Range(sda_exitlist) <=> td_stus[t] = "EXIT"

Placement == RunListsOK /\ WaitListOK /\ ExitListOK

\* No lost wake-up: outside krlwlst_allup, no thread is on the semaphore's
\* wait list while a key is there to be read (krlsem_down tests sem_count and
\* joins the list in one locked section; krlsem_up wakes everybody).
NoLostWakeup == cli = "open" /\ wl_list # << >> => sem_count = 0

\* krlsched_up never runs out of wl_tdnr while the list holds a thread, so
\* its hal_sysdie("krlsched_up err") is never reached, not even after the
\* counters have drifted.
WakeupNeverDies ==
    /\ wl_tdnr >= Len(wl_list)
    /\ cli # "krlsched_up err"

\* The counters tell the truth as long as every switch goes to the thread
\* that is still selected: tdl_nr counts the runnable threads of a priority,
\* wl_tdnr the waiting ones, and sda_threadnr those that did not exit.
CountsExact ==
    ~ stale =>
      /\ \A p \in Prios : tdl_nr[p] =
            Len(tdl_lsth[p]) + (IF tdl_curruntd[p] = NULL THEN 0 ELSE 1)
      /\ wl_tdnr = Len(wl_list)
      /\ sda_threadnr =
            Cardinality({t \in Threads : td_stus[t] \notin {"NONE", "EXIT"}})

\* Round robin starves nobody: a runnable thread of the first priority gets
\* the CPU, unless the kernel has stopped.
ReadyThreadRuns ==
    \A t \in Threads :
        td_priority[t] = 0 /\ Ready(t) ~>
            sda_currtd = t \/ cli \notin {"open", "krlwlst_allup"}

\* hal_sysdie("krlsched_wait err") in krlsched_wait is never reached.
NoSchedWaitErr == cli # "krlsched_wait err"

\* A page fault is always served: system_error of hal_fault_allocator is
\* never reached by a thread that starts to run.
NoFaultDie ==
    \A t \in Threads : t \notin bin =>
        \A i \in DOMAIN stk[t] : stk[t][i].pc # "sysdie"

\* The number of threads the display reports is the number that exist.
ShownThreadsExist ==
    (\A t \in Threads : \A i \in DOMAIN stk[t] :
        stk[t][i].pc # "krlthread_execvl") =>
      scls_threadnr =
        Cardinality({t \in Threads : td_stus[t] \notin {"NONE", "EXIT"}})
=============================================================================
