--------------------------- MODULE KrlSchedProofs ---------------------------
(* Proofs about KrlSched: typing, the placement of the threads on the      *)
(* lists, the semaphore's wake-ups and the counters, for every number of   *)
(* threads and every priority, with any nesting of interrupts.             *)
EXTENDS KrlSched, SequenceTheorems, FiniteSetTheorems, TLAPS

-----------------------------------------------------------------------------
(* What the operations on list_h_t lists do to the elements of a list, for *)
(* lists modelled as sequences without repetition.                         *)

\* The elements of a sequence, by position.
LEMMA RangeIndex ==
    ASSUME NEW S, NEW s \in Seq(S)
    PROVE  \A x : x \in Range(s) <=> \E i \in 1 .. Len(s) : s[i] = x
BY DEF Range

LEMMA InjectiveIndex ==
    ASSUME NEW S, NEW s \in Seq(S)
    PROVE  IsInjective(s) <=>
             \A i, j \in 1 .. Len(s) : s[i] = s[j] => i = j
BY DEF IsInjective

\* RemoveAt closes the gap and keeps the order.
LEMMA RemoveAtIndex ==
    ASSUME NEW S, NEW s \in Seq(S), NEW i \in 1 .. Len(s)
    PROVE  /\ RemoveAt(s, i) \in Seq(S)
           /\ Len(RemoveAt(s, i)) = Len(s) - 1
           /\ \A j \in 1 .. Len(s) - 1 :
                RemoveAt(s, i)[j] = IF j < i THEN s[j] ELSE s[j + 1]
BY DEF RemoveAt

\* Taking the i-th element out of a list removes that element and no other.
LEMMA RemoveAtRange ==
    ASSUME NEW S, NEW s \in Seq(S), IsInjective(s), NEW i \in 1 .. Len(s)
    PROVE  /\ IsInjective(RemoveAt(s, i))
           /\ \A x : x \in Range(RemoveAt(s, i)) <=> x \in Range(s) /\ x # s[i]
<1> DEFINE r == RemoveAt(s, i)
<1>1. /\ r \in Seq(S)
      /\ Len(r) = Len(s) - 1
      /\ \A j \in 1 .. Len(s) - 1 :
           r[j] = IF j < i THEN s[j] ELSE s[j + 1]
  BY RemoveAtIndex
<1>2. \A k, l \in 1 .. Len(s) : s[k] = s[l] => k = l
  BY InjectiveIndex
<1> HIDE DEF r
<1>3. IsInjective(r)
  <2>1. \A k, l \in 1 .. Len(r) : r[k] = r[l] => k = l
    BY <1>1, <1>2
  <2> QED BY <2>1, <1>1, InjectiveIndex
<1>4. ASSUME NEW x PROVE x \in Range(r) <=> x \in Range(s) /\ x # s[i]
  <2>1. ASSUME x \in Range(r) PROVE x \in Range(s) /\ x # s[i]
    <3>1. PICK j \in 1 .. Len(r) : r[j] = x
      BY <2>1, <1>1, RangeIndex
    <3>2. PICK k \in 1 .. Len(s) : k # i /\ s[k] = x
      BY <3>1, <1>1
    <3> QED BY <3>2, <1>2, RangeIndex
  <2>2. ASSUME x \in Range(s), x # s[i] PROVE x \in Range(r)
    <3>1. PICK k \in 1 .. Len(s) : s[k] = x
      BY <2>2, RangeIndex
    <3>2. \E j \in 1 .. Len(r) : r[j] = x
      <4>1. CASE k < i
        BY <4>1, <3>1, <1>1
      <4>2. CASE k > i
        <5>1. k - 1 \in 1 .. Len(r) /\ r[k - 1] = x
          BY <4>2, <3>1, <1>1
        <5> QED BY <5>1
      <4> QED BY <4>1, <4>2, <3>1, <2>2
    <3> QED BY <3>2, <1>1, RangeIndex
  <2> QED BY <2>1, <2>2
<1> QED BY <1>3, <1>4 DEF r

\* list_del of an element takes it out, and leaves alone a list that does not
\* hold it.
LEMMA ListDelRange ==
    ASSUME NEW S, NEW s \in Seq(S), IsInjective(s), NEW x
    PROVE  /\ list_del(s, x) \in Seq(S)
           /\ Len(list_del(s, x)) =
                IF x \in Range(s) THEN Len(s) - 1 ELSE Len(s)
           /\ IsInjective(list_del(s, x))
           /\ \A y : y \in Range(list_del(s, x)) <=> y \in Range(s) /\ y # x
<1>1. CASE x \notin Range(s)
  <2>1. list_del(s, x) = s
    BY <1>1, RangeIndex DEF list_del
  <2> QED BY <1>1, <2>1
<1>2. CASE x \in Range(s)
  <2>1. PICK k \in 1 .. Len(s) : s[k] = x
    BY <1>2, RangeIndex
  <2>2. \A i \in 1 .. Len(s) : s[i] = x => i = k
    BY <2>1, InjectiveIndex
  <2>3. (CHOOSE i \in DOMAIN s : s[i] = x) = k
    BY <2>1, <2>2
  <2>5. list_del(s, x) = RemoveAt(s, k)
    BY <1>2, <2>3 DEF list_del
  <2>6. list_del(s, x) \in Seq(S) /\ Len(list_del(s, x)) = Len(s) - 1
    BY <2>5, RemoveAtIndex
  <2>7. /\ IsInjective(list_del(s, x))
        /\ \A y : y \in Range(list_del(s, x)) <=> y \in Range(s) /\ y # s[k]
    BY <2>5, RemoveAtRange
  <2> QED BY <1>2, <2>1, <2>6, <2>7
<1> QED BY <1>1, <1>2

\* list_add_tail of an element the list does not hold.
LEMMA AppendRange ==
    ASSUME NEW S, NEW s \in Seq(S), IsInjective(s), NEW x \in S
    PROVE  /\ Append(s, x) \in Seq(S)
           /\ Len(Append(s, x)) = Len(s) + 1
           /\ x \notin Range(s) => IsInjective(Append(s, x))
           /\ \A y : y \in Range(Append(s, x)) <=> y \in Range(s) \/ y = x
<1> DEFINE r == Append(s, x)
<1>1. /\ r \in Seq(S)
      /\ Len(r) = Len(s) + 1
      /\ \A i \in 1 .. Len(s) : r[i] = s[i]
      /\ r[Len(s) + 1] = x
  BY AppendProperties
<1> HIDE DEF r
<1>2. ASSUME NEW y PROVE y \in Range(r) <=> y \in Range(s) \/ y = x
  <2>1. y \in Range(r) => y \in Range(s) \/ y = x
    BY <1>1, RangeIndex
  <2>2. y \in Range(s) => y \in Range(r)
    <3> SUFFICES ASSUME y \in Range(s) PROVE y \in Range(r) OBVIOUS
    <3>1. PICK i \in 1 .. Len(s) : s[i] = y
      BY RangeIndex
    <3>2. i \in 1 .. Len(r) /\ r[i] = y
      BY <3>1, <1>1
    <3> QED BY <3>2, <1>1, RangeIndex
  <2>3. x \in Range(r)
    <3>1. Len(s) + 1 \in 1 .. Len(r)
      BY <1>1
    <3> QED BY <3>1, <1>1, RangeIndex
  <2> QED BY <2>1, <2>2, <2>3
<1>3. ASSUME x \notin Range(s) PROVE IsInjective(r)
  <2>1. \A i \in 1 .. Len(s) : s[i] # x
    BY <1>3, RangeIndex
  <2>2. \A i, j \in 1 .. Len(s) : s[i] = s[j] => i = j
    BY InjectiveIndex
  <2>3. \A i, j \in 1 .. Len(r) : r[i] = r[j] => i = j
    BY <1>1, <2>1, <2>2
  <2> QED BY <2>3, <1>1, InjectiveIndex
<1> QED BY <1>1, <1>2, <1>3 DEF r

\* list_add, at the head.
LEMMA ListAddRange ==
    ASSUME NEW S, NEW s \in Seq(S), IsInjective(s), NEW x \in S
    PROVE  /\ list_add(x, s) \in Seq(S)
           /\ Len(list_add(x, s)) = Len(s) + 1
           /\ x \notin Range(s) => IsInjective(list_add(x, s))
           /\ \A y : y \in Range(list_add(x, s)) <=> y \in Range(s) \/ y = x
<1> DEFINE r == list_add(x, s)
<1>1. /\ r \in Seq(S)
      /\ Len(r) = Len(s) + 1
      /\ r[1] = x
      /\ \A i \in 2 .. Len(s) + 1 : r[i] = s[i - 1]
  <2>1. <<x>> \in Seq(S) /\ Len(<<x>>) = 1 /\ <<x>>[1] = x
    OBVIOUS
  <2>2. /\ <<x>> \o s \in Seq(S)
        /\ Len(<<x>> \o s) = 1 + Len(s)
        /\ \A i \in 1 .. 1 + Len(s) : (<<x>> \o s)[i] =
             IF i <= 1 THEN <<x>>[i] ELSE s[i - 1]
    BY <2>1, ConcatProperties
  <2> QED BY <2>1, <2>2 DEF list_add
<1> HIDE DEF r
<1>2. ASSUME NEW y PROVE y \in Range(r) <=> y \in Range(s) \/ y = x
  <2>1. y \in Range(r) => y \in Range(s) \/ y = x
    <3> SUFFICES ASSUME y \in Range(r) PROVE y \in Range(s) \/ y = x OBVIOUS
    <3>1. PICK i \in 1 .. Len(r) : r[i] = y
      BY <1>1, RangeIndex
    <3>2. CASE i = 1
      BY <3>1, <3>2, <1>1
    <3>3. CASE i # 1
      <4>1. i - 1 \in 1 .. Len(s) /\ s[i - 1] = y
        BY <3>1, <3>3, <1>1
      <4> QED BY <4>1, RangeIndex
    <3> QED BY <3>2, <3>3
  <2>2. y \in Range(s) => y \in Range(r)
    <3> SUFFICES ASSUME y \in Range(s) PROVE y \in Range(r) OBVIOUS
    <3>1. PICK i \in 1 .. Len(s) : s[i] = y
      BY RangeIndex
    <3>2. i + 1 \in 1 .. Len(r) /\ r[i + 1] = y
      BY <3>1, <1>1
    <3> QED BY <3>2, <1>1, RangeIndex
  <2>3. x \in Range(r)
    <3>1. 1 \in 1 .. Len(r)
      BY <1>1
    <3> QED BY <3>1, <1>1, RangeIndex
  <2> QED BY <2>1, <2>2, <2>3
<1>3. ASSUME x \notin Range(s) PROVE IsInjective(r)
  <2>1. \A i \in 1 .. Len(s) : s[i] # x
    BY <1>3, RangeIndex
  <2>2. \A i, j \in 1 .. Len(s) : s[i] = s[j] => i = j
    BY InjectiveIndex
  <2>3. \A i, j \in 1 .. Len(r) : r[i] = r[j] => i = j
    <3> TAKE i, j \in 1 .. Len(r)
    <3>0. \A k \in 1 .. Len(r) : k # 1 => r[k] # r[1]
      <4> SUFFICES ASSUME NEW k \in 1 .. Len(r), k # 1 PROVE r[k] # x
        BY <1>1
      <4>1. k - 1 \in 1 .. Len(s) /\ r[k] = s[k - 1]
        BY <1>1
      <4> QED BY <4>1, <2>1
    <3>1. CASE i = 1 \/ j = 1
      BY <3>0, <3>1, <1>1
    <3>2. CASE i # 1 /\ j # 1
      <4>1. /\ i - 1 \in 1 .. Len(s) /\ r[i] = s[i - 1]
            /\ j - 1 \in 1 .. Len(s) /\ r[j] = s[j - 1]
        BY <3>2, <1>1
      <4>2. r[i] = r[j] => i - 1 = j - 1
        BY <4>1, <2>2
      <4> QED BY <4>2
    <3> QED BY <3>1, <3>2
  <2> QED BY <2>3, <1>1, InjectiveIndex
<1> QED BY <1>1, <1>2, <1>3 DEF r

\* Taking the head off a list.
LEMMA TailRange ==
    ASSUME NEW S, NEW s \in Seq(S), IsInjective(s), s # << >>
    PROVE  /\ Head(s) \in S
           /\ Head(s) \in Range(s)
           /\ Tail(s) \in Seq(S)
           /\ Len(Tail(s)) = Len(s) - 1
           /\ IsInjective(Tail(s))
           /\ \A y : y \in Range(Tail(s)) <=> y \in Range(s) /\ y # Head(s)
<1> DEFINE r == Tail(s)
<1>1. /\ r \in Seq(S)
      /\ Len(r) = Len(s) - 1
      /\ \A i \in 1 .. Len(s) - 1 : r[i] = s[i + 1]
  BY HeadTailProperties
<1>2. Head(s) = s[1] /\ 1 \in 1 .. Len(s) /\ Head(s) \in S
  BY HeadTailProperties
<1>3. \A i, j \in 1 .. Len(s) : s[i] = s[j] => i = j
  BY InjectiveIndex
<1> HIDE DEF r
<1>4. IsInjective(r)
  <2>1. \A i, j \in 1 .. Len(r) : r[i] = r[j] => i = j
    BY <1>1, <1>3
  <2> QED BY <2>1, <1>1, InjectiveIndex
<1>5. ASSUME NEW y PROVE y \in Range(r) <=> y \in Range(s) /\ y # Head(s)
  <2>1. ASSUME y \in Range(r) PROVE y \in Range(s) /\ y # Head(s)
    <3>1. PICK i \in 1 .. Len(r) : r[i] = y
      BY <2>1, <1>1, RangeIndex
    <3>2. i + 1 \in 1 .. Len(s) /\ s[i + 1] = y
      BY <3>1, <1>1
    <3> QED BY <3>2, <1>2, <1>3, RangeIndex
  <2>2. ASSUME y \in Range(s), y # Head(s) PROVE y \in Range(r)
    <3>1. PICK i \in 1 .. Len(s) : s[i] = y
      BY <2>2, RangeIndex
    <3>2. i - 1 \in 1 .. Len(r) /\ r[i - 1] = y
      BY <3>1, <2>2, <1>1, <1>2
    <3> QED BY <3>2, <1>1, RangeIndex
  <2> QED BY <2>1, <2>2
<1> QED BY <1>1, <1>2, <1>4, <1>5, RangeIndex DEF r

\* A call stack without its last frame, and that frame.
LEMMA FrontType ==
    ASSUME NEW S, NEW s \in Seq(S), s # << >>
    PROVE  Front(s) \in Seq(S) /\ Last(s) \in S
<1>2. Front(s) \in Seq(S)
  BY DEF Front
<1>3. Len(s) \in 1 .. Len(s)
  BY EmptySeq
<1> QED BY <1>2, <1>3 DEF Last

-----------------------------------------------------------------------------
(* Kernel stacks keep their type.                                          *)

\* The frames that the actions push are frames of a program or of the kernel.
LEMMA FrameTypes ==
    /\ Frame("user", NULL) \in UserFrames
    /\ Frame("krlsem_down", NULL) \in UserFrames
    /\ Frame("krlsched_exit", NULL) \in UserFrames
    /\ Frame("del_thread_addexit", NULL) \in UserFrames
    /\ Frame("sysdie", NULL) \in UserFrames
    /\ \A n \in Threads : Frame("krlthread_execvl", n) \in UserFrames
    /\ Frame("krlcpuidle_main", NULL) \in SchedFrames
    /\ Frame("chkneed_pmptsched", NULL) \in SchedFrames
    /\ Frame("krlschedul", NULL) \in SchedFrames
    /\ \A t \in Anyone : Frame("save_to_new_context", t) \in SchedFrames
BY DEF Frame, UserFrames, SchedFrames

\* A frame that only a thread with a program of its own can be in.
LEMMA ProgramFrame ==
    ASSUME TypeOK, stk[sda_currtd] # << >>,
           Last(stk[sda_currtd]).pc \in
             {"user", "krlsem_down", "krlsched_exit", "del_thread_addexit",
              "sysdie", "krlthread_execvl"}
    PROVE  sda_currtd \in Threads
<1>1. SUFFICES ASSUME sda_currtd = Idle PROVE FALSE
  BY DEF TypeOK, Anyone
<1>2. Last(stk[Idle]) \in SchedFrames
  BY <1>1, FrontType DEF TypeOK, StackType
<1> QED BY <1>1, <1>2 DEF SchedFrames

\* A call puts a frame on the stack of the current thread.
LEMMA CallTyped ==
    ASSUME TypeOK, NEW f,
           f \in SchedFrames \/ (f \in UserFrames /\ sda_currtd \in Threads)
    PROVE  StackType([stk EXCEPT ![sda_currtd] = Append(@, f)])
<1> USE SchedAssumption DEF TypeOK, StackType, Anyone
<1>1. Append(stk[sda_currtd], f) \in Seq(UserFrames \cup SchedFrames)
  BY AppendProperties
<1>2. sda_currtd = Idle =>
        Append(stk[sda_currtd], f) \in Seq(SchedFrames)
  BY AppendProperties
<1> QED BY <1>1, <1>2

\* A return takes the last frame off.
LEMMA ReturnTyped ==
    ASSUME TypeOK, stk[sda_currtd] # << >>
    PROVE  StackType([stk EXCEPT ![sda_currtd] = Front(@)])
<1> USE SchedAssumption DEF TypeOK, StackType, Anyone
<1>1. Front(stk[sda_currtd]) \in Seq(UserFrames \cup SchedFrames)
  BY FrontType
<1>2. sda_currtd = Idle => Front(stk[sda_currtd]) \in Seq(SchedFrames)
  BY FrontType
<1> QED BY <1>1, <1>2

\* Going on inside a call replaces the last frame.
LEMMA GoToTyped ==
    ASSUME TypeOK, stk[sda_currtd] # << >>, NEW f,
           f \in SchedFrames \/ (f \in UserFrames /\ sda_currtd \in Threads)
    PROVE  StackType([stk EXCEPT ![sda_currtd] = Append(Front(@), f)])
<1> USE SchedAssumption DEF TypeOK, StackType, Anyone
<1>1. Front(stk[sda_currtd]) \in Seq(UserFrames \cup SchedFrames)
  BY FrontType
<1>2. sda_currtd = Idle => Front(stk[sda_currtd]) \in Seq(SchedFrames)
  BY FrontType
<1>3. Append(Front(stk[sda_currtd]), f) \in Seq(UserFrames \cup SchedFrames)
  BY <1>1, AppendProperties
<1>4. sda_currtd = Idle =>
        Append(Front(stk[sda_currtd]), f) \in Seq(SchedFrames)
  BY <1>2, AppendProperties
<1> QED BY <1>3, <1>4

\* tdl_nr counts modulo the width of uint_t and stays a number of that width.
LEMMA WrapTyped ==
    ASSUME NEW n \in 0 .. UINT - 1
    PROVE  Inc(n) \in 0 .. UINT - 1 /\ Dec(n) \in 0 .. UINT - 1
BY SchedAssumption DEF Inc, Dec

-----------------------------------------------------------------------------
(* Placement depends on the status and the lists only.                     *)

\* Placement depends on the lists and the statuses only.
LEMMA PlacementUnmoved ==
    ASSUME Placement,
           UNCHANGED <<td_stus, tdl_lsth, tdl_curruntd, wl_list, sda_exitlist>>
    PROVE  Placement'
BY DEF Placement, RunListsOK, WaitListOK, ExitListOK, Ready

\* RunListsOK without its names.
LEMMA RunListsFacts ==
    ASSUME Placement
    PROVE  /\ \A q \in Prios : IsInjective(tdl_lsth[q])
           /\ \A q \in Prios : \A x \in Range(tdl_lsth[q]) :
                 /\ q = td_priority[x]
                 /\ td_stus[x] \in {"RUN", "NEW"}
                 /\ tdl_curruntd[q] # x
           /\ \A q \in Prios : tdl_curruntd[q] # NULL =>
                 /\ q = td_priority[tdl_curruntd[q]]
                 /\ td_stus[tdl_curruntd[q]] \in {"RUN", "NEW"}
           /\ \A x \in Threads : td_stus[x] \in {"RUN", "NEW"} =>
                 \/ tdl_curruntd[td_priority[x]] = x
                 \/ x \in Range(tdl_lsth[td_priority[x]])
BY DEF Placement, RunListsOK, Ready

\* init_krlsched leaves every list empty and every thread unmade.
LEMMA InitInv == Init => TypeOK /\ Placement
<1> SUFFICES ASSUME Init PROVE TypeOK /\ Placement
  OBVIOUS
<1> USE SchedAssumption
<1>1. PICK first \in Threads : Init!(first)
  BY DEF Init
<1> DEFINE fp == td_priority[first]
<1>2. fp \in Prios
  OBVIOUS
<1>3. /\ IsInjective(<< >>) /\ Range(<< >>) = {}
      /\ IsInjective(<<first>>) /\ Range(<<first>>) = {first}
  BY DEF IsInjective, Range
<1>4. StackType(stk)
  <2>1. /\ <<Frame("krlcpuidle_main", NULL)>> \in Seq(SchedFrames)
        /\ <<Frame("krlcpuidle_main", NULL)>> \in
             Seq(UserFrames \cup SchedFrames)
        /\ <<Frame("user", NULL)>> \in Seq(UserFrames \cup SchedFrames)
        /\ << >> \in Seq(UserFrames \cup SchedFrames)
    BY FrameTypes
  <2>2. \A t \in Anyone : stk[t] \in Seq(UserFrames \cup SchedFrames)
    BY <1>1, <2>1
  <2>3. stk[Idle] = <<Frame("krlcpuidle_main", NULL)>>
    BY <1>1 DEF Anyone
  <2>4. stk \in [Anyone -> Seq(UserFrames \cup SchedFrames)]
    BY <1>1, <2>2
  <2> QED BY <2>1, <2>3, <2>4 DEF StackType
<1>5. 1 % UINT \in 0 .. UINT - 1
  OBVIOUS
<1>6. TypeOK
  <2>1. td_stus \in [Threads -> {"NONE", "NEW", "RUN", "WAIT", "EXIT"}]
    BY <1>1
  <2>2. td_tick \in [Anyone -> 0 .. TDRUN_TICK]
    BY <1>1
  <2>3. /\ tdl_lsth \in [Prios -> Seq(Threads)]
        /\ tdl_curruntd \in [Prios -> Threads \cup {NULL}]
    BY <1>1
  <2>4. tdl_nr \in [Prios -> 0 .. UINT - 1]
    BY <1>1, <1>5
  <2>5. sda_schdflgs \in BOOLEAN /\ stale \in BOOLEAN
    BY <1>1
  <2> QED BY <1>1, <1>4, <1>5, <2>1, <2>2, <2>3, <2>4, <2>5
       DEF TypeOK, Anyone
<1>7. RunListsOK
  BY <1>1, <1>2, <1>3 DEF RunListsOK, Ready
<1>8. WaitListOK /\ ExitListOK
  BY <1>1, <1>3 DEF WaitListOK, ExitListOK
<1> QED BY <1>6, <1>7, <1>8 DEF Placement

-----------------------------------------------------------------------------
(* One lemma per group of actions.                                         *)

\* Selecting takes a thread off the run list of its priority and puts the
\* one it replaces at the tail.
LEMMA SelectFromListInv ==
    ASSUME TypeOK, Placement, NEW p \in Prios, NEW i \in DOMAIN tdl_lsth[p],
           SelectFromList(p, i)
    PROVE  TypeOK' /\ Placement'
<1> USE SchedAssumption
<1> DEFINE l    == tdl_lsth[p]
           t    == l[i]
           cur  == tdl_curruntd[p]
           rest == RemoveAt(l, i)
           new  == IF cur # NULL THEN Append(rest, cur) ELSE rest
<1>1. /\ l \in Seq(Threads) /\ IsInjective(l) /\ i \in 1 .. Len(l)
      /\ t \in Threads /\ t \in Range(l)
      /\ cur \in Threads \cup {NULL}
  <2>1. l \in Seq(Threads) /\ cur \in Threads \cup {NULL}
    BY DEF TypeOK
  <2>2. IsInjective(l)
    BY DEF Placement, RunListsOK
  <2>3. i \in 1 .. Len(l)
    BY <2>1
  <2> HIDE DEF l
  <2> QED BY <2>1, <2>2, <2>3, RangeIndex
<1>2. /\ rest \in Seq(Threads) /\ IsInjective(rest)
      /\ \A x : x \in Range(rest) <=> x \in Range(l) /\ x # t
  BY <1>1, RemoveAtIndex, RemoveAtRange
<1>3. cur # NULL => cur \in Threads /\ cur \notin Range(l)
  BY <1>1 DEF Placement, RunListsOK
<1>4. /\ new \in Seq(Threads) /\ IsInjective(new)
      /\ \A x : x \in Range(new) <=>
           (x \in Range(l) /\ x # t) \/ (cur # NULL /\ x = cur)
  <2> HIDE DEF rest, cur, l, t
  <2>1. CASE cur = NULL
    BY <2>1, <1>2
  <2>2. CASE cur # NULL
    BY <2>2, <1>2, <1>3, AppendRange
  <2> QED BY <2>1, <2>2
<1>5. /\ tdl_lsth' = [tdl_lsth EXCEPT ![p] = new]
      /\ tdl_curruntd' = [tdl_curruntd EXCEPT ![p] = t]
      /\ Ready(t)
      /\ UNCHANGED <<td_stus, td_tick, bin, tdl_nr, sda_currtd, sda_schdflgs,
                     sda_threadnr, scls_threadnr, sda_exitlist, sem_count,
                     wl_list, wl_tdnr, cli, stale>>
  BY DEF SelectFromList, thdVars, cntVars, semVars
<1>6. StackType(stk')
  <2>1. stk[sda_currtd] # << >>
    BY DEF SelectFromList, At
  <2>2. stk' = [stk EXCEPT ![sda_currtd] =
                  Append(Front(@), Frame("save_to_new_context", t))]
    BY DEF SelectFromList, GoTo
  <2>3. Frame("save_to_new_context", t) \in SchedFrames
    BY <1>1, FrameTypes DEF Anyone
  <2> HIDE DEF t
  <2> QED BY <2>1, <2>2, <2>3, GoToTyped
<1> HIDE DEF rest, new, l, t, cur
<1>7. /\ tdl_lsth' \in [Prios -> Seq(Threads)]
      /\ tdl_curruntd' \in [Prios -> Threads \cup {NULL}]
  BY <1>1, <1>4, <1>5 DEF TypeOK
<1>8. TypeOK'
  BY <1>5, <1>6, <1>7 DEF TypeOK
<1>9. RunListsOK'
  <2> USE DEF Placement, RunListsOK, Ready
  <2>1. /\ \A q \in Prios : q # p => /\ tdl_lsth'[q] = tdl_lsth[q]
                                     /\ tdl_curruntd'[q] = tdl_curruntd[q]
        /\ tdl_lsth'[p] = new
        /\ tdl_curruntd'[p] = t
        /\ l = tdl_lsth[p] /\ cur = tdl_curruntd[p]
    <3>1. /\ tdl_lsth \in [Prios -> Seq(Threads)]
          /\ tdl_curruntd \in [Prios -> Threads \cup {NULL}]
      BY DEF TypeOK
    <3> QED BY <3>1, <1>5 DEF l, cur
  <2>2. p = td_priority[t] /\ t # NULL
    BY <1>1, <2>1
  <2>3. cur # NULL => p = td_priority[cur] /\ Ready(cur) /\ cur # t
    BY <1>1, <1>3, <2>1
  <2>4. \A q \in Prios : IsInjective(tdl_lsth'[q])
    BY <1>4, <2>1
  <2>5. \A q \in Prios : \A x \in Range(tdl_lsth'[q]) :
           q = td_priority[x] /\ Ready(x)' /\ tdl_curruntd'[q] # x
    BY <1>4, <1>5, <2>1, <2>3
  <2>6. \A q \in Prios : tdl_curruntd'[q] # NULL =>
           /\ q = td_priority[tdl_curruntd'[q]]
           /\ td_stus'[tdl_curruntd'[q]] \in {"RUN", "NEW"}
    BY <1>5, <2>1, <2>2
  <2>7. \A x \in Threads : Ready(x)' =>
           \/ tdl_curruntd'[td_priority[x]] = x
           \/ x \in Range(tdl_lsth'[td_priority[x]])
    BY <1>4, <1>5, <2>1
  <2> QED BY <2>4, <2>5, <2>6, <2>7
<1>10. WaitListOK' /\ ExitListOK'
  BY <1>5 DEF Placement, WaitListOK, ExitListOK
<1> QED BY <1>8, <1>9, <1>10 DEF Placement

\* A thread that waits or exits leaves the run lists and tdl_curruntd.
LEMMA LeaveRunLists ==
    ASSUME TypeOK, Placement, NEW t \in Threads, NEW st \in {"WAIT", "EXIT"},
           td_stus' = [td_stus EXCEPT ![t] = st],
           tdl_lsth' = UnlinkFromRunLists(t),
           tdl_curruntd' = NotCurrun(t)
    PROVE  /\ td_stus' \in [Threads -> {"NONE", "NEW", "RUN", "WAIT", "EXIT"}]
           /\ tdl_lsth' \in [Prios -> Seq(Threads)]
           /\ tdl_curruntd' \in [Prios -> Threads \cup {NULL}]
           /\ RunListsOK'
<1> USE SchedAssumption
<1>1. /\ tdl_lsth \in [Prios -> Seq(Threads)]
      /\ tdl_curruntd \in [Prios -> Threads \cup {NULL}]
      /\ td_stus \in [Threads -> {"NONE", "NEW", "RUN", "WAIT", "EXIT"}]
      /\ \A q \in Prios : IsInjective(tdl_lsth[q])
  BY DEF TypeOK, Placement, RunListsOK
<1>2. ASSUME NEW q \in Prios
      PROVE  /\ tdl_lsth'[q] \in Seq(Threads) /\ IsInjective(tdl_lsth'[q])
             /\ \A x : x \in Range(tdl_lsth'[q]) <=>
                         x \in Range(tdl_lsth[q]) /\ x # t
  <2>1. tdl_lsth'[q] = list_del(tdl_lsth[q], t)
    BY DEF UnlinkFromRunLists
  <2>2. tdl_lsth[q] \in Seq(Threads) /\ IsInjective(tdl_lsth[q])
    BY <1>1
  <2> QED BY <2>1, <2>2, ListDelRange
<1>3. tdl_lsth' \in [Prios -> Seq(Threads)]
  BY <1>2 DEF UnlinkFromRunLists
<1>4. /\ tdl_curruntd' \in [Prios -> Threads \cup {NULL}]
      /\ \A q \in Prios : tdl_curruntd'[q] =
           IF q = td_priority[t] /\ tdl_curruntd[q] = t
             THEN NULL ELSE tdl_curruntd[q]
  BY <1>1 DEF NotCurrun
<1>5. /\ td_stus' \in [Threads -> {"NONE", "NEW", "RUN", "WAIT", "EXIT"}]
      /\ td_stus'[t] \notin {"RUN", "NEW"}
      /\ \A x \in Threads : x # t => td_stus'[x] = td_stus[x]
  BY <1>1
<1>6. RunListsOK'
  <2> USE DEF Placement, RunListsOK, Ready
  <2>1. \A q \in Prios : tdl_curruntd'[q] # t /\ t # NULL
    BY <1>4
  <2>2. \A q \in Prios : \A x \in Range(tdl_lsth'[q]) :
           /\ q = td_priority[x]
           /\ td_stus'[x] \in {"RUN", "NEW"}
           /\ tdl_curruntd'[q] # x
    <3> TAKE q \in Prios
    <3> TAKE x \in Range(tdl_lsth'[q])
    <3>1. x \in Range(tdl_lsth[q]) /\ x # t /\ x \in Threads
      BY <1>1, <1>2, RangeOfSeq
    <3>2. x # NULL
      BY <3>1
    <3> QED BY <3>1, <3>2, <1>4, <1>5
  <2>3. \A q \in Prios : tdl_curruntd'[q] # NULL =>
           /\ q = td_priority[tdl_curruntd'[q]]
           /\ td_stus'[tdl_curruntd'[q]] \in {"RUN", "NEW"}
    BY <1>1, <1>4, <1>5, <2>1
  <2>4. \A x \in Threads : td_stus'[x] \in {"RUN", "NEW"} =>
           \/ tdl_curruntd'[td_priority[x]] = x
           \/ x \in Range(tdl_lsth'[td_priority[x]])
    BY <1>2, <1>4, <1>5
  <2> QED BY <1>2, <2>2, <2>3, <2>4
<1> QED BY <1>3, <1>4, <1>5, <1>6

\* A blocking krlsem_down.
LEMMA WaitInv ==
    ASSUME TypeOK, Placement, krlsched_wait
    PROVE  TypeOK' /\ Placement'
<1> USE SchedAssumption
<1> DEFINE t == sda_currtd
<1>1. /\ stk[t] # << >> /\ Last(stk[t]).pc = "krlsem_down"
      /\ td_stus' = [td_stus EXCEPT ![t] = "WAIT"]
      /\ tdl_lsth' = UnlinkFromRunLists(t)
      /\ sda_exitlist' = list_del(sda_exitlist, t)
      /\ tdl_curruntd' = NotCurrun(t)
      /\ tdl_nr' = [tdl_nr EXCEPT ![td_priority[t]] = Dec(@)]
      /\ wl_list' = list_add(t, list_del(wl_list, t))
      /\ wl_tdnr' = wl_tdnr + 1
      /\ stk' = [stk EXCEPT ![t] = Append(@, Frame("krlschedul", NULL))]
      /\ UNCHANGED <<td_tick, bin, sda_currtd, sda_schdflgs, sda_threadnr,
                     scls_threadnr, sem_count, cli, stale>>
  BY DEF krlsched_wait, krlwlst_add_thread, At, Call, thdVars,
         cntVars
<1>2. t \in Threads
  BY <1>1, ProgramFrame
<1>3. /\ td_stus' \in [Threads -> {"NONE", "NEW", "RUN", "WAIT", "EXIT"}]
      /\ tdl_lsth' \in [Prios -> Seq(Threads)]
      /\ tdl_curruntd' \in [Prios -> Threads \cup {NULL}]
      /\ RunListsOK'
  BY <1>1, <1>2, LeaveRunLists
<1>4. StackType(stk')
  BY <1>1, FrameTypes, CallTyped
<1>5. tdl_nr' \in [Prios -> 0 .. UINT - 1]
  <2>1. tdl_nr \in [Prios -> 0 .. UINT - 1] /\ td_priority[t] \in Prios
    BY <1>2 DEF TypeOK
  <2>2. Dec(tdl_nr[td_priority[t]]) \in 0 .. UINT - 1
    BY <2>1, WrapTyped
  <2> QED BY <1>1, <2>1, <2>2
<1>6. /\ wl_list \in Seq(Threads) /\ IsInjective(wl_list)
      /\ sda_exitlist \in Seq(Threads) /\ IsInjective(sda_exitlist)
      /\ td_stus \in [Threads -> {"NONE", "NEW", "RUN", "WAIT", "EXIT"}]
  BY DEF TypeOK, Placement, WaitListOK, ExitListOK
<1> HIDE DEF t
<1>7. /\ wl_list' \in Seq(Threads) /\ IsInjective(wl_list')
      /\ \A x : x \in Range(wl_list') <=> x \in Range(wl_list) \/ x = t
  <2>1. /\ list_del(wl_list, t) \in Seq(Threads)
        /\ IsInjective(list_del(wl_list, t))
        /\ \A x : x \in Range(list_del(wl_list, t)) <=>
                    x \in Range(wl_list) /\ x # t
    BY <1>6, ListDelRange
  <2> QED BY <1>1, <1>2, <2>1, ListAddRange
<1>8. /\ sda_exitlist' \in Seq(Threads) /\ IsInjective(sda_exitlist')
      /\ \A x : x \in Range(sda_exitlist') <=>
                  x \in Range(sda_exitlist) /\ x # t
  BY <1>1, <1>6, ListDelRange
<1>9. WaitListOK' /\ ExitListOK'
  BY <1>1, <1>2, <1>6, <1>7, <1>8 DEF Placement, WaitListOK, ExitListOK
<1>10. TypeOK'
  <2>1. wl_tdnr \in Nat /\ wl_tdnr' = wl_tdnr + 1
    BY <1>1 DEF TypeOK
  <2>2. wl_tdnr' \in Nat
    BY <2>1
  <2> QED BY <1>1, <1>3, <1>4, <1>5, <1>7, <1>8, <2>2 DEF TypeOK
<1> QED BY <1>3, <1>9, <1>10 DEF Placement

\* A thread that exits.
LEMMA ExitInv ==
    ASSUME TypeOK, Placement, krlschdclass_del_thread_addexit
    PROVE  TypeOK' /\ Placement'
<1> USE SchedAssumption
<1> DEFINE t == sda_currtd
<1>1. /\ stk[t] # << >> /\ Last(stk[t]).pc = "del_thread_addexit"
      /\ td_stus' = [td_stus EXCEPT ![t] = "EXIT"]
      /\ tdl_lsth' = UnlinkFromRunLists(t)
      /\ wl_list' = list_del(wl_list, t)
      /\ tdl_curruntd' = NotCurrun(t)
      /\ tdl_nr' = [tdl_nr EXCEPT ![td_priority[t]] = Dec(@)]
      /\ sda_threadnr' = Dec(sda_threadnr)
      /\ sda_exitlist' = list_add(t, list_del(sda_exitlist, t))
      /\ stk' = [stk EXCEPT ![t] = Append(Front(@), Frame("krlschedul", NULL))]
      /\ UNCHANGED <<td_tick, bin, sda_currtd, sda_schdflgs, scls_threadnr,
                     sem_count, wl_tdnr, cli, stale>>
  BY DEF krlschdclass_del_thread_addexit, At, GoTo, thdVars
<1>2. t \in Threads
  BY <1>1, ProgramFrame
<1>3. /\ td_stus' \in [Threads -> {"NONE", "NEW", "RUN", "WAIT", "EXIT"}]
      /\ tdl_lsth' \in [Prios -> Seq(Threads)]
      /\ tdl_curruntd' \in [Prios -> Threads \cup {NULL}]
      /\ RunListsOK'
  BY <1>1, <1>2, LeaveRunLists
<1>4. StackType(stk')
  BY <1>1, FrameTypes, GoToTyped
<1>5. /\ tdl_nr' \in [Prios -> 0 .. UINT - 1]
      /\ sda_threadnr' \in 0 .. UINT - 1
  <2>1. /\ tdl_nr \in [Prios -> 0 .. UINT - 1] /\ td_priority[t] \in Prios
        /\ sda_threadnr \in 0 .. UINT - 1
    BY <1>2 DEF TypeOK
  <2>2. /\ Dec(tdl_nr[td_priority[t]]) \in 0 .. UINT - 1
        /\ Dec(sda_threadnr) \in 0 .. UINT - 1
    BY <2>1, WrapTyped
  <2> QED BY <1>1, <2>1, <2>2
<1>6. /\ wl_list \in Seq(Threads) /\ IsInjective(wl_list)
      /\ sda_exitlist \in Seq(Threads) /\ IsInjective(sda_exitlist)
      /\ td_stus \in [Threads -> {"NONE", "NEW", "RUN", "WAIT", "EXIT"}]
  BY DEF TypeOK, Placement, WaitListOK, ExitListOK
<1> HIDE DEF t
<1>7. /\ sda_exitlist' \in Seq(Threads) /\ IsInjective(sda_exitlist')
      /\ \A x : x \in Range(sda_exitlist') <=>
                  x \in Range(sda_exitlist) \/ x = t
  <2>1. /\ list_del(sda_exitlist, t) \in Seq(Threads)
        /\ IsInjective(list_del(sda_exitlist, t))
        /\ \A x : x \in Range(list_del(sda_exitlist, t)) <=>
                    x \in Range(sda_exitlist) /\ x # t
    BY <1>6, ListDelRange
  <2> QED BY <1>1, <1>2, <2>1, ListAddRange
<1>8. /\ wl_list' \in Seq(Threads) /\ IsInjective(wl_list')
      /\ \A x : x \in Range(wl_list') <=> x \in Range(wl_list) /\ x # t
  BY <1>1, <1>6, ListDelRange
<1>9. WaitListOK' /\ ExitListOK'
  BY <1>1, <1>2, <1>6, <1>7, <1>8 DEF Placement, WaitListOK, ExitListOK
<1>10. TypeOK'
  BY <1>1, <1>3, <1>4, <1>5, <1>7, <1>8 DEF TypeOK
<1> QED BY <1>3, <1>9, <1>10 DEF Placement

\* One turn of krlwlst_allup.
LEMMA UpInv ==
    ASSUME TypeOK, Placement, krlsched_up
    PROVE  TypeOK' /\ Placement'
<1> USE SchedAssumption
<1> DEFINE t == Head(wl_list)
           p == td_priority[t]
<1>1. /\ wl_list # << >>
      /\ UNCHANGED <<td_tick, bin, stk, tdl_curruntd, sda_currtd, sda_schdflgs,
                     sda_threadnr, scls_threadnr, sda_exitlist, sem_count,
                     stale>>
  BY DEF krlsched_up, thdVars, cntVars
<1>2. CASE wl_tdnr < 1
  <2>1. /\ cli' = "krlsched_up err"
        /\ UNCHANGED <<td_stus, wl_list, wl_tdnr, tdl_lsth, tdl_nr>>
    BY <1>2 DEF krlsched_up
  <2>2. TypeOK'
    BY <1>1, <2>1 DEF TypeOK
  <2> QED BY <1>1, <2>1, <2>2, PlacementUnmoved
<1>3. CASE ~ (wl_tdnr < 1)
  <2>1. /\ wl_list' = Tail(wl_list)
        /\ wl_tdnr' = wl_tdnr - 1
        /\ td_stus' = [td_stus EXCEPT ![t] = "RUN"]
        /\ tdl_lsth' = [tdl_lsth EXCEPT ![p] = Append(@, t)]
        /\ tdl_nr' = [tdl_nr EXCEPT ![p] = Inc(@)]
        /\ UNCHANGED cli
    BY <1>3 DEF krlsched_up
  <2>2. /\ wl_list \in Seq(Threads) /\ IsInjective(wl_list)
        /\ sda_exitlist \in Seq(Threads)
        /\ td_stus \in [Threads -> {"NONE", "NEW", "RUN", "WAIT", "EXIT"}]
        /\ tdl_lsth \in [Prios -> Seq(Threads)]
        /\ tdl_curruntd \in [Prios -> Threads \cup {NULL}]
        /\ tdl_nr \in [Prios -> 0 .. UINT - 1]
        /\ wl_tdnr \in Nat
    BY DEF TypeOK, Placement, WaitListOK
  <2>3. /\ t \in Threads /\ t \in Range(wl_list)
        /\ wl_list' \in Seq(Threads) /\ IsInjective(wl_list')
        /\ \A x : x \in Range(wl_list') <=> x \in Range(wl_list) /\ x # t
    BY <1>1, <2>1, <2>2, TailRange
  <2>4. p \in Prios /\ td_stus[t] = "WAIT" /\ ~ Ready(t)
    BY <2>3 DEF Placement, WaitListOK, Ready
  <2> HIDE DEF t, p
  <2>5. p = td_priority[t]
    BY DEF p
  <2>6. /\ tdl_lsth[p] \in Seq(Threads) /\ IsInjective(tdl_lsth[p])
        /\ t \notin Range(tdl_lsth[p])
        /\ \A q \in Prios : tdl_curruntd[q] # t
    <3>1. t # NULL
      BY <2>3
    <3> QED BY <2>2, <2>4, <3>1 DEF Placement, RunListsOK
  <2>7. /\ tdl_lsth'[p] \in Seq(Threads) /\ IsInjective(tdl_lsth'[p])
        /\ \A x : x \in Range(tdl_lsth'[p]) <=>
                    x \in Range(tdl_lsth[p]) \/ x = t
    BY <2>1, <2>2, <2>3, <2>4, <2>6, AppendRange
  <2>8. \A q \in Prios : q # p => tdl_lsth'[q] = tdl_lsth[q]
    BY <2>1, <2>2
  <2>9. /\ td_stus' \in [Threads -> {"NONE", "NEW", "RUN", "WAIT", "EXIT"}]
        /\ td_stus'[t] = "RUN"
        /\ \A x \in Threads : x # t => td_stus'[x] = td_stus[x]
    BY <2>1, <2>2, <2>3
  <2>10. tdl_lsth' \in [Prios -> Seq(Threads)]
    BY <2>1, <2>2, <2>7, <2>8
  <2>11. tdl_nr' \in [Prios -> 0 .. UINT - 1]
    <3>1. Inc(tdl_nr[p]) \in 0 .. UINT - 1
      BY <2>2, <2>4, WrapTyped
    <3> QED BY <2>1, <2>2, <3>1
  <2>12. wl_tdnr' \in Nat
    BY <1>3, <2>1, <2>2
  <2>13. TypeOK'
    BY <1>1, <2>1, <2>3, <2>9, <2>10, <2>11, <2>12 DEF TypeOK
  <2>14. RunListsOK'
    <3>0. tdl_curruntd' = tdl_curruntd
      BY <1>1
    <3>1. \A q \in Prios : IsInjective(tdl_lsth'[q])
      BY <2>7, <2>8, RunListsFacts
    <3>2. \A q \in Prios : \A x \in Range(tdl_lsth'[q]) :
             /\ q = td_priority[x]
             /\ td_stus'[x] \in {"RUN", "NEW"}
             /\ tdl_curruntd'[q] # x
      <4> TAKE q \in Prios
      <4> TAKE x \in Range(tdl_lsth'[q])
      <4>1. CASE x = t
        <5>1. q = p
          BY <4>1, <2>4, <2>5, <2>8, RunListsFacts DEF Ready
        <5> QED BY <4>1, <5>1, <3>0, <2>5, <2>6, <2>9
      <4>2. CASE x # t
        <5>1. x \in Range(tdl_lsth[q])
          BY <4>2, <2>7, <2>8
        <5>2. x \in Threads
          BY <5>1, <2>2, RangeOfSeq
        <5> QED BY <4>2, <5>1, <5>2, <3>0, RunListsFacts, <2>9
      <4> QED BY <4>1, <4>2
    <3>3. \A q \in Prios : tdl_curruntd'[q] # NULL =>
             /\ q = td_priority[tdl_curruntd'[q]]
             /\ td_stus'[tdl_curruntd'[q]] \in {"RUN", "NEW"}
      BY <3>0, RunListsFacts, <2>2, <2>6, <2>9
    <3>4. \A x \in Threads : td_stus'[x] \in {"RUN", "NEW"} =>
             \/ tdl_curruntd'[td_priority[x]] = x
             \/ x \in Range(tdl_lsth'[td_priority[x]])
      BY <3>0, RunListsFacts, <2>5, <2>7, <2>8, <2>9
    <3> QED BY <3>1, <3>2, <3>3, <3>4 DEF RunListsOK, Ready
  <2>15. WaitListOK' /\ ExitListOK'
    BY <1>1, <2>3, <2>4, <2>9 DEF Placement, WaitListOK, ExitListOK
  <2> QED BY <2>13, <2>14, <2>15 DEF Placement
<1> QED BY <1>2, <1>3

\* A new thread goes to the head of its run list.
LEMMA NewThreadInv ==
    ASSUME TypeOK, Placement, NEW n \in Threads, krlnew_thread(n)
    PROVE  TypeOK' /\ Placement'
<1> USE SchedAssumption
<1> DEFINE p == td_priority[n]
<1>1. /\ stk[sda_currtd] # << >> /\ Last(stk[sda_currtd]).pc = "user"
      /\ td_stus[n] = "NONE"
      /\ td_stus' = [td_stus EXCEPT ![n] = "NEW"]
      /\ tdl_lsth' = [tdl_lsth EXCEPT ![p] = list_add(n, @)]
      /\ tdl_nr' = [tdl_nr EXCEPT ![p] = Inc(@)]
      /\ sda_threadnr' = Inc(sda_threadnr)
      /\ stk' = [stk EXCEPT
                   ![sda_currtd] = Append(@, Frame("krlthread_execvl", n)),
                   ![n] = <<Frame("user", NULL)>>]
      /\ UNCHANGED <<td_tick, bin, tdl_curruntd, sda_currtd, sda_schdflgs,
                     scls_threadnr, sda_exitlist, sem_count, wl_list, wl_tdnr,
                     cli, stale>>
  BY DEF krlnew_thread, At, thdVars, semVars
<1>2. sda_currtd \in Threads /\ p \in Prios
  BY <1>1, ProgramFrame
<1>3. /\ td_stus \in [Threads -> {"NONE", "NEW", "RUN", "WAIT", "EXIT"}]
      /\ tdl_lsth \in [Prios -> Seq(Threads)]
      /\ tdl_curruntd \in [Prios -> Threads \cup {NULL}]
      /\ tdl_nr \in [Prios -> 0 .. UINT - 1]
      /\ sda_threadnr \in 0 .. UINT - 1
  BY DEF TypeOK
<1>4. StackType(stk')
  <2> DEFINE s1 == [stk EXCEPT ![sda_currtd] =
                      Append(@, Frame("krlthread_execvl", n))]
             u == <<Frame("user", NULL)>>
  <2>1. StackType(s1)
    BY <1>2, FrameTypes, CallTyped
  <2>2. u \in Seq(UserFrames \cup SchedFrames)
    BY FrameTypes
  <2>3. stk' = [s1 EXCEPT ![n] = u]
    BY <1>1
  <2> HIDE DEF s1, u
  <2> QED BY <2>1, <2>2, <2>3 DEF StackType, Anyone
<1>5. /\ tdl_nr' \in [Prios -> 0 .. UINT - 1]
      /\ sda_threadnr' \in 0 .. UINT - 1
  <2>1. /\ Inc(tdl_nr[p]) \in 0 .. UINT - 1
        /\ Inc(sda_threadnr) \in 0 .. UINT - 1
    BY <1>2, <1>3, WrapTyped
  <2> QED BY <1>1, <1>3, <2>1
<1> HIDE DEF p
<1>6. p = td_priority[n]
  BY DEF p
<1>7. /\ tdl_lsth[p] \in Seq(Threads) /\ IsInjective(tdl_lsth[p])
      /\ n \notin Range(tdl_lsth[p])
      /\ \A q \in Prios : tdl_curruntd[q] # n
  <2>1. n # NULL /\ ~ Ready(n)
    BY <1>1 DEF Ready
  <2> QED BY <1>2, <1>3, <2>1 DEF Placement, RunListsOK
<1>8. /\ tdl_lsth'[p] \in Seq(Threads) /\ IsInjective(tdl_lsth'[p])
      /\ \A x : x \in Range(tdl_lsth'[p]) <=>
                  x \in Range(tdl_lsth[p]) \/ x = n
  <2> DEFINE l == tdl_lsth[p]
  <2>1. tdl_lsth'[p] = list_add(n, l)
    BY <1>1, <1>2, <1>3
  <2>2. l \in Seq(Threads) /\ IsInjective(l) /\ n \notin Range(l)
    BY <1>7
  <2> HIDE DEF l
  <2>3. /\ list_add(n, l) \in Seq(Threads)
        /\ IsInjective(list_add(n, l))
        /\ \A x : x \in Range(list_add(n, l)) <=> x \in Range(l) \/ x = n
    BY <2>2, ListAddRange
  <2> QED BY <2>1, <2>3 DEF l
<1>9. \A q \in Prios : q # p => tdl_lsth'[q] = tdl_lsth[q]
  BY <1>1, <1>3
<1>10. /\ td_stus' \in [Threads -> {"NONE", "NEW", "RUN", "WAIT", "EXIT"}]
       /\ td_stus'[n] = "NEW"
       /\ \A x \in Threads : x # n => td_stus'[x] = td_stus[x]
  BY <1>1, <1>3
<1>11. tdl_lsth' \in [Prios -> Seq(Threads)]
  <2>1. tdl_lsth' = [tdl_lsth EXCEPT ![p] = list_add(n, @)]
    BY <1>1
  <2>2. tdl_lsth' = [q \in Prios |-> tdl_lsth'[q]]
    BY <1>3, <2>1
  <2> QED BY <1>3, <1>8, <1>9, <2>2
<1>12. TypeOK'
  BY <1>1, <1>4, <1>5, <1>10, <1>11 DEF TypeOK
<1>13. RunListsOK'
  <2>0. tdl_curruntd' = tdl_curruntd
    BY <1>1
  <2>1. \A q \in Prios : IsInjective(tdl_lsth'[q])
    BY <1>8, <1>9, RunListsFacts
  <2>2. \A q \in Prios : \A x \in Range(tdl_lsth'[q]) :
           /\ q = td_priority[x]
           /\ td_stus'[x] \in {"RUN", "NEW"}
           /\ tdl_curruntd'[q] # x
    <3> TAKE q \in Prios
    <3> TAKE x \in Range(tdl_lsth'[q])
    <3>1. CASE x = n
      <4>1. q = p
        BY <3>1, <1>6, <1>9, RunListsFacts
      <4> QED BY <3>1, <4>1, <2>0, <1>6, <1>7, <1>10
    <3>2. CASE x # n
      <4>1. x \in Range(tdl_lsth[q])
        BY <3>2, <1>8, <1>9
      <4>2. x \in Threads
        BY <4>1, <1>3, RangeOfSeq
      <4> QED BY <3>2, <4>1, <4>2, <2>0, <1>10, RunListsFacts
    <3> QED BY <3>1, <3>2
  <2>3. \A q \in Prios : tdl_curruntd'[q] # NULL =>
           /\ q = td_priority[tdl_curruntd'[q]]
           /\ td_stus'[tdl_curruntd'[q]] \in {"RUN", "NEW"}
    BY <2>0, <1>3, <1>7, <1>10, RunListsFacts
  <2>4. \A x \in Threads : td_stus'[x] \in {"RUN", "NEW"} =>
           \/ tdl_curruntd'[td_priority[x]] = x
           \/ x \in Range(tdl_lsth'[td_priority[x]])
    BY <2>0, <1>6, <1>8, <1>9, <1>10, RunListsFacts
  <2> QED BY <2>1, <2>2, <2>3, <2>4 DEF RunListsOK, Ready
<1>14. WaitListOK' /\ ExitListOK'
  BY <1>1, <1>10 DEF Placement, WaitListOK, ExitListOK
<1> QED BY <1>12, <1>13, <1>14 DEF Placement

\* A switch turns a NEW thread into a RUN one, no more.
LEMMA SwitchInv ==
    ASSUME TypeOK, Placement, save_to_new_context
    PROVE  TypeOK' /\ Placement'
<1> USE SchedAssumption
<1> DEFINE next == Arg
<1>1. /\ stk[sda_currtd] # << >>
      /\ Last(stk[sda_currtd]).pc = "save_to_new_context"
      /\ sda_currtd' = next
      /\ td_stus' = [t \in Threads |->
                       IF t = next /\ td_stus[t] = "NEW"
                         THEN "RUN" ELSE td_stus[t]]
      /\ stk' = [stk EXCEPT ![sda_currtd] = Front(@)]
      /\ UNCHANGED <<td_tick, bin, tdl_lsth, tdl_curruntd, tdl_nr,
                     sda_schdflgs, sda_threadnr, scls_threadnr, sda_exitlist,
                     sem_count, wl_list, wl_tdnr, cli>>
  BY DEF save_to_new_context, At, Return, thdVars, runVars, cntVars, semVars
<1>2. next \in Anyone
  <2>1. Last(stk[sda_currtd]) \in UserFrames \cup SchedFrames
    BY <1>1, FrontType DEF TypeOK, StackType
  <2> QED BY <1>1, <2>1 DEF Arg, UserFrames, SchedFrames
<1>3. StackType(stk')
  BY <1>1, ReturnTyped
<1>4. stale' \in BOOLEAN
  BY DEF save_to_new_context
<1> HIDE DEF next
<1>5. /\ td_stus' \in [Threads -> {"NONE", "NEW", "RUN", "WAIT", "EXIT"}]
      /\ \A t \in Threads : /\ Ready(t)' <=> Ready(t)
                            /\ td_stus'[t] = "WAIT" <=> td_stus[t] = "WAIT"
                            /\ td_stus'[t] = "EXIT" <=> td_stus[t] = "EXIT"
  BY <1>1 DEF TypeOK, Ready
<1>6. TypeOK'
  BY <1>1, <1>2, <1>3, <1>4, <1>5 DEF TypeOK
<1>7. /\ tdl_lsth \in [Prios -> Seq(Threads)]
      /\ tdl_curruntd \in [Prios -> Threads \cup {NULL}]
      /\ \A q \in Prios : \A x \in Range(tdl_lsth[q]) : x \in Threads
  BY RangeOfSeq DEF TypeOK
<1>8. RunListsOK'
  <2>0. tdl_lsth' = tdl_lsth /\ tdl_curruntd' = tdl_curruntd
    BY <1>1
  <2>5. \A t \in Threads : td_stus'[t] \in {"RUN", "NEW"} <=>
                           td_stus[t] \in {"RUN", "NEW"}
    BY <1>5 DEF Ready
  <2>1. \A q \in Prios : \A x \in Range(tdl_lsth'[q]) :
           /\ q = td_priority[x]
           /\ td_stus'[x] \in {"RUN", "NEW"}
           /\ tdl_curruntd'[q] # x
    BY <2>0, <2>5, <1>7, RunListsFacts
  <2>2. \A q \in Prios : tdl_curruntd'[q] # NULL =>
           /\ q = td_priority[tdl_curruntd'[q]]
           /\ td_stus'[tdl_curruntd'[q]] \in {"RUN", "NEW"}
    BY <2>0, <2>5, <1>7, RunListsFacts
  <2>3. \A x \in Threads : td_stus'[x] \in {"RUN", "NEW"} =>
           \/ tdl_curruntd'[td_priority[x]] = x
           \/ x \in Range(tdl_lsth'[td_priority[x]])
    BY <2>0, <2>5, RunListsFacts
  <2>4. \A q \in Prios : IsInjective(tdl_lsth'[q])
    BY <2>0, RunListsFacts
  <2> QED BY <2>1, <2>2, <2>3, <2>4 DEF RunListsOK, Ready
<1>9. WaitListOK' /\ ExitListOK'
  BY <1>1, <1>5 DEF Placement, WaitListOK, ExitListOK
<1> QED BY <1>6, <1>8, <1>9 DEF Placement

\* Every other step leaves the status and the lists alone.
LEMMA OtherInv ==
    ASSUME TypeOK, Placement,
           \/ \E p \in Prios : SelectCurrun(p)
           \/ SelectIdle
           \/ krlsem_down_take
           \/ krlsched_wait_err
           \/ krlsem_up_end
           \/ krlsched_chkneed_pmptsched
           \/ krlcpuidle_main
           \/ \E ok \in BOOLEAN : krlthread_execvl(ok)
           \/ hal_fault_allocator
           \/ krlsched_exit
           \/ SysRead
           \/ SysExit
           \/ uart_handle
           \/ systick_handle
           \/ hal_sysdie
    PROVE  TypeOK' /\ Placement'
<1> USE SchedAssumption
<1>1. ASSUME NEW p \in Prios, SelectCurrun(p)
      PROVE  TypeOK' /\ Placement'
  <2>1. /\ stk[sda_currtd] # << >> /\ tdl_curruntd[p] # NULL
        /\ stk' = [stk EXCEPT ![sda_currtd] = Append(Front(@),
                     Frame("save_to_new_context", tdl_curruntd[p]))]
        /\ UNCHANGED <<td_stus, td_tick, bin, tdl_lsth, tdl_curruntd, tdl_nr,
                       sda_currtd, sda_schdflgs, sda_threadnr, scls_threadnr,
                       sda_exitlist, sem_count, wl_list, wl_tdnr, cli, stale>>
    BY <1>1 DEF SelectCurrun, At, GoTo, thdVars, runVars, cntVars, semVars
  <2>2. tdl_curruntd[p] \in Anyone
    BY <2>1 DEF TypeOK, Anyone
  <2>3. StackType(stk')
    BY <2>1, <2>2, FrameTypes, GoToTyped
  <2>4. TypeOK'
    BY <2>1, <2>3 DEF TypeOK
  <2> QED BY <2>1, <2>4, PlacementUnmoved
<1>2. ASSUME SelectIdle PROVE TypeOK' /\ Placement'
  <2>1. /\ stk[sda_currtd] # << >>
        /\ stk' = [stk EXCEPT ![sda_currtd] = Append(Front(@),
                     Frame("save_to_new_context", Idle))]
        /\ UNCHANGED <<td_stus, td_tick, bin, tdl_lsth, tdl_curruntd, tdl_nr,
                       sda_currtd, sda_schdflgs, sda_threadnr, scls_threadnr,
                       sda_exitlist, sem_count, wl_list, wl_tdnr, cli, stale>>
    BY <1>2 DEF SelectIdle, At, GoTo, thdVars, runVars, cntVars, semVars
  <2>2. Idle \in Anyone
    BY DEF Anyone
  <2>3. StackType(stk')
    BY <2>1, <2>2, FrameTypes, GoToTyped
  <2>4. TypeOK'
    BY <2>1, <2>3 DEF TypeOK
  <2> QED BY <2>1, <2>4, PlacementUnmoved
<1>3. ASSUME krlsem_down_take PROVE TypeOK' /\ Placement'
  <2>1. /\ stk[sda_currtd] # << >> /\ sem_count >= 1
        /\ sem_count' = sem_count - 1
        /\ stk' = [stk EXCEPT ![sda_currtd] = Front(@)]
        /\ UNCHANGED <<td_stus, td_tick, bin, tdl_lsth, tdl_curruntd, tdl_nr,
                       sda_currtd, sda_schdflgs, sda_threadnr, scls_threadnr,
                       sda_exitlist, wl_list, wl_tdnr, cli, stale>>
    BY <1>3 DEF krlsem_down_take, At, Return, thdVars, runVars, cntVars
  <2>2. sem_count \in Nat
    BY DEF TypeOK
  <2>3. sem_count' \in Nat
    BY <2>1, <2>2
  <2>4. StackType(stk')
    BY <2>1, ReturnTyped
  <2>5. TypeOK'
    BY <2>1, <2>3, <2>4 DEF TypeOK
  <2> QED BY <2>1, <2>5, PlacementUnmoved
<1>4. ASSUME krlsched_wait_err \/ krlsem_up_end PROVE TypeOK' /\ Placement'
  <2>1. /\ cli' \in {"open", "krlsched_wait err"}
        /\ sda_schdflgs' \in {TRUE, sda_schdflgs}
        /\ UNCHANGED <<td_stus, td_tick, bin, stk, tdl_lsth, tdl_curruntd,
                       tdl_nr, sda_currtd, sda_threadnr, scls_threadnr,
                       sda_exitlist, sem_count, wl_list, wl_tdnr, stale>>
    BY <1>4 DEF krlsched_wait_err, krlsem_up_end, thdVars, runVars, cntVars,
                semVars
  <2>2. sda_schdflgs' \in BOOLEAN
    BY <2>1 DEF TypeOK
  <2>3. TypeOK'
    BY <2>1, <2>2 DEF TypeOK
  <2> QED BY <2>1, <2>3, PlacementUnmoved
<1>5. ASSUME krlsched_chkneed_pmptsched PROVE TypeOK' /\ Placement'
  <2>1. /\ stk[sda_currtd] # << >>
        /\ sda_schdflgs' = FALSE
        /\ \/ stk' = [stk EXCEPT ![sda_currtd] =
                        Append(Front(@), Frame("krlschedul", NULL))]
           \/ stk' = [stk EXCEPT ![sda_currtd] = Front(@)]
        /\ UNCHANGED <<td_stus, td_tick, bin, tdl_lsth, tdl_curruntd, tdl_nr,
                       sda_currtd, sda_threadnr, scls_threadnr,
                       sda_exitlist, sem_count, wl_list, wl_tdnr, cli, stale>>
    BY <1>5 DEF krlsched_chkneed_pmptsched, At, Return, GoTo, thdVars,
                runVars, cntVars, semVars
  <2>2. StackType(stk')
    BY <2>1, FrameTypes, GoToTyped, ReturnTyped
  <2>3. sda_schdflgs' \in BOOLEAN
    BY <2>1
  <2>4. TypeOK'
    BY <2>1, <2>2, <2>3 DEF TypeOK
  <2> QED BY <2>1, <2>4, PlacementUnmoved
<1>6. ASSUME krlcpuidle_main \/ hal_fault_allocator \/ SysRead \/ SysExit
      PROVE  TypeOK' /\ Placement'
  <2>1. PICK f : /\ stk' = [stk EXCEPT ![sda_currtd] = Append(@, f)]
                 /\ \/ f = Frame("krlschedul", NULL)
                    \/ /\ f \in {Frame("sysdie", NULL),
                                 Frame("krlsem_down", NULL),
                                 Frame("krlsched_exit", NULL)}
                       /\ stk[sda_currtd] # << >>
                       /\ Last(stk[sda_currtd]).pc = "user"
    BY <1>6 DEF krlcpuidle_main, hal_fault_allocator, SysRead, SysExit, Call, At
  <2>2. UNCHANGED <<td_stus, td_tick, bin, tdl_lsth, tdl_curruntd, tdl_nr,
                    sda_currtd, sda_schdflgs, sda_threadnr, scls_threadnr,
                    sda_exitlist, sem_count, wl_list, wl_tdnr, cli, stale>>
    BY <1>6 DEF krlcpuidle_main, hal_fault_allocator, SysRead, SysExit,
                thdVars, runVars, cntVars, semVars
  <2>3. f \in SchedFrames \/ (f \in UserFrames /\ sda_currtd \in Threads)
    BY <2>1, FrameTypes, ProgramFrame
  <2>4. StackType(stk')
    BY <2>1, <2>3, CallTyped
  <2>5. TypeOK'
    BY <2>2, <2>4 DEF TypeOK
  <2> QED BY <2>2, <2>5, PlacementUnmoved
<1>7. ASSUME NEW ok \in BOOLEAN, krlthread_execvl(ok)
      PROVE  TypeOK' /\ Placement'
  <2>1. /\ stk[sda_currtd] # << >>
        /\ Last(stk[sda_currtd]).pc = "krlthread_execvl"
        /\ bin' \in {bin, bin \cup {Last(stk[sda_currtd]).arg}}
        /\ scls_threadnr' = Inc(scls_threadnr)
        /\ stk' = [stk EXCEPT ![sda_currtd] = Front(@)]
        /\ UNCHANGED <<td_stus, td_tick, tdl_lsth, tdl_curruntd, tdl_nr,
                       sda_currtd, sda_schdflgs, sda_threadnr,
                       sda_exitlist, sem_count, wl_list, wl_tdnr, cli, stale>>
    BY <1>7 DEF krlthread_execvl, At, Arg, Return, runVars, semVars
  <2>2. Last(stk[sda_currtd]) \in UserFrames \cup SchedFrames
    BY <2>1, FrontType DEF TypeOK, StackType
  <2>3. Last(stk[sda_currtd]).arg \in Threads
    BY <2>1, <2>2 DEF UserFrames, SchedFrames
  <2>4. bin' \subseteq Threads
    BY <2>1, <2>3 DEF TypeOK
  <2>5. scls_threadnr' \in 0 .. UINT - 1
    BY <2>1, WrapTyped DEF TypeOK
  <2>6. StackType(stk')
    BY <2>1, ReturnTyped
  <2>7. TypeOK'
    BY <2>1, <2>4, <2>5, <2>6 DEF TypeOK
  <2> QED BY <2>1, <2>7, PlacementUnmoved
<1>8. ASSUME krlsched_exit PROVE TypeOK' /\ Placement'
  <2>1. /\ stk[sda_currtd] # << >>
        /\ Last(stk[sda_currtd]).pc = "krlsched_exit"
        /\ \/ stk' = [stk EXCEPT ![sda_currtd] =
                        Append(Front(@), Frame("sysdie", NULL))]
           \/ stk' = [stk EXCEPT ![sda_currtd] =
                        Append(Front(@), Frame("del_thread_addexit", NULL))]
        /\ UNCHANGED <<td_stus, td_tick, bin, tdl_lsth, tdl_curruntd, tdl_nr,
                       sda_currtd, sda_schdflgs, sda_threadnr, scls_threadnr,
                       sda_exitlist, sem_count, wl_list, wl_tdnr, cli, stale>>
    BY <1>8 DEF krlsched_exit, At, GoTo, thdVars, runVars, cntVars, semVars
  <2>2. sda_currtd \in Threads
    BY <2>1, ProgramFrame
  <2>3. StackType(stk')
    BY <2>1, <2>2, FrameTypes, GoToTyped
  <2>4. TypeOK'
    BY <2>1, <2>3 DEF TypeOK
  <2> QED BY <2>1, <2>4, PlacementUnmoved
<1>9. ASSUME uart_handle PROVE TypeOK' /\ Placement'
  <2>1. /\ sem_count' = sem_count + 1
        /\ cli' \in {"sem up err", "krlwlst_allup"}
        /\ stk' = [stk EXCEPT ![sda_currtd] =
                     Append(@, Frame("chkneed_pmptsched", NULL))]
        /\ UNCHANGED <<td_stus, td_tick, bin, tdl_lsth, tdl_curruntd, tdl_nr,
                       sda_currtd, sda_schdflgs, sda_threadnr, scls_threadnr,
                       sda_exitlist, wl_list, wl_tdnr, stale>>
    BY <1>9 DEF uart_handle, Call, thdVars, runVars, cntVars
  <2>2. sem_count \in Nat /\ sem_count' = sem_count + 1
    BY <2>1 DEF TypeOK
  <2>3. sem_count' \in Nat
    BY <2>2
  <2>4. StackType(stk')
    BY <2>1, FrameTypes, CallTyped
  <2>5. TypeOK'
    BY <2>1, <2>3, <2>4 DEF TypeOK
  <2> QED BY <2>1, <2>5, PlacementUnmoved
<1>10. ASSUME systick_handle PROVE TypeOK' /\ Placement'
  <2> DEFINE over == td_tick[sda_currtd] + 1 > TDRUN_TICK
  <2>1. /\ td_tick' = [td_tick EXCEPT ![sda_currtd] =
                         IF over THEN 0 ELSE @ + 1]
        /\ sda_schdflgs' = (sda_schdflgs \/ over)
        /\ stk' = [stk EXCEPT ![sda_currtd] =
                     Append(@, Frame("chkneed_pmptsched", NULL))]
        /\ UNCHANGED <<td_stus, bin, tdl_lsth, tdl_curruntd, tdl_nr,
                       sda_currtd, sda_threadnr, scls_threadnr, sda_exitlist,
                       sem_count, wl_list, wl_tdnr, cli, stale>>
    BY <1>10 DEF systick_handle, Call, runVars, cntVars, semVars
  <2>2. sda_schdflgs' \in BOOLEAN
    BY <2>1
  <2>3. td_tick \in [Anyone -> 0 .. TDRUN_TICK] /\ sda_currtd \in Anyone
    BY DEF TypeOK
  <2>4. td_tick' \in [Anyone -> 0 .. TDRUN_TICK]
    BY <2>1, <2>3
  <2>5. StackType(stk')
    BY <2>1, FrameTypes, CallTyped
  <2>6. TypeOK'
    BY <2>1, <2>2, <2>4, <2>5 DEF TypeOK
  <2> QED BY <2>1, <2>6, PlacementUnmoved
<1>11. ASSUME UNCHANGED vars PROVE TypeOK' /\ Placement'
  <2>1. UNCHANGED <<td_stus, td_tick, bin, stk, tdl_lsth, tdl_curruntd, tdl_nr,
                    sda_currtd, sda_schdflgs, sda_threadnr, scls_threadnr,
                    sda_exitlist, sem_count, wl_list, wl_tdnr, cli, stale>>
    BY <1>11 DEF vars, thdVars, runVars, cntVars, semVars
  <2>2. TypeOK'
    BY <2>1 DEF TypeOK
  <2> QED BY <2>1, <2>2, PlacementUnmoved
<1> QED BY <1>1, <1>2, <1>3, <1>4, <1>5, <1>6, <1>7, <1>8, <1>9, <1>10, <1>11
     DEF hal_sysdie

-----------------------------------------------------------------------------
(* The theorems.  TypeOK and Placement are inductive together.             *)

\* Every step keeps types and lists.
LEMMA StepInv ==
    ASSUME TypeOK, Placement, [Next]_vars
    PROVE  TypeOK' /\ Placement'
<1>1. ASSUME krlsched_select_thread PROVE TypeOK' /\ Placement'
  BY <1>1, SelectFromListInv, OtherInv DEF krlsched_select_thread
<1>2. ASSUME KernelStep PROVE TypeOK' /\ Placement'
  BY <1>1, <1>2, SwitchInv, WaitInv, UpInv, ExitInv, OtherInv DEF KernelStep
<1>3. ASSUME UNCHANGED vars PROVE TypeOK' /\ Placement'
  <2>1. UNCHANGED <<td_stus, td_tick, bin, stk, tdl_lsth, tdl_curruntd, tdl_nr,
                    sda_currtd, sda_schdflgs, sda_threadnr, scls_threadnr,
                    sda_exitlist, sem_count, wl_list, wl_tdnr, cli, stale>>
    BY <1>3 DEF vars, thdVars, runVars, cntVars, semVars
  <2>2. TypeOK'
    BY <2>1 DEF TypeOK
  <2> QED BY <2>1, <2>2, PlacementUnmoved
<1> QED BY <1>2, <1>3, NewThreadInv, OtherInv DEF Next

\* Every field keeps its type, for any number of threads and priorities and
\* any depth of nested interrupts: in particular the idle thread never waits,
\* exits or starts a thread.
THEOREM TypeCorrect == Spec => []TypeOK
<1>1. Init => TypeOK /\ Placement
  BY InitInv
<1>2. TypeOK /\ Placement /\ [Next]_vars => TypeOK' /\ Placement'
  BY StepInv
<1> QED BY <1>1, <1>2, PTL DEF Spec

\* A thread is linked where its status says, on one list, once, however
\* interrupts nest in krlschedul and whichever stale thread is switched to.
THEOREM PlacementCorrect == Spec => []Placement
<1>1. Init => TypeOK /\ Placement
  BY InitInv
<1>2. TypeOK /\ Placement /\ [Next]_vars => TypeOK' /\ Placement'
  BY StepInv
<1> QED BY <1>1, <1>2, PTL DEF Spec

\* krlsem_down and krlsem_up never lose a wake-up.
THEOREM NoLostWakeupCorrect == Spec => []NoLostWakeup
<1>1. Init => NoLostWakeup
  BY DEF Init, NoLostWakeup
<1>2. TypeOK /\ NoLostWakeup /\ [Next]_vars => NoLostWakeup'
  <2> SUFFICES ASSUME TypeOK, NoLostWakeup, [Next]_vars,
                      cli' = "open", wl_list' # << >>
               PROVE  sem_count' = 0
    BY DEF NoLostWakeup
  <2>1. ASSUME sem_count' = sem_count, wl_list' = wl_list, cli = "open"
        PROVE  sem_count' = 0
    BY <2>1 DEF NoLostWakeup
  <2>2. CASE krlsched_wait
    <3>1. sem_count \in Nat /\ sem_count < 1 /\ sem_count' = sem_count
      BY <2>2 DEF krlsched_wait, TypeOK
    <3> QED BY <3>1
  <2>3. CASE krlsem_down_take
    <3>1. /\ sem_count >= 1 /\ wl_list # << >> /\ cli = "open"
      BY <2>3 DEF krlsem_down_take, At
    <3> QED BY <3>1 DEF NoLostWakeup
  <2>4. CASE krlschdclass_del_thread_addexit
    <3>1. /\ wl_list' = list_del(wl_list, sda_currtd)
          /\ cli = "open" /\ sem_count' = sem_count
      BY <2>4 DEF krlschdclass_del_thread_addexit, At
    <3>2. list_del(<< >>, sda_currtd) = << >>
      BY DEF list_del, Range
    <3>3. wl_list # << >>
      BY <3>1, <3>2
    <3> QED BY <3>1, <3>3 DEF NoLostWakeup
  <2>5. CASE krlsched_wait_err \/ uart_handle \/ krlsched_up \/ krlsem_up_end
    BY <2>5 DEF krlsched_wait_err, uart_handle, krlsched_up, krlsem_up_end,
                semVars
  <2>6. CASE krlsched_select_thread
    <3>1. cli = "open" /\ UNCHANGED semVars
      BY <2>6 DEF krlsched_select_thread, SelectFromList, SelectCurrun,
                  SelectIdle, At
    <3> QED BY <2>1, <3>1 DEF semVars
  <2>7. CASE \/ save_to_new_context \/ krlsched_chkneed_pmptsched
             \/ krlcpuidle_main \/ (\E ok \in BOOLEAN : krlthread_execvl(ok))
             \/ hal_fault_allocator \/ krlsched_exit \/ SysRead \/ SysExit
             \/ (\E n \in Threads : krlnew_thread(n)) \/ systick_handle
    <3>1. cli = "open" /\ UNCHANGED semVars
      BY <2>7 DEF save_to_new_context, krlsched_chkneed_pmptsched,
                  krlcpuidle_main, krlthread_execvl, hal_fault_allocator,
                  krlsched_exit, SysRead, SysExit, krlnew_thread,
                  systick_handle, At, Interruptible
    <3> QED BY <2>1, <3>1 DEF semVars
  <2>8. CASE hal_sysdie \/ UNCHANGED vars
    <3>1. cli = "open" /\ UNCHANGED semVars
      BY <2>8 DEF hal_sysdie, vars
    <3> QED BY <2>1, <3>1 DEF semVars
  <2> QED BY <2>2, <2>3, <2>4, <2>5, <2>6, <2>7, <2>8 DEF Next, KernelStep
<1> QED BY <1>1, <1>2, TypeCorrect, PTL DEF Spec

\* krlsched_up never finds wl_tdnr at zero with a thread to wake, even when a
\* stale switch made a thread join the wait list twice.
THEOREM WakeupNeverDiesCorrect == Spec => []WakeupNeverDies
<1>1. Init => WakeupNeverDies
  <2> SUFFICES ASSUME Init PROVE WakeupNeverDies
    OBVIOUS
  <2>1. wl_tdnr = 0 /\ wl_list = << >> /\ cli = "open"
    BY DEF Init
  <2> QED BY <2>1 DEF WakeupNeverDies
<1>2. TypeOK /\ Placement /\ WakeupNeverDies /\ [Next]_vars => WakeupNeverDies'
  <2> SUFFICES ASSUME TypeOK, Placement, WakeupNeverDies, [Next]_vars
               PROVE  WakeupNeverDies'
    OBVIOUS
  <2>1. wl_list \in Seq(Threads) /\ wl_tdnr \in Nat
    BY DEF TypeOK
  <2>0. Len(wl_list) \in Nat /\ wl_tdnr \in Nat /\ wl_tdnr >= Len(wl_list)
    BY <2>1, LenProperties DEF WakeupNeverDies
  <2>2. IsInjective(wl_list) /\ cli # "krlsched_up err"
    BY DEF Placement, WaitListOK, WakeupNeverDies
  <2>3. ASSUME UNCHANGED <<wl_list, wl_tdnr>>, cli' # "krlsched_up err"
        PROVE  WakeupNeverDies'
    BY <2>0, <2>3 DEF WakeupNeverDies
  <2> DEFINE del == list_del(wl_list, sda_currtd)
  <2>4. /\ del \in Seq(Threads) /\ IsInjective(del)
        /\ Len(del) \in {Len(wl_list), Len(wl_list) - 1}
    BY <2>1, <2>2, ListDelRange
  <2> HIDE DEF del
  <2>41. Len(del) \in Nat /\ wl_tdnr >= Len(del)
    <3>1. Len(del) \in Nat
      BY <2>4, LenProperties
    <3>2. Len(del) = Len(wl_list) \/ Len(del) = Len(wl_list) - 1
      BY <2>4
    <3> QED BY <2>0, <3>1, <3>2
  <2>5. CASE krlsched_wait
    <3>1. /\ wl_list' = list_add(sda_currtd, del)
          /\ wl_tdnr' = wl_tdnr + 1
          /\ cli' = cli
          /\ stk[sda_currtd] # << >>
          /\ Last(stk[sda_currtd]).pc = "krlsem_down"
      BY <2>5 DEF krlsched_wait, krlwlst_add_thread, At, del
    <3>2. sda_currtd \in Threads
      BY <3>1, ProgramFrame
    <3>3. Len(wl_list') = Len(del) + 1
      BY <2>4, <3>1, <3>2, ListAddRange
    <3>4. wl_tdnr' >= Len(wl_list')
      <4>1. wl_tdnr' = wl_tdnr + 1
        BY <3>1
      <4> QED BY <2>0, <2>41, <3>3, <4>1
    <3> QED BY <2>2, <3>1, <3>4 DEF WakeupNeverDies
  <2>6. CASE krlschdclass_del_thread_addexit
    <3>1. wl_list' = del /\ wl_tdnr' = wl_tdnr /\ cli' = cli
      BY <2>6 DEF krlschdclass_del_thread_addexit, del
    <3>2. wl_tdnr' >= Len(wl_list')
      BY <2>41, <3>1
    <3> QED BY <2>2, <3>1, <3>2 DEF WakeupNeverDies
  <2>7. CASE krlsched_up
    <3>1. wl_list # << >>
      BY <2>7 DEF krlsched_up
    <3>2. Len(Tail(wl_list)) \in Nat
          /\ Len(Tail(wl_list)) = Len(wl_list) - 1
      BY <2>1, <3>1, HeadTailProperties, LenProperties
    <3>3. ~ (wl_tdnr < 1)
      BY <2>0, <3>2
    <3>4. wl_list' = Tail(wl_list) /\ wl_tdnr' = wl_tdnr - 1 /\ cli' = cli
      BY <2>7, <3>3 DEF krlsched_up
    <3>5. wl_tdnr' >= Len(wl_list')
      <4>1. wl_list' = Tail(wl_list) /\ wl_tdnr' = wl_tdnr - 1
        BY <3>4
      <4> QED BY <2>0, <3>2, <4>1
    <3> QED BY <2>2, <3>4, <3>5 DEF WakeupNeverDies
  <2>8. CASE krlsched_wait_err \/ uart_handle \/ krlsem_up_end
             \/ krlsem_down_take
    BY <2>2, <2>3, <2>8 DEF krlsched_wait_err, uart_handle, krlsem_up_end,
                            krlsem_down_take, semVars
  <2>9. CASE krlsched_select_thread
    <3>1. UNCHANGED <<semVars, cli>>
      BY <2>9 DEF krlsched_select_thread, SelectFromList, SelectCurrun,
                  SelectIdle
    <3> QED BY <2>2, <2>3, <3>1 DEF semVars
  <2>10. CASE \/ save_to_new_context \/ krlsched_chkneed_pmptsched
              \/ krlcpuidle_main \/ (\E ok \in BOOLEAN : krlthread_execvl(ok))
              \/ hal_fault_allocator \/ krlsched_exit \/ SysRead \/ SysExit
              \/ (\E n \in Threads : krlnew_thread(n)) \/ systick_handle
              \/ hal_sysdie \/ UNCHANGED vars
    <3>1. UNCHANGED <<semVars, cli>>
      BY <2>10 DEF save_to_new_context, krlsched_chkneed_pmptsched,
                   krlcpuidle_main, krlthread_execvl, hal_fault_allocator,
                   krlsched_exit, SysRead, SysExit, krlnew_thread,
                   systick_handle, hal_sysdie, vars
    <3> QED BY <2>2, <2>3, <3>1 DEF semVars
  <2> QED BY <2>5, <2>6, <2>7, <2>8, <2>9, <2>10 DEF Next, KernelStep
<1> QED BY <1>1, <1>2, TypeCorrect, PlacementCorrect, PTL DEF Spec

-----------------------------------------------------------------------------
(* The counters.  A thread counts itself out of tdl_nr when it waits or    *)
(* exits, so the counts are right as long as only threads that are counted *)
(* get that far.                                                           *)


\* The frames that only select and switch threads.
SchedPcs ==
    {"krlcpuidle_main", "chkneed_pmptsched", "krlschedul",
     "save_to_new_context"}

\* The thread of stack s is on its way to a switch: whatever returns, it is
\* a scheduling frame that goes on.
Leaving(s) ==
    \E i \in 1 .. Len(s) :
        /\ s[i].pc \in {"krlschedul", "save_to_new_context"}
        /\ \A j \in i .. Len(s) : s[j].pc \in SchedPcs

\* As long as no switch was stale, the thread on the CPU is runnable, or it
\* has given the CPU up and goes nowhere but to the switch.
CurrentOK ==
    ~ stale =>
      \/ sda_currtd = Idle
      \/ Ready(sda_currtd)
      \/ Leaving(stk[sda_currtd])

\* Interrupts during the way to a switch come back to it.
LEMMA LeavingMoves ==
    ASSUME NEW F, NEW s \in Seq(F)
    PROVE  /\ Leaving(s) => s # << >> /\ Last(s).pc \in SchedPcs
           /\ \A f \in F : f.pc \in SchedPcs /\ Leaving(s) => Leaving(Append(s, f))
           /\ \A f \in F : f.pc \in {"krlschedul", "save_to_new_context"} =>
                Leaving(Append(s, f))
           /\ Leaving(s) /\ Last(s).pc = "chkneed_pmptsched" => Leaving(Front(s))
<1>1. Len(s) \in Nat /\ (s = << >> <=> Len(s) = 0)
  BY LenProperties, EmptySeq
<1>2. ASSUME Leaving(s) PROVE s # << >> /\ Last(s).pc \in SchedPcs
  <2>1. PICK i \in 1 .. Len(s) : \A j \in i .. Len(s) : s[j].pc \in SchedPcs
    BY <1>2 DEF Leaving
  <2>2. Len(s) \in i .. Len(s) /\ Len(s) # 0
    BY <1>1, <2>1
  <2> QED BY <1>1, <2>1, <2>2 DEF Last
<1>3. ASSUME NEW f \in F
      PROVE  /\ Append(s, f) \in Seq(F) /\ Len(Append(s, f)) = Len(s) + 1
             /\ Append(s, f)[Len(s) + 1] = f
             /\ \A j \in 1 .. Len(s) : Append(s, f)[j] = s[j]
  BY AppendProperties
<1>4. ASSUME NEW f \in F, f.pc \in SchedPcs, Leaving(s)
      PROVE  Leaving(Append(s, f))
  <2> DEFINE r == Append(s, f)
  <2>1. PICK i \in 1 .. Len(s) :
           /\ s[i].pc \in {"krlschedul", "save_to_new_context"}
           /\ \A j \in i .. Len(s) : s[j].pc \in SchedPcs
    BY <1>4 DEF Leaving
  <2>2. /\ Len(r) = Len(s) + 1 /\ r[Len(s) + 1] = f
        /\ \A j \in 1 .. Len(s) : r[j] = s[j]
    BY <1>3
  <2> HIDE DEF r
  <2>3. ASSUME NEW j \in i .. Len(r) PROVE r[j].pc \in SchedPcs
    <3>1. CASE j = Len(s) + 1
      BY <3>1, <2>2, <1>4
    <3>2. CASE j # Len(s) + 1
      <4>1. j \in i .. Len(s) /\ j \in 1 .. Len(s)
        BY <3>2, <2>1, <2>2, <1>1
      <4> QED BY <4>1, <2>1, <2>2
    <3> QED BY <3>1, <3>2
  <2>4. i \in 1 .. Len(r) /\ r[i] = s[i]
    BY <2>1, <2>2, <1>1
  <2> QED BY <2>1, <2>3, <2>4 DEF Leaving, r
<1>5. ASSUME NEW f \in F, f.pc \in {"krlschedul", "save_to_new_context"}
      PROVE  Leaving(Append(s, f))
  <2> DEFINE r == Append(s, f)
  <2>1. Len(r) = Len(s) + 1 /\ r[Len(s) + 1] = f
    BY <1>3
  <2> HIDE DEF r
  <2>2. Len(r) \in 1 .. Len(r) /\ r[Len(r)] = f
    BY <1>1, <2>1
  <2>3. \A j \in Len(r) .. Len(r) : r[j].pc \in SchedPcs
    BY <1>1, <2>1, <2>2, <1>5 DEF SchedPcs
  <2> QED BY <2>2, <2>3, <1>5 DEF Leaving, r
<1>6. ASSUME Leaving(s), Last(s).pc = "chkneed_pmptsched"
      PROVE  Leaving(Front(s))
  <2> DEFINE r == Front(s)
  <2>1. PICK i \in 1 .. Len(s) :
           /\ s[i].pc \in {"krlschedul", "save_to_new_context"}
           /\ \A j \in i .. Len(s) : s[j].pc \in SchedPcs
    BY <1>6 DEF Leaving
  <2>2. Len(r) = Len(s) - 1 /\ \A j \in 1 .. Len(s) - 1 : r[j] = s[j]
    BY <1>1, <2>1 DEF Front
  <2> HIDE DEF r
  <2>3. i # Len(s)
    BY <1>6, <2>1 DEF Last
  <2>4. i \in 1 .. Len(r) /\ r[i] = s[i]
    BY <2>1, <2>2, <2>3, <1>1
  <2>5. \A j \in i .. Len(r) : j \in i .. Len(s) /\ r[j] = s[j]
    BY <2>1, <2>2, <2>3, <1>1
  <2> QED BY <2>1, <2>4, <2>5 DEF Leaving, r
<1> QED BY <1>2, <1>4, <1>5, <1>6

\* CurrentOK is kept by a step that leaves the current thread where it was.
LEMMA CurrentKept ==
    ASSUME CurrentOK, sda_currtd \in Anyone,
           sda_currtd' = sda_currtd, stale' = stale,
           sda_currtd \in Threads /\ Ready(sda_currtd) => Ready(sda_currtd)',
           Leaving(stk[sda_currtd]) => Leaving(stk'[sda_currtd])
    PROVE  CurrentOK'
BY DEF CurrentOK, Anyone

\* Every step keeps CurrentOK: a thread waits or exits only while it is
\* runnable, and a switch that is not stale goes to one that is.
LEMMA CurrentStep ==
    ASSUME TypeOK, Placement, CurrentOK, [Next]_vars
    PROVE  CurrentOK'
<1> DEFINE F == UserFrames \cup SchedFrames
           s == stk[sda_currtd]
<1>1. /\ sda_currtd \in Anyone /\ s \in Seq(F)
      /\ stk \in [Anyone -> Seq(F)]
      /\ td_stus \in [Threads -> {"NONE", "NEW", "RUN", "WAIT", "EXIT"}]
  BY DEF TypeOK, StackType
<1>2. \A r : [stk EXCEPT ![sda_currtd] = r][sda_currtd] = r
  BY <1>1
<1>3. s # << >> => Front(s) \in Seq(F)
  BY <1>1, FrontType
<1>4. \A t \in Anyone : /\ Frame("save_to_new_context", t) \in F
                        /\ Frame("save_to_new_context", t).pc = "save_to_new_context"
  BY FrameTypes DEF Frame
<1>5. /\ Frame("krlschedul", NULL) \in F /\ Frame("krlschedul", NULL).pc = "krlschedul"
      /\ Frame("chkneed_pmptsched", NULL) \in F
      /\ Frame("chkneed_pmptsched", NULL).pc = "chkneed_pmptsched"
  BY FrameTypes DEF Frame
<1> HIDE DEF F
<1>6. ASSUME s # << >>, NEW t \in Anyone,
             stk' = [stk EXCEPT ![sda_currtd] =
                       Append(Front(@), Frame("save_to_new_context", t))]
      PROVE  Leaving(stk'[sda_currtd])
  BY <1>6, <1>2, <1>3, <1>4, LeavingMoves
<1>7. ASSUME s # << >>,
             stk' = [stk EXCEPT ![sda_currtd] =
                       Append(Front(@), Frame("krlschedul", NULL))]
      PROVE  Leaving(stk'[sda_currtd])
  BY <1>7, <1>2, <1>3, <1>5, LeavingMoves
<1>8. ASSUME stk' = [stk EXCEPT ![sda_currtd] =
                       Append(@, Frame("krlschedul", NULL))]
      PROVE  Leaving(stk'[sda_currtd])
  BY <1>8, <1>1, <1>2, <1>5, LeavingMoves
<1>9. ASSUME stk' = [stk EXCEPT ![sda_currtd] =
                       Append(@, Frame("chkneed_pmptsched", NULL))],
             Leaving(s)
      PROVE  Leaving(stk'[sda_currtd])
  BY <1>9, <1>1, <1>2, <1>5, LeavingMoves DEF SchedPcs
<1>10. Leaving(s) => Last(s).pc \in SchedPcs
  BY <1>1, LeavingMoves
<1>11. CASE krlsched_select_thread
  <2>1. PICK t : /\ At("krlschedul")
                 /\ stk' = [stk EXCEPT ![sda_currtd] =
                              Append(Front(@), Frame("save_to_new_context", t))]
                 /\ \/ t = Idle
                    \/ \E p \in Prios : t = tdl_curruntd[p] /\ t # NULL
                    \/ \E p \in Prios : \E i \in DOMAIN tdl_lsth[p] : t = tdl_lsth[p][i]
    BY <1>11 DEF krlsched_select_thread, SelectFromList, SelectCurrun,
                 SelectIdle, GoTo
  <2>2. UNCHANGED <<td_stus, sda_currtd, stale>>
    BY <1>11 DEF krlsched_select_thread, SelectFromList, SelectCurrun,
                 SelectIdle
  <2>3. t \in Anyone
    <3>1. /\ tdl_lsth \in [Prios -> Seq(Threads)]
          /\ tdl_curruntd \in [Prios -> Threads \cup {NULL}]
      BY DEF TypeOK
    <3>2. CASE \E p \in Prios : t = tdl_curruntd[p] /\ t # NULL
      BY ONLY <3>1, <3>2 DEF Anyone
    <3>3. CASE \E p \in Prios : \E i \in DOMAIN tdl_lsth[p] : t = tdl_lsth[p][i]
      <4>1. PICK p \in Prios : \E i \in DOMAIN tdl_lsth[p] : t = tdl_lsth[p][i]
        BY <3>3
      <4>2. tdl_lsth[p] \in Seq(Threads)
        BY <3>1
      <4> QED BY ONLY <4>1, <4>2 DEF Anyone
    <3> QED BY <2>1, <3>2, <3>3 DEF Anyone
  <2>4. s # << >>
    BY <2>1 DEF At
  <2> QED BY <1>1, <1>6, <2>1, <2>2, <2>3, <2>4, CurrentKept DEF Ready
<1>12. CASE save_to_new_context
  <2> DEFINE next == Arg
  <2>1. /\ sda_currtd' = next
        /\ stale' = (stale \/ ~ StillSelected(next))
        /\ td_stus' = [t \in Threads |->
                         IF t = next /\ td_stus[t] = "NEW"
                           THEN "RUN" ELSE td_stus[t]]
        /\ At("save_to_new_context")
    BY <1>12 DEF save_to_new_context
  <2>2. next \in Anyone
    <3>1. Last(s) \in F /\ Last(s).pc = "save_to_new_context"
      BY <2>1, <1>1, FrontType DEF At
    <3> QED BY <3>1 DEF F, UserFrames, SchedFrames, Arg
  <2> HIDE DEF next
  <2>3. ASSUME ~ stale', next # Idle PROVE td_stus'[next] \in {"RUN", "NEW"}
    <3>1. next \in Threads /\ tdl_curruntd[td_priority[next]] = next
      BY <2>1, <2>2, <2>3 DEF StillSelected, Anyone
    <3>2. td_priority[next] \in Prios /\ next # NULL
      BY <3>1, SchedAssumption
    <3>3. td_stus[next] \in {"RUN", "NEW"}
      BY <3>1, <3>2, RunListsFacts
    <3> QED BY <2>1, <3>1, <3>3
  <2> QED BY <2>1, <2>3 DEF CurrentOK, Ready
<1>13. CASE krlsched_wait
  <2>1. /\ stk' = [stk EXCEPT ![sda_currtd] = Append(@, Frame("krlschedul", NULL))]
        /\ sda_currtd' = sda_currtd
    BY <1>13 DEF krlsched_wait, Call
  <2> QED BY <1>8, <2>1 DEF CurrentOK
<1>14. CASE krlschdclass_del_thread_addexit
  <2>1. /\ stk' = [stk EXCEPT ![sda_currtd] =
                     Append(Front(@), Frame("krlschedul", NULL))]
        /\ sda_currtd' = sda_currtd /\ s # << >>
    BY <1>14 DEF krlschdclass_del_thread_addexit, GoTo, At
  <2> QED BY <1>7, <2>1 DEF CurrentOK
<1>15. CASE krlsched_up
  <2>1. /\ UNCHANGED <<stk, sda_currtd, stale>>
        /\ td_stus' = td_stus \/ td_stus' = [td_stus EXCEPT ![Head(wl_list)] = "RUN"]
    BY <1>15 DEF krlsched_up
  <2>2. sda_currtd \in Threads /\ Ready(sda_currtd) => Ready(sda_currtd)'
    BY <1>1, <2>1 DEF Ready
  <2> QED BY <1>1, <2>1, <2>2, CurrentKept
<1>16. CASE \E n \in Threads : krlnew_thread(n)
  <2>1. PICK n \in Threads : krlnew_thread(n)
    BY <1>16
  <2>2. /\ UNCHANGED <<sda_currtd, stale>> /\ Last(s).pc = "user"
        /\ td_stus' = [td_stus EXCEPT ![n] = "NEW"]
    BY <2>1 DEF krlnew_thread, At
  <2>3. sda_currtd \in Threads /\ Ready(sda_currtd) => Ready(sda_currtd)'
    BY <1>1, <2>2 DEF Ready
  <2>4. ~ Leaving(s)
    BY <1>10, <2>2 DEF SchedPcs
  <2> QED BY <1>1, <2>2, <2>3, <2>4, CurrentKept
<1>17. CASE \/ krlsem_down_take \/ krlsched_exit \/ hal_fault_allocator
            \/ SysRead \/ SysExit \/ \E ok \in BOOLEAN : krlthread_execvl(ok)
  <2>1. /\ UNCHANGED <<td_stus, sda_currtd, stale>>
        /\ Last(s).pc \in {"krlsem_down", "krlsched_exit", "user", "krlthread_execvl"}
    BY <1>17 DEF krlsem_down_take, krlsched_exit, hal_fault_allocator,
                 SysRead, SysExit, krlthread_execvl, At
  <2>2. ~ Leaving(s)
    BY <1>10, <2>1 DEF SchedPcs
  <2> QED BY <1>1, <2>1, <2>2, CurrentKept DEF Ready
<1>18. CASE uart_handle \/ systick_handle \/ krlcpuidle_main
  <2>1. /\ UNCHANGED <<td_stus, sda_currtd, stale>>
        /\ \/ stk' = [stk EXCEPT ![sda_currtd] = Append(@, Frame("krlschedul", NULL))]
           \/ stk' = [stk EXCEPT ![sda_currtd] =
                        Append(@, Frame("chkneed_pmptsched", NULL))]
    BY <1>18 DEF uart_handle, systick_handle, krlcpuidle_main, Call
  <2> QED BY <1>1, <1>8, <1>9, <2>1, CurrentKept DEF Ready
<1>19. CASE krlsched_chkneed_pmptsched
  <2>1. /\ UNCHANGED <<td_stus, sda_currtd, stale>>
        /\ s # << >> /\ Last(s).pc = "chkneed_pmptsched"
        /\ \/ stk' = [stk EXCEPT ![sda_currtd] =
                        Append(Front(@), Frame("krlschedul", NULL))]
           \/ stk' = [stk EXCEPT ![sda_currtd] = Front(@)]
    BY <1>19 DEF krlsched_chkneed_pmptsched, At, Return, GoTo
  <2>2. Leaving(s) => Leaving(stk'[sda_currtd])
    BY <1>1, <1>2, <1>7, <2>1, LeavingMoves
  <2> QED BY <1>1, <2>1, <2>2, CurrentKept DEF Ready
<1>20. CASE krlsched_wait_err \/ krlsem_up_end \/ hal_sysdie \/ UNCHANGED vars
  <2>1. UNCHANGED <<td_stus, stk, sda_currtd, stale>>
    BY <1>20 DEF krlsched_wait_err, krlsem_up_end, hal_sysdie, vars
  <2> QED BY <1>1, <2>1, CurrentKept DEF Ready
<1> QED BY <1>11, <1>12, <1>13, <1>14, <1>15, <1>16, <1>17, <1>18, <1>19, <1>20
     DEF Next, KernelStep

\* The number of threads of a priority with run list l and current thread c.
Runners(l, c) == Len(l) + (IF c = NULL THEN 0 ELSE 1)

RunsExact ==
    \A p \in Prios : tdl_nr[p] = Runners(tdl_lsth[p], tdl_curruntd[p])

Live == {t \in Threads : td_stus[t] \notin {"NONE", "EXIT"}}

\* A uint_t can count the threads of a priority.
LEMMA FewRunners ==
    ASSUME NEW l \in Seq(Threads), IsInjective(l),
           NEW c \in Threads \cup {NULL}, c \notin Range(l)
    PROVE  Runners(l, c) \in 0 .. UINT - 1
<1>1. ASSUME NEW r \in Seq(Threads), IsInjective(r)
      PROVE  Len(r) \in Nat /\ Len(r) < UINT
  <2>1. Len(r) \in Nat /\ r \in [1 .. Len(r) -> Threads]
    BY LenProperties
  <2> DEFINE D == 1 .. Len(r)
  <2>2. r \in Injection(D, Threads)
    BY <2>1, <1>1, InjectiveIndex DEF Injection, IsInjective
  <2>3. Cardinality(D) = Len(r)
    <3>1. 1 \in Int /\ Len(r) \in Int
      BY <2>1
    <3>2. Cardinality(1 .. Len(r)) = IF 1 > Len(r) THEN 0 ELSE Len(r) - 1 + 1
      BY ONLY <3>1, FS_Interval
    <3> QED BY <2>1, <3>2
  <2> HIDE DEF D
  <2>4. Cardinality(D) <= Cardinality(Threads)
    <3>1. IsFiniteSet(Threads)
      BY CountAssumption
    <3> QED BY ONLY <2>2, <3>1, FS_Injection
  <2>5. Cardinality(Threads) \in Nat
    BY FS_CardinalityType, CountAssumption
  <2> QED BY <2>1, <2>3, <2>4, <2>5, CountAssumption, SchedAssumption
<1>2. CASE c = NULL
  BY <1>1, <1>2, SchedAssumption DEF Runners
<1>3. CASE c # NULL
  <2>1. /\ Append(l, c) \in Seq(Threads) /\ IsInjective(Append(l, c))
        /\ Len(Append(l, c)) = Len(l) + 1
    BY <1>3, AppendRange
  <2>2. Len(l) + 1 < UINT /\ Len(l) \in Nat
    BY <1>1, <2>1
  <2> QED BY <1>3, <2>2, SchedAssumption DEF Runners
<1> QED BY <1>2, <1>3

\* Counting up and down without a wrap.
LEMMA WrapExact ==
    ASSUME NEW n \in 0 .. UINT - 1
    PROVE  /\ n + 1 < UINT => Inc(n) = n + 1
           /\ n >= 1 => Dec(n) = n - 1
BY SchedAssumption DEF Inc, Dec

\* A runnable thread that waits or exits was counted and is counted out.
LEMMA CountOut ==
    ASSUME TypeOK, Placement, RunsExact, NEW t \in Threads, Ready(t),
           tdl_lsth' = UnlinkFromRunLists(t),
           tdl_curruntd' = NotCurrun(t),
           tdl_nr' = [tdl_nr EXCEPT ![td_priority[t]] = Dec(@)]
    PROVE  RunsExact'
<1> DEFINE p == td_priority[t]
<1>1. /\ tdl_lsth \in [Prios -> Seq(Threads)]
      /\ tdl_curruntd \in [Prios -> Threads \cup {NULL}]
      /\ tdl_nr \in [Prios -> 0 .. UINT - 1]
      /\ p \in Prios /\ t # NULL
  BY SchedAssumption DEF TypeOK
<1>2. SUFFICES ASSUME NEW q \in Prios
               PROVE  tdl_nr'[q] = Runners(tdl_lsth'[q], tdl_curruntd'[q])
  BY DEF RunsExact
<1> DEFINE l == tdl_lsth[q]
           d == list_del(tdl_lsth[q], t)
<1>3. tdl_lsth'[q] = d
  BY DEF UnlinkFromRunLists
<1>4. tdl_curruntd'[q] = IF q = p /\ tdl_curruntd[q] = t THEN NULL ELSE tdl_curruntd[q]
  BY <1>1 DEF NotCurrun
<1>5. l \in Seq(Threads) /\ IsInjective(l) /\ Len(l) \in Nat
  BY <1>1, RunListsFacts, LenProperties
<1>6. /\ Len(d) = IF t \in Range(l) THEN Len(l) - 1 ELSE Len(l)
      /\ Len(d) \in Nat
  BY <1>5, ListDelRange, LenProperties
<1>7. tdl_nr[q] = Len(l) + (IF tdl_curruntd[q] = NULL THEN 0 ELSE 1)
  BY DEF RunsExact, Runners
<1>8. CASE q # p
  <2>1. t \notin Range(l)
    BY <1>8, RunListsFacts
  <2>2. tdl_nr'[q] = tdl_nr[q]
    BY <1>1, <1>8
  <2> QED BY <1>3, <1>4, <1>6, <1>7, <1>8, <2>1, <2>2 DEF Runners
<1>9. CASE q = p
  <2>1. tdl_nr'[q] = Dec(tdl_nr[q]) /\ tdl_nr[q] \in 0 .. UINT - 1
    BY <1>1, <1>9
  <2>2. tdl_nr[q] >= 1 => tdl_nr'[q] = tdl_nr[q] - 1
    BY <2>1, WrapExact
  <2>3. tdl_curruntd[q] = t \/ t \in Range(l)
    BY <1>9, RunListsFacts DEF Ready
  <2>4. t \in Range(l) => tdl_curruntd[q] # t
    BY RunListsFacts
  <2> HIDE DEF l, d, p
  <2>5. CASE tdl_curruntd[q] = t
    <3>1. /\ tdl_nr[q] = Len(l) + 1 /\ Len(d) = Len(l)
      BY <1>1, <1>6, <1>7, <2>4, <2>5
    <3>2. tdl_nr'[q] = Len(l)
      BY <1>5, <2>2, <3>1
    <3>3. tdl_curruntd'[q] = NULL
      BY <1>4, <1>9, <2>5
    <3> QED BY ONLY <1>3, <1>5, <3>1, <3>2, <3>3 DEF Runners
  <2>6. CASE tdl_curruntd[q] # t
    <3>1. Len(d) = Len(l) - 1
      BY <1>6, <2>3, <2>6
    <3>2. tdl_curruntd'[q] = tdl_curruntd[q]
      BY <1>4, <2>6
    <3>3. tdl_nr[q] >= 1
      BY ONLY <1>5, <1>6, <1>7, <3>1
    <3>4. tdl_nr'[q] = Len(d) + (IF tdl_curruntd[q] = NULL THEN 0 ELSE 1)
      <4>1. tdl_nr'[q] = tdl_nr[q] - 1
        BY <2>2, <3>3
      <4> QED BY ONLY <1>5, <1>7, <3>1, <4>1
    <3> QED BY <1>3, <3>2, <3>4 DEF Runners
  <2> QED BY <2>5, <2>6
<1> QED BY <1>8, <1>9

\* A thread that becomes runnable is counted in.
LEMMA CountIn ==
    ASSUME TypeOK, RunsExact, TypeOK', Placement', NEW p \in Prios, NEW l,
           Len(l) = Len(tdl_lsth[p]) + 1,
           tdl_lsth' = [tdl_lsth EXCEPT ![p] = l],
           tdl_curruntd' = tdl_curruntd,
           tdl_nr' = [tdl_nr EXCEPT ![p] = Inc(@)]
    PROVE  RunsExact'
<1>1. /\ tdl_lsth \in [Prios -> Seq(Threads)]
      /\ tdl_nr \in [Prios -> 0 .. UINT - 1]
  BY DEF TypeOK
<1>2. ASSUME NEW q \in Prios, q # p
      PROVE  tdl_nr'[q] = Runners(tdl_lsth'[q], tdl_curruntd'[q])
  BY <1>1, <1>2 DEF RunsExact
<1>3. /\ tdl_lsth'[p] \in Seq(Threads) /\ IsInjective(tdl_lsth'[p])
      /\ tdl_curruntd'[p] \in Threads \cup {NULL}
      /\ tdl_curruntd'[p] \notin Range(tdl_lsth'[p])
  BY DEF TypeOK, Placement, RunListsOK
<1>4. Runners(tdl_lsth'[p], tdl_curruntd'[p]) \in 0 .. UINT - 1
  BY ONLY <1>3, FewRunners
<1>5. /\ tdl_lsth'[p] = l /\ tdl_nr'[p] = Inc(tdl_nr[p])
      /\ tdl_curruntd'[p] = tdl_curruntd[p]
  BY <1>1
<1>6. Len(tdl_lsth[p]) \in Nat /\ UINT \in Nat
  BY <1>1, LenProperties, SchedAssumption
<1>7. /\ tdl_nr[p] \in 0 .. UINT - 1
      /\ tdl_nr[p] = Len(tdl_lsth[p]) + (IF tdl_curruntd[p] = NULL THEN 0 ELSE 1)
  BY <1>1 DEF RunsExact, Runners
<1>8. Runners(tdl_lsth'[p], tdl_curruntd'[p]) = tdl_nr[p] + 1
  <2>1. CASE tdl_curruntd[p] = NULL
    <3>1. Runners(tdl_lsth'[p], tdl_curruntd'[p]) = (Len(tdl_lsth[p]) + 1) + 0
      BY ONLY <1>5, <2>1, Len(l) = Len(tdl_lsth[p]) + 1 DEF Runners
    <3>2. tdl_nr[p] = Len(tdl_lsth[p]) + 0
      BY <1>7, <2>1
    <3> QED BY ONLY <1>6, <3>1, <3>2
  <2>2. CASE tdl_curruntd[p] # NULL
    <3>1. Runners(tdl_lsth'[p], tdl_curruntd'[p]) = (Len(tdl_lsth[p]) + 1) + 1
      BY ONLY <1>5, <2>2, Len(l) = Len(tdl_lsth[p]) + 1 DEF Runners
    <3>2. tdl_nr[p] = Len(tdl_lsth[p]) + 1
      BY <1>7, <2>2
    <3> QED BY ONLY <1>6, <3>1, <3>2
  <2> QED BY <2>1, <2>2
<1>9. tdl_nr'[p] = tdl_nr[p] + 1
  <2>1. tdl_nr[p] + 1 < UINT
    <3>1. tdl_nr[p] + 1 \in 0 .. UINT - 1
      BY ONLY <1>4, <1>8
    <3>2. tdl_nr[p] \in 0 .. UINT - 1
      BY <1>7
    <3> QED BY ONLY <3>1, <3>2, <1>6
  <2> QED BY ONLY <1>5, <1>7, <2>1, WrapExact
<1> QED BY <1>2, <1>8, <1>9 DEF RunsExact

\* A uint_t can count the threads.
LEMMA LiveCount ==
    ASSUME NEW L \in SUBSET Threads
    PROVE  IsFiniteSet(L) /\ Cardinality(L) \in 0 .. UINT - 1
<1>1. IsFiniteSet(L) /\ Cardinality(L) <= Cardinality(Threads)
  BY FS_Subset, CountAssumption
<1>2. Cardinality(L) \in Nat /\ Cardinality(Threads) \in Nat
  BY <1>1, FS_CardinalityType, CountAssumption
<1> QED BY <1>1, <1>2, CountAssumption, SchedAssumption

\* CountsExact by its parts.
LEMMA CountsParts ==
    CountsExact <=>
      (~ stale => RunsExact /\ wl_tdnr = Len(wl_list) /\ sda_threadnr = Cardinality(Live))
BY DEF CountsExact, RunsExact, Runners, Live

\* krlschedul takes a thread off its run list and puts another one back.
LEMMA SelectCount ==
    ASSUME TypeOK, RunsExact, NEW p \in Prios, NEW i \in DOMAIN tdl_lsth[p],
           SelectFromList(p, i)
    PROVE  RunsExact'
<1> DEFINE l == tdl_lsth[p]
           c == tdl_curruntd[p]
           r == RemoveAt(l, i)
<1>1. /\ tdl_lsth \in [Prios -> Seq(Threads)]
      /\ tdl_curruntd \in [Prios -> Threads \cup {NULL}]
  BY DEF TypeOK
<1>2. l \in Seq(Threads) /\ Len(l) \in Nat /\ i \in 1 .. Len(l) /\ l[i] \in Threads
  BY <1>1, LenProperties
<1>3. r \in Seq(Threads) /\ Len(r) = Len(l) - 1
  BY <1>2, RemoveAtIndex
<1>4. c # NULL => Len(Append(r, c)) = Len(l)
  <2>1. c # NULL => c \in Threads
    BY <1>1
  <2>2. c # NULL => Len(Append(r, c)) = Len(r) + 1
    BY <1>3, <2>1, AppendProperties
  <2> QED BY ONLY <1>2, <1>3, <2>2
<1>5. /\ tdl_lsth' = [tdl_lsth EXCEPT ![p] = IF c # NULL THEN Append(r, c) ELSE r]
      /\ tdl_curruntd' = [tdl_curruntd EXCEPT ![p] = l[i]]
      /\ tdl_nr' = tdl_nr
  BY DEF SelectFromList
<1>6. l[i] # NULL
  BY <1>2, SchedAssumption
<1>7. tdl_nr[p] = Len(l) + (IF c = NULL THEN 0 ELSE 1)
  BY DEF RunsExact, Runners
<1> HIDE DEF l, c, r
<1>8. /\ tdl_lsth'[p] = (IF c # NULL THEN Append(r, c) ELSE r)
      /\ tdl_curruntd'[p] = l[i]
      /\ \A q \in Prios : q # p => /\ tdl_lsth'[q] = tdl_lsth[q]
                                   /\ tdl_curruntd'[q] = tdl_curruntd[q]
  BY <1>1, <1>5
<1>9. tdl_nr'[p] = Runners(tdl_lsth'[p], tdl_curruntd'[p])
  <2>1. Runners(tdl_lsth'[p], tdl_curruntd'[p]) = Len(tdl_lsth'[p]) + 1
    BY <1>6, <1>8 DEF Runners
  <2>2. CASE c = NULL
    <3>1. tdl_lsth'[p] = r /\ tdl_nr[p] = Len(l) + 0
      BY ONLY <1>7, <1>8, <2>2
    <3>2. QED  BY ONLY <1>2, <1>3, <1>5, <2>1, <3>1
  <2>3. CASE c # NULL
    <3>1. tdl_lsth'[p] = Append(r, c) /\ tdl_nr[p] = Len(l) + 1
      BY ONLY <1>7, <1>8, <2>3
    <3>2. QED  BY ONLY <1>4, <1>5, <2>1, <2>3, <3>1
  <2> QED BY <2>2, <2>3
<1> QED BY <1>5, <1>8, <1>9 DEF RunsExact

\* Every step keeps the counts as long as no switch was stale.
LEMMA CountsStep ==
    ASSUME TypeOK, Placement, CurrentOK, CountsExact, [Next]_vars,
           TypeOK', Placement'
    PROVE  CountsExact'
<1> DEFINE Exact == RunsExact /\ wl_tdnr = Len(wl_list) /\ sda_threadnr = Cardinality(Live)
<1>0. SUFFICES ASSUME ~ stale' PROVE Exact'
  <2>1. (CountsExact <=> (~ stale => Exact))'
    BY CountsParts, PTL
  <2> QED BY <2>1
<1>1. ~ stale
  <2>1. \/ stale' = stale
        \/ stale' = (stale \/ ~ StillSelected(Arg))
    BY DEF Next, KernelStep, krlsched_select_thread, SelectFromList,
           SelectCurrun, SelectIdle, save_to_new_context, krlsem_down_take,
           krlsched_wait, krlsched_wait_err, krlsched_up, krlsem_up_end,
           krlsched_chkneed_pmptsched, krlcpuidle_main, krlthread_execvl,
           hal_fault_allocator, krlsched_exit,
           krlschdclass_del_thread_addexit, SysRead, SysExit, krlnew_thread,
           uart_handle, systick_handle, hal_sysdie, vars
  <2> QED BY <1>0, <2>1
<1>2. /\ RunsExact /\ wl_tdnr = Len(wl_list) /\ sda_threadnr = Cardinality(Live)
  BY <1>1, CountsParts
<1>3. /\ td_stus \in [Threads -> {"NONE", "NEW", "RUN", "WAIT", "EXIT"}]
      /\ wl_list \in Seq(Threads) /\ Len(wl_list) \in Nat
      /\ IsInjective(wl_list)
      /\ \A t \in Threads : t \in Range(wl_list) <=> td_stus[t] = "WAIT"
      /\ sda_currtd \in Anyone /\ stk[sda_currtd] \in Seq(UserFrames \cup SchedFrames)
  BY LenProperties DEF TypeOK, Placement, WaitListOK, StackType
<1>4. Live \in SUBSET Threads /\ sda_threadnr \in 0 .. UINT - 1
  BY DEF Live, TypeOK
<1>5. ASSUME stk[sda_currtd] # << >>,
             Last(stk[sda_currtd]).pc \in {"krlsem_down", "del_thread_addexit"}
      PROVE  sda_currtd \in Threads /\ Ready(sda_currtd)
  <2>1. sda_currtd \in Threads
    BY <1>5, ProgramFrame
  <2>2. ~ Leaving(stk[sda_currtd])
    BY <1>3, <1>5, LeavingMoves DEF SchedPcs
  <2> QED BY <1>1, <2>1, <2>2, SchedAssumption DEF CurrentOK
<1>6. ASSUME UNCHANGED <<tdl_lsth, tdl_curruntd, tdl_nr>> PROVE RunsExact'
  BY <1>2, <1>6 DEF RunsExact
<1>7. ASSUME td_stus' = td_stus PROVE Live' = Live
  BY <1>7 DEF Live
<1>11. CASE krlsched_wait
  <2> DEFINE t == sda_currtd
  <2>1. /\ td_stus' = [td_stus EXCEPT ![t] = "WAIT"]
        /\ tdl_lsth' = UnlinkFromRunLists(t)
        /\ tdl_curruntd' = NotCurrun(t)
        /\ tdl_nr' = [tdl_nr EXCEPT ![td_priority[t]] = Dec(@)]
        /\ wl_list' = list_add(t, list_del(wl_list, t))
        /\ wl_tdnr' = wl_tdnr + 1
        /\ sda_threadnr' = sda_threadnr
        /\ stk[t] # << >> /\ Last(stk[t]).pc = "krlsem_down"
    BY <1>11 DEF krlsched_wait, krlwlst_add_thread, cntVars, At
  <2>2. t \in Threads /\ Ready(t)
    BY <1>5, <2>1
  <2>3. RunsExact'
    BY <1>2, <2>1, <2>2, CountOut
  <2>4. t \notin Range(wl_list)
    BY <1>3, <2>2 DEF Ready
  <2> DEFINE d == list_del(wl_list, t)
  <2>5. d \in Seq(Threads) /\ IsInjective(d) /\ Len(d) = Len(wl_list)
    BY <1>3, <2>4, ListDelRange
  <2> HIDE DEF d
  <2>6. Len(list_add(t, d)) = Len(d) + 1
    BY <2>2, <2>5, ListAddRange
  <2>7. wl_tdnr' = Len(wl_list')
    BY <1>2, <2>1, <2>5, <2>6 DEF d
  <2>8. Live' = Live
    BY <1>3, <2>1, <2>2 DEF Live, Ready
  <2> QED BY <1>2, <2>1, <2>3, <2>7, <2>8
<1>12. CASE krlschdclass_del_thread_addexit
  <2> DEFINE t == sda_currtd
  <2>1. /\ td_stus' = [td_stus EXCEPT ![t] = "EXIT"]
        /\ tdl_lsth' = UnlinkFromRunLists(t)
        /\ tdl_curruntd' = NotCurrun(t)
        /\ tdl_nr' = [tdl_nr EXCEPT ![td_priority[t]] = Dec(@)]
        /\ wl_list' = list_del(wl_list, t)
        /\ wl_tdnr' = wl_tdnr
        /\ sda_threadnr' = Dec(sda_threadnr)
        /\ stk[t] # << >> /\ Last(stk[t]).pc = "del_thread_addexit"
    BY <1>12 DEF krlschdclass_del_thread_addexit, At
  <2>2. t \in Threads /\ Ready(t)
    BY <1>5, <2>1
  <2>3. RunsExact'
    BY <1>2, <2>1, <2>2, CountOut
  <2>4. t \notin Range(wl_list)
    BY <1>3, <2>2 DEF Ready
  <2>5. wl_tdnr' = Len(wl_list')
    BY <1>2, <1>3, <2>1, <2>4, ListDelRange
  <2>6. Live' = Live \ {t} /\ t \in Live
    BY <1>3, <2>1, <2>2 DEF Live, Ready
  <2>7. IsFiniteSet(Live) /\ Cardinality(Live) \in Nat
    BY <1>4, LiveCount
  <2>8. Cardinality(Live') = Cardinality(Live) - 1
    BY <2>6, <2>7, FS_RemoveElement
  <2>9. Cardinality(Live') \in Nat
    BY <2>6, <2>7, FS_RemoveElement, FS_CardinalityType
  <2>10. sda_threadnr' = Cardinality(Live')
    <3>1. sda_threadnr >= 1
      BY <1>2, <2>7, <2>8, <2>9
    <3>2. Dec(sda_threadnr) = sda_threadnr - 1
      BY <1>4, <3>1, WrapExact
    <3> QED BY <1>2, <2>1, <2>8, <3>2
  <2> QED BY <2>3, <2>5, <2>10
<1>13. CASE krlsched_up
  <2> DEFINE t == Head(wl_list)
             p == td_priority[t]
  <2>1. wl_list # << >>
    BY <1>13 DEF krlsched_up
  <2>2. /\ t \in Threads /\ Len(Tail(wl_list)) = Len(wl_list) - 1
        /\ Len(Tail(wl_list)) \in Nat /\ t \in Range(wl_list)
    <3>1. /\ t \in Threads /\ Tail(wl_list) \in Seq(Threads)
          /\ Len(Tail(wl_list)) = Len(wl_list) - 1
      BY <1>3, <2>1, HeadTailProperties
    <3>2. t = wl_list[1] /\ 1 \in 1 .. Len(wl_list)
      BY <1>3, <2>1, EmptySeq
    <3> QED BY <1>3, <3>1, <3>2, LenProperties, RangeIndex
  <2>3. ~ (wl_tdnr < 1)
    BY <1>2, <1>3, <2>2
  <2>4. /\ wl_list' = Tail(wl_list) /\ wl_tdnr' = wl_tdnr - 1
        /\ td_stus' = [td_stus EXCEPT ![t] = "RUN"]
        /\ tdl_lsth' = [tdl_lsth EXCEPT ![p] = Append(@, t)]
        /\ tdl_nr' = [tdl_nr EXCEPT ![p] = Inc(@)]
        /\ tdl_curruntd' = tdl_curruntd /\ sda_threadnr' = sda_threadnr
    BY <1>13, <2>3 DEF krlsched_up, cntVars
  <2>5. p \in Prios /\ tdl_lsth[p] \in Seq(Threads)
    BY <2>2, SchedAssumption DEF TypeOK
  <2>6. Len(Append(tdl_lsth[p], t)) = Len(tdl_lsth[p]) + 1
    BY <2>2, <2>5, AppendProperties
  <2>7. td_stus[t] = "WAIT"
    BY <1>3, <2>2
  <2> HIDE DEF t, p
  <2>8. RunsExact'
    BY <1>2, <2>4, <2>5, <2>6, CountIn
  <2>9. Live' = Live
    BY <1>3, <2>2, <2>4, <2>7 DEF Live
  <2>10. wl_tdnr' = Len(wl_list')
    BY <1>2, <2>2, <2>4
  <2> QED BY <1>2, <2>4, <2>8, <2>9, <2>10
<1>14. CASE \E n \in Threads : krlnew_thread(n)
  <2>1. PICK n \in Threads : krlnew_thread(n)
    BY <1>14
  <2> DEFINE p == td_priority[n]
  <2>2. /\ wl_list' = wl_list /\ wl_tdnr' = wl_tdnr
        /\ td_stus[n] = "NONE"
        /\ td_stus' = [td_stus EXCEPT ![n] = "NEW"]
        /\ tdl_lsth' = [tdl_lsth EXCEPT ![p] = list_add(n, @)]
        /\ tdl_nr' = [tdl_nr EXCEPT ![p] = Inc(@)]
        /\ tdl_curruntd' = tdl_curruntd /\ sda_threadnr' = Inc(sda_threadnr)
    BY <2>1 DEF krlnew_thread, semVars
  <2>3. p \in Prios /\ tdl_lsth[p] \in Seq(Threads) /\ IsInjective(tdl_lsth[p])
    BY SchedAssumption DEF TypeOK, Placement, RunListsOK
  <2>4. Len(list_add(n, tdl_lsth[p])) = Len(tdl_lsth[p]) + 1
    BY <2>3, ListAddRange
  <2> HIDE DEF p
  <2>5. RunsExact'
    BY <1>2, <2>2, <2>3, <2>4, CountIn
  <2>6. Live' = Live \cup {n} /\ n \notin Live
    BY <1>3, <2>2 DEF Live
  <2>7. IsFiniteSet(Live) /\ Cardinality(Live) \in Nat
    BY <1>4, LiveCount
  <2>8. Cardinality(Live') = Cardinality(Live) + 1
    BY <2>6, <2>7, FS_AddElement
  <2>9. Cardinality(Live') \in 0 .. UINT - 1
    BY <1>4, <2>6, LiveCount
  <2>10. sda_threadnr' = Cardinality(Live')
    <3>1. sda_threadnr + 1 < UINT
      BY <1>2, <2>7, <2>8, <2>9, SchedAssumption
    <3> QED BY <1>2, <1>4, <2>2, <2>8, <3>1, WrapExact
  <2> QED BY <1>2, <2>2, <2>5, <2>10
<1>15. CASE \E p \in Prios : \E i \in DOMAIN tdl_lsth[p] : SelectFromList(p, i)
  <2>1. UNCHANGED <<td_stus, wl_list, wl_tdnr, sda_threadnr>>
    BY <1>15 DEF SelectFromList, semVars, cntVars
  <2>2. RunsExact'
    BY <1>2, <1>15, SelectCount
  <2> QED BY <1>2, <1>7, <2>1, <2>2
<1>16. CASE save_to_new_context
  <2>1. /\ UNCHANGED <<tdl_lsth, tdl_curruntd, tdl_nr, wl_list, wl_tdnr, sda_threadnr>>
        /\ td_stus' = [t \in Threads |->
                         IF t = Arg /\ td_stus[t] = "NEW"
                           THEN "RUN" ELSE td_stus[t]]
    BY <1>16 DEF save_to_new_context, runVars, semVars, cntVars
  <2>2. Live' = Live
    BY <1>3, <2>1 DEF Live
  <2> QED BY <1>2, <1>6, <2>1, <2>2
<1>17. CASE \/ (\E p \in Prios : SelectCurrun(p)) \/ SelectIdle
            \/ krlsem_down_take \/ krlsched_wait_err \/ krlsem_up_end
            \/ krlsched_chkneed_pmptsched \/ krlcpuidle_main
            \/ (\E ok \in BOOLEAN : krlthread_execvl(ok))
            \/ hal_fault_allocator \/ krlsched_exit \/ SysRead \/ SysExit
            \/ uart_handle \/ systick_handle \/ hal_sysdie \/ UNCHANGED vars
  <2>1. UNCHANGED <<td_stus, tdl_lsth, tdl_curruntd, tdl_nr, wl_list, wl_tdnr,
                    sda_threadnr>>
    BY <1>17 DEF SelectCurrun, SelectIdle, krlsem_down_take,
                 krlsched_wait_err, krlsem_up_end,
                 krlsched_chkneed_pmptsched, krlcpuidle_main,
                 krlthread_execvl, hal_fault_allocator, krlsched_exit,
                 SysRead, SysExit, uart_handle, systick_handle, hal_sysdie,
                 vars, runVars, semVars, cntVars
  <2> QED BY <1>2, <1>6, <1>7, <2>1
<1> QED BY <1>11, <1>12, <1>13, <1>14, <1>15, <1>16, <1>17
     DEF Next, KernelStep, krlsched_select_thread

\* As long as every switch goes to the thread that is still selected, tdl_nr
\* counts the runnable threads of each priority, wl_tdnr the waiting ones and
\* sda_threadnr those that did not exit: krlsched_wait and krlsched_exit count
\* out only threads that were counted in.
THEOREM CountsExactCorrect == Spec => []CountsExact
<1>1. Init => CurrentOK /\ CountsExact
  <2> SUFFICES ASSUME Init PROVE CurrentOK /\ CountsExact
    OBVIOUS
  <2>1. CurrentOK
    BY DEF Init, CurrentOK
  <2>2. PICK first \in Threads :
           /\ td_stus = [t \in Threads |-> IF t = first THEN "NEW" ELSE "NONE"]
           /\ tdl_lsth = [p \in Prios |->
                            IF p = td_priority[first] THEN <<first>> ELSE << >>]
           /\ tdl_curruntd = [p \in Prios |-> NULL]
           /\ tdl_nr = [p \in Prios |-> IF p = td_priority[first] THEN 1 % UINT ELSE 0]
           /\ sda_threadnr = 1 % UINT /\ wl_list = << >> /\ wl_tdnr = 0
    BY DEF Init
  <2>3. Live = {first}
    BY <2>2 DEF Live
  <2>4. Cardinality({first}) = 1
    BY FS_Singleton
  <2>5. 1 < UINT /\ UINT \in Nat
    <3>1. Cardinality({first}) \in 0 .. UINT - 1
      BY LiveCount
    <3> QED BY <2>4, <3>1, SchedAssumption
  <2>6. 1 % UINT = 1
    BY <2>5
  <2>7. RunsExact
    BY <2>2, <2>6 DEF RunsExact, Runners
  <2>8. wl_tdnr = Len(wl_list)
    BY <2>2
  <2> QED BY <2>1, <2>2, <2>3, <2>4, <2>6, <2>7, <2>8, CountsParts
<1>2. TypeOK /\ Placement /\ TypeOK' /\ Placement' /\ CurrentOK /\ CountsExact
        /\ [Next]_vars => CurrentOK' /\ CountsExact'
  BY CurrentStep, CountsStep
<1> QED BY <1>1, <1>2, TypeCorrect, PlacementCorrect, PTL DEF Spec
=============================================================================
