------------------------------- MODULE Kboard -------------------------------
(***************************************************************************)
(* The keyboard from the interrupt to the command line: the handler of the  *)
(* "uart" driver and its read (drivers/drvuart.c), the semaphore between    *)
(* them (kernel/krlsem.c) and the shell (apps/oneuser.c).                   *)
(*                                                                         *)
(* The handler runs with interrupts off and is one step.  uart_read runs in *)
(* a system call with interrupts on and copies kb_buff byte by byte         *)
(* (hal_memcpy), so the handler may run between two bytes.  A byte string   *)
(* is a sequence, the low byte of each u16_t first.                         *)
(*                                                                         *)
(* Threads that wait for the semaphore are in the set wait; that they run   *)
(* again when they are ready is what module KrlSched is about.              *)
(***************************************************************************)
EXTENDS Integers, Sequences

CONSTANTS
    Keys,       \* scan codes of the keys that are pressed, below 128
    Code,       \* keymap column 0: the code of a key
    Shell,      \* the shell's thread
    Others,     \* other threads that read the keyboard
    ReadLen,    \* the length each thread reads with
    SKB,        \* size of skb_buff
    EVENTS      \* bound: presses and releases

ENTER == 259       \* 0x103
BACKSPACE == 260   \* 0x104
NOCODE == 65535
UNINIT == -1       \* a byte of kb_buff that nobody wrote yet

Chars == 32 .. 127
Readers == {Shell} \cup Others

ASSUME KboardAssumption ==
    /\ Keys \subseteq 1 .. 127
    /\ Code \in [Keys -> Nat] /\ \A k \in Keys : Code[k] <= NOCODE
    /\ ReadLen \in [Readers -> 1 .. 8] /\ ReadLen[Shell] = 8
    /\ SKB \in Nat /\ SKB > 1

VARIABLES
    held,     \* keys that are down
    buff,     \* the six bytes of kb_buff that are used
    count,    \* kb_sem.sem_count
    wait,     \* threads on kb_sem.sem_waitlst
    pc,       \* what a reader does
    ubuf,     \* the reader's buffer: the bytes copied so far
    skb,      \* the shell's skb_buff
    tail,     \* skb_tail
    curr,     \* skb_curr
    ran,      \* the lines given to exel
    nev,      \* events handled
    nrd       \* reads that passed krlsem_down

kbdVars == <<held, buff, count, nev>>
shellVars == <<skb, tail, curr, ran>>
vars == <<held, buff, count, wait, pc, ubuf, skb, tail, curr, ran, nev, nrd>>

Bytes(w) == <<w % 256, w \div 256>>

Word(b, i) == b[2 * i + 1] + 256 * b[2 * i + 2]

\* kboard_t_init clears only the first word of kb_buff.
Init ==
    /\ held = {}
    /\ buff = <<0, 0, UNINIT, UNINIT, UNINIT, UNINIT>>
    /\ count = 0
    /\ wait = {}
    /\ pc = [r \in Readers |-> "read"]
    /\ ubuf = [r \in Readers |-> <<>>]
    /\ skb = [i \in 0 .. SKB - 1 |-> 0]
    /\ tail = 0
    /\ curr = 0
    /\ ran = <<>>
    /\ nev = 0
    /\ nrd = 0

-----------------------------------------------------------------------------
(* The interrupt.                                                          *)

\* kbd_write_scan for a key that goes down (bit 7 of scan clear) or up.
kbd_write_scan(k, up) ==
    (IF up THEN Bytes(0) \o Bytes(k + 128) ELSE Bytes(k) \o Bytes(0))
        \o Bytes(Code[k])

\* An event that replaces one nobody read is not counted.
HandleDropsFull(k, up) ==
    /\ nev < EVENTS
    /\ buff' = kbd_write_scan(k, up)
    /\ count' = 1
    /\ wait' = {}
    /\ pc' = [r \in Readers |-> IF r \in wait THEN "read" ELSE pc[r]]
    /\ nev' = nev + 1
    /\ UNCHANGED <<ubuf, shellVars, nrd>>

\* uart_handle: the event replaces the last one; krlsem_up wakes everyone.
uart_handle(k, up) ==
    /\ nev < EVENTS
    /\ buff' = kbd_write_scan(k, up)
    /\ count' = count + 1
    /\ wait' = {}
    /\ pc' = [r \in Readers |-> IF r \in wait THEN "read" ELSE pc[r]]
    /\ nev' = nev + 1
    /\ UNCHANGED <<ubuf, shellVars, nrd>>

\* A key goes down, or repeats because it is held.
Press(k) == uart_handle(k, FALSE) /\ held' = held \cup {k}

Release(k) == k \in held /\ uart_handle(k, TRUE) /\ held' = held \ {k}

-----------------------------------------------------------------------------
(* read.                                                                   *)

\* The thread sleeps but is on no list.
SemDownUnlisted(r) ==
    /\ pc[r] = "read"
    /\ IF count < 1
       THEN pc' = [pc EXCEPT ![r] = "wait"] /\ UNCHANGED <<count, ubuf, nrd>>
       ELSE /\ count' = count - 1
            /\ pc' = [pc EXCEPT ![r] = "copy"]
            /\ ubuf' = [ubuf EXCEPT ![r] = <<>>]
            /\ nrd' = nrd + 1
    /\ UNCHANGED <<wait, held, buff, nev, shellVars>>

\* krlsem_down in uart_read; a thread that was woken starts over.
krlsem_down(r) ==
    /\ pc[r] = "read"
    /\ IF count < 1
       THEN /\ wait' = wait \cup {r}
            /\ pc' = [pc EXCEPT ![r] = "wait"]
            /\ UNCHANGED <<count, ubuf, nrd>>
       ELSE /\ count' = count - 1
            /\ pc' = [pc EXCEPT ![r] = "copy"]
            /\ ubuf' = [ubuf EXCEPT ![r] = <<>>]
            /\ nrd' = nrd + 1
            /\ UNCHANGED wait
    /\ UNCHANGED <<held, buff, nev, shellVars>>

\* One byte of hal_memcpy: at most six, or as many as were asked for.
hal_memcpy(r) ==
    /\ pc[r] = "copy"
    /\ ubuf' = [ubuf EXCEPT ![r] = Append(@, buff[Len(@) + 1])]
    /\ pc' = [pc EXCEPT ![r] =
                IF Len(ubuf'[r]) < 6 /\ Len(ubuf'[r]) < ReadLen[r] THEN @ ELSE "got"]
    /\ UNCHANGED <<kbdVars, wait, shellVars, nrd>>

\* Another thread takes what it read and reads again.
OtherRead(r) ==
    /\ r \in Others
    /\ pc[r] = "got"
    /\ pc' = [pc EXCEPT ![r] = "read"]
    /\ UNCHANGED <<kbdVars, wait, ubuf, shellVars, nrd>>

-----------------------------------------------------------------------------
(* The shell.                                                              *)

\* read_keyboard_code: only what looks like the release of a key counts.
read_keyboard_code(b) == IF Word(b, 0) = 0 THEN Word(b, 2) ELSE NOCODE

\* The C string that starts at position i of the buffer.
StringAt(b, i) ==
    LET end == CHOOSE j \in i .. SKB - 1 :
                   b[j] = 0 /\ \A h \in i .. j - 1 : b[h] # 0
    IN  [j \in 1 .. end - i |-> b[i + j - 1]]

Wrap(i) == IF i >= SKB - 1 THEN 0 ELSE i

\* skb_buff_write, then skb_buff_disp, which prints from skb_curr on.
skb_buff_char(c) ==
    /\ skb' = [skb EXCEPT ![Wrap(tail)] = c, ![Wrap(tail) + 1] = 0]
    /\ tail' = Wrap(tail) + 1
    /\ curr' = Wrap(curr) + 1
    /\ UNCHANGED ran

\* Runs what was not shown yet.
EnterRunsCurr ==
    /\ ran' = Append(ran, StringAt(skb, curr))
    /\ skb' = [i \in 0 .. SKB - 1 |-> 0]
    /\ tail' = 0
    /\ curr' = 0

\* skb_buff_enter runs the line; skb_buff_clear.
skb_buff_enter ==
    /\ ran' = Append(ran, StringAt(skb, 0))
    /\ skb' = [i \in 0 .. SKB - 1 |-> 0]
    /\ tail' = 0
    /\ curr' = 0

skb_buff_backspace ==
    /\ IF tail < 1 THEN UNCHANGED <<skb, tail, curr>>
       ELSE /\ curr' = IF 0 < curr THEN curr - 1 ELSE curr
            /\ tail' = tail - 1
            /\ skb' = [skb EXCEPT ![tail - 1] = 0]
    /\ UNCHANGED ran

\* One round of the loop of shell() after the read.
shell ==
    LET kbcode == read_keyboard_code(ubuf[Shell])
    IN  /\ pc[Shell] = "got"
        /\ pc' = [pc EXCEPT ![Shell] = "read"]
        /\ \/ kbcode \in Chars /\ skb_buff_char(kbcode)
           \/ kbcode = ENTER /\ skb_buff_enter
           \/ kbcode = BACKSPACE /\ skb_buff_backspace
           \/ kbcode \notin Chars \cup {ENTER, BACKSPACE} /\ UNCHANGED shellVars
        /\ UNCHANGED <<kbdVars, wait, ubuf, nrd>>

Keyboard == \E k \in Keys : Press(k) \/ Release(k)

Reader(r) == krlsem_down(r) \/ hal_memcpy(r) \/ OtherRead(r) \/ (r = Shell /\ shell)

Next == Keyboard \/ \E r \in Readers : Reader(r)

\* A ready thread runs again (ReadyThreadRuns of module KrlSched); nobody
\* has to press a key.
Spec == Init /\ [][Next]_vars /\ \A r \in Readers : WF_vars(Reader(r))

-----------------------------------------------------------------------------
(* Properties.                                                             *)

\* Every event uart_handle reports with krlsem_up lets one read through
\* krlsem_down and no more, whichever threads compete for it; so kb_buff, of
\* which kboard_t_init clears one word only, is never read before the handler
\* has written it.
EventsAccounted ==
    /\ count + nrd = nev
    /\ \A r \in Readers : \A i \in DOMAIN ubuf[r] : ubuf[r][i] # UNINIT

Line == INSTANCE LineEdit WITH
    LINEMAX <- SKB - 1, line <- StringAt(skb, 0), ran <- ran

\* With what the shell reads, its buffer behaves as a line: a character is
\* added, the last one taken, the line run and cleared, and a character too
\* many starts the line anew (skb_buff_write, skb_buff_backspace,
\* skb_buff_enter, skb_buff_clear).
ImplementsLineEdit == Line!Spec

\* Once no more keys are pressed every event has been read and every reader
\* sleeps: the semaphore does not lose the last one.
AllRead == <>[](count = 0 /\ wait = Readers)

\* Every code the shell gets is one of keymap's column 0
\* (include/drvinc/drvuart_t.h says where a code passed on can be found).
CodeKnown ==
    pc[Shell] = "got" =>
        read_keyboard_code(ubuf[Shell]) \in {Code[k] : k \in Keys} \cup {NOCODE}
=============================================================================
