---------------------------- MODULE KboardProofs ----------------------------
(* Proofs about Kboard for any keys, any readers and any size of skb_buff:  *)
(* events and reads are balanced, kb_buff is never read uninitialized, and  *)
(* the shell's buffer implements LineEdit.                                  *)
EXTENDS Kboard, SequenceTheorems, TLAPS

-----------------------------------------------------------------------------
(* Events and reads.                                                       *)

\* A reader that copies has passed krlsem_down, so there was an event, and
\* since then all of kb_buff is written.
EventsInv ==
    /\ count \in Nat /\ nrd \in Nat /\ nev \in Nat
    /\ count + nrd = nev
    /\ pc \in [Readers -> {"read", "wait", "copy", "got"}]
    /\ ubuf \in [Readers -> Seq(Nat)]
    /\ \A r \in Readers : pc[r] = "copy" => nrd > 0 /\ Len(ubuf[r]) < 6
    /\ nev > 0 => buff \in [1 .. 6 -> Nat]

\* Three words of two bytes are the six bytes of kb_buff.
LEMMA ThreeWords ==
    ASSUME NEW x \in Seq(Nat), NEW y \in Seq(Nat), NEW z \in Seq(Nat),
           Len(x) = 2, Len(y) = 2, Len(z) = 2
    PROVE  (x \o y) \o z \in [1 .. 6 -> Nat]
<1> DEFINE xy == x \o y
           xyz == xy \o z
<1>1. xy \in Seq(Nat) /\ Len(xy) = Len(x) + Len(y)
  BY ConcatProperties
<1> HIDE DEF xy
<1>2. xyz \in Seq(Nat) /\ Len(xyz) = Len(xy) + Len(z)
  BY <1>1, ConcatProperties
<1>4. Len(xyz) = 6
  BY <1>1, <1>2
<1> HIDE DEF xyz
<1>3. xyz \in [1 .. 6 -> Nat]
  BY <1>2, <1>4, LenProperties
<1> QED BY <1>3 DEF xyz, xy

\* A word is two bytes.
LEMMA BytesType ==
    ASSUME NEW w \in Nat
    PROVE  Bytes(w) \in Seq(Nat) /\ Len(Bytes(w)) = 2
<1>1. w % 256 \in Nat /\ w \div 256 \in Nat
  OBVIOUS
<1> QED BY <1>1 DEF Bytes

\* The handler writes the six bytes of the three words.
LEMMA ScanWritten ==
    ASSUME NEW k \in Keys, NEW up \in BOOLEAN
    PROVE  kbd_write_scan(k, up) \in [1 .. 6 -> Nat]
<1>1. k \in Nat /\ Code[k] \in Nat /\ k + 128 \in Nat /\ 0 \in Nat
  BY KboardAssumption
<1>2. ASSUME NEW u \in Nat, NEW v \in Nat, NEW w \in Nat
      PROVE  (Bytes(u) \o Bytes(v)) \o Bytes(w) \in [1 .. 6 -> Nat]
  <2>1. /\ Bytes(u) \in Seq(Nat) /\ Len(Bytes(u)) = 2
        /\ Bytes(v) \in Seq(Nat) /\ Len(Bytes(v)) = 2
        /\ Bytes(w) \in Seq(Nat) /\ Len(Bytes(w)) = 2
    BY BytesType
  <2> QED BY <2>1, ThreeWords
<1>3. /\ up => kbd_write_scan(k, up) =
                 (Bytes(0) \o Bytes(k + 128)) \o Bytes(Code[k])
      /\ ~ up => kbd_write_scan(k, up) =
                 (Bytes(k) \o Bytes(0)) \o Bytes(Code[k])
  BY DEF kbd_write_scan
<1>4. (Bytes(0) \o Bytes(k + 128)) \o Bytes(Code[k]) \in [1 .. 6 -> Nat]
  BY ONLY <1>1, <1>2
<1>5. (Bytes(k) \o Bytes(0)) \o Bytes(Code[k]) \in [1 .. 6 -> Nat]
  BY ONLY <1>1, <1>2
<1> QED BY <1>3, <1>4, <1>5, Zenon

\* At the start there was no event and no read.
LEMMA EventsInit == Init => EventsInv
BY DEF Init, EventsInv

\* uart_handle writes all of kb_buff and counts one event.
LEMMA EventsHandle ==
    ASSUME EventsInv, NEW k \in Keys, NEW up \in BOOLEAN, uart_handle(k, up)
    PROVE  EventsInv'
<1>1. buff' \in [1 .. 6 -> Nat]
  BY ScanWritten DEF uart_handle
<1>2. pc' \in [Readers -> {"read", "wait", "copy", "got"}]
  BY DEF EventsInv, uart_handle
<1>3. \A r \in Readers : pc'[r] = "copy" => pc[r] = "copy"
  BY DEF uart_handle
<1>4. count' = count + 1 /\ nev' = nev + 1 /\ nrd' = nrd /\ ubuf' = ubuf
  BY DEF uart_handle
<1> QED BY <1>1, <1>2, <1>3, <1>4 DEF EventsInv

\* Every step keeps events and reads balanced.
LEMMA EventsStep ==
    ASSUME EventsInv, [Next]_vars
    PROVE  EventsInv'
<1>1. ASSUME NEW k \in Keys, Press(k) \/ Release(k) PROVE EventsInv'
  BY <1>1, EventsHandle DEF Press, Release
<1>2. ASSUME NEW r \in Readers, krlsem_down(r) PROVE EventsInv'
  <2>1. CASE count < 1
    <3>1. /\ pc' = [pc EXCEPT ![r] = "wait"]
          /\ UNCHANGED <<count, ubuf, nrd, buff, nev>>
      BY <1>2, <2>1 DEF krlsem_down
    <3> QED BY <3>1 DEF EventsInv
  <2>2. CASE ~ (count < 1)
    <3>1. /\ count' = count - 1 /\ nrd' = nrd + 1
          /\ pc' = [pc EXCEPT ![r] = "copy"]
          /\ ubuf' = [ubuf EXCEPT ![r] = <<>>]
          /\ UNCHANGED <<buff, nev>>
      BY <1>2, <2>2 DEF krlsem_down
    <3>2. count' \in Nat /\ nrd' \in Nat /\ nrd' > 0 /\ count' + nrd' = nev
      BY <2>2, <3>1 DEF EventsInv
    <3>3. /\ pc' \in [Readers -> {"read", "wait", "copy", "got"}]
          /\ ubuf' \in [Readers -> Seq(Nat)]
          /\ \A q \in Readers : pc'[q] = "copy" => Len(ubuf'[q]) < 6
      BY <3>1 DEF EventsInv
    <3> QED BY <3>1, <3>2, <3>3 DEF EventsInv
  <2> QED BY <2>1, <2>2
<1>3. ASSUME NEW r \in Readers, hal_memcpy(r) PROVE EventsInv'
  <2> DEFINE b == Append(ubuf[r], buff[Len(ubuf[r]) + 1])
  <2>0. pc[r] = "copy"
    BY <1>3 DEF hal_memcpy
  <2>1. Len(ubuf[r]) + 1 \in 1 .. 6 /\ nev > 0
    <3> DEFINE n == Len(ubuf[r])
    <3>1. ubuf[r] \in Seq(Nat) /\ n < 6
      BY <2>0 DEF EventsInv
    <3>2. n \in Nat
      BY <3>1, LenProperties
    <3>3. nrd > 0 /\ nrd \in Nat /\ count \in Nat /\ count + nrd = nev
      BY <2>0 DEF EventsInv
    <3> HIDE DEF n
    <3>4. n + 1 \in 1 .. 6 /\ nev > 0
      BY <3>1, <3>2, <3>3
    <3> QED BY <3>4 DEF n
  <2>2. b \in Seq(Nat)
    <3>1. ubuf[r] \in Seq(Nat) /\ buff[Len(ubuf[r]) + 1] \in Nat
      BY <2>1 DEF EventsInv
    <3> QED BY <3>1, AppendProperties
  <2>3. ubuf' = [ubuf EXCEPT ![r] = b]
    BY <1>3 DEF hal_memcpy
  <2>4. /\ pc' \in [Readers -> {"read", "wait", "copy", "got"}]
        /\ pc'[r] = "copy" => Len(ubuf'[r]) < 6
        /\ \A q \in Readers : q # r => pc'[q] = pc[q]
    BY <1>3 DEF EventsInv, hal_memcpy
  <2>5. UNCHANGED <<count, nrd, nev, buff>> /\ pc[r] = "copy"
    BY <1>3 DEF hal_memcpy, kbdVars
  <2> HIDE DEF b
  <2> QED BY <2>2, <2>3, <2>4, <2>5 DEF EventsInv
<1>4. ASSUME NEW r \in Readers, OtherRead(r) PROVE EventsInv'
  BY <1>4 DEF EventsInv, OtherRead, kbdVars
<1>5. ASSUME shell PROVE EventsInv'
  <2>1. pc' = [pc EXCEPT ![Shell] = "read"] /\ UNCHANGED <<kbdVars, ubuf, nrd>>
    BY <1>5 DEF shell
  <2> QED BY <2>1 DEF EventsInv, kbdVars
<1>6. CASE UNCHANGED vars
  BY <1>6 DEF EventsInv, vars
<1> QED BY <1>1, <1>2, <1>3, <1>4, <1>5, <1>6 DEF Next, Keyboard, Reader

\* Whatever threads compete for the keyboard, each event lets exactly one read
\* through krlsem_down, and no read ever sees a byte of kb_buff that
\* uart_handle did not write.
THEOREM EventsAccountedCorrect == Spec => []EventsAccounted
<1>1. Init => EventsInv
  BY EventsInit
<1>2. EventsInv /\ [Next]_vars => EventsInv'
  BY EventsStep
<1>3. EventsInv => EventsAccounted
  BY DEF EventsInv, EventsAccounted, UNINIT
<1> QED BY <1>1, <1>2, <1>3, PTL DEF Spec

-----------------------------------------------------------------------------
(* The line.                                                               *)

\* skb_buff holds a character and its NUL at least.
LEMMA SizeType == SKB \in Nat /\ SKB > 1
BY KboardAssumption

\* A C string of n characters.
Terminated(b, n) ==
    /\ b \in [0 .. SKB - 1 -> Nat]
    /\ n \in 0 .. SKB - 1
    /\ b[n] = 0
    /\ \A i \in 0 .. n - 1 : b[i] # 0

\* The line ends at skb_tail and holds no zero byte before it.
LineInv == Terminated(skb, tail)

\* The text in front of the first NUL of skb_buff.
LEMMA StringIs ==
    ASSUME NEW b, NEW n, Terminated(b, n)
    PROVE  /\ n \in Nat /\ n < SKB
           /\ StringAt(b, 0) = [j \in 1 .. n |-> b[j - 1]]
           /\ StringAt(b, 0) \in Seq(Nat)
           /\ Len(StringAt(b, 0)) = n
           /\ \A j \in 1 .. n : StringAt(b, 0)[j] = b[j - 1]
<1> DEFINE end == CHOOSE j \in 0 .. SKB - 1 :
                     b[j] = 0 /\ \A h \in 0 .. j - 1 : b[h] # 0
           s == [j \in 1 .. n |-> b[j - 1]]
<1>1. n \in Nat /\ n < SKB /\ n \in 0 .. SKB - 1
  BY SizeType DEF Terminated
<1>2. ASSUME NEW j \in 0 .. SKB - 1, b[j] = 0,
             \A h \in 0 .. j - 1 : b[h] # 0
      PROVE  j = n
  <2>1. ~ (j < n)
    BY <1>1, <1>2 DEF Terminated
  <2>2. ~ (n < j)
    BY <1>1, <1>2 DEF Terminated
  <2>3. j \in Nat
    BY <1>2, SizeType
  <2> QED BY <1>1, <2>1, <2>2, <2>3
<1>3. end = n
  BY <1>1, <1>2 DEF Terminated
<1>4. StringAt(b, 0) = [j \in 1 .. end - 0 |-> b[0 + j - 1]]
  BY DEF StringAt
<1> HIDE DEF end
<1>5. end - 0 = n /\ \A j \in 1 .. n : 0 + j - 1 = j - 1
  BY <1>1, <1>3
<1>6. StringAt(b, 0) = s
  BY <1>4, <1>5
<1>7. \A j \in 1 .. n : b[j - 1] \in Nat
  <2>1. \A j \in 1 .. n : j - 1 \in 0 .. SKB - 1
    BY <1>1, SizeType
  <2> QED BY <2>1 DEF Terminated
<1>8. s \in Seq(Nat) /\ Len(s) = n
  BY <1>1, <1>7
<1> QED BY <1>1, <1>6, <1>8

\* skb_buff_write: the character goes to the end of the line, or to the start
\* of the buffer when the line fills it.
LEMMA PutChar ==
    ASSUME NEW b, NEW n, Terminated(b, n), NEW c \in Chars
    PROVE  LET w  == Wrap(n)
               b2 == [b EXCEPT ![w] = c, ![w + 1] = 0]
               s  == StringAt(b, 0)
           IN  /\ Terminated(b2, w + 1)
               /\ StringAt(b2, 0) =
                    IF Len(s) = SKB - 1 THEN <<c>> ELSE Append(s, c)
<1> DEFINE w  == Wrap(n)
           b2 == [b EXCEPT ![w] = c, ![w + 1] = 0]
           s  == StringAt(b, 0)
           s2 == StringAt(b2, 0)
<1>0. c \in Nat /\ c # 0
  BY DEF Chars
<1>1. /\ n \in Nat /\ n < SKB /\ s \in Seq(Nat) /\ Len(s) = n
      /\ \A j \in 1 .. n : s[j] = b[j - 1]
  BY StringIs
<1>2. w \in Nat /\ w + 1 < SKB /\ w = IF n = SKB - 1 THEN 0 ELSE n
  <2>1. n \in Nat /\ n < SKB /\ SKB \in Nat /\ SKB > 1
    BY <1>1, SizeType
  <2>2. n >= SKB - 1 <=> n = SKB - 1
    BY <2>1
  <2>3. w = IF n = SKB - 1 THEN 0 ELSE n
    BY <2>2 DEF Wrap
  <2> HIDE DEF w
  <2> QED BY <2>1, <2>3
<1> HIDE DEF w
<1>3. w \in 0 .. SKB - 1 /\ w + 1 \in 0 .. SKB - 1 /\ w # w + 1
  <2>1. w \in Nat /\ w + 1 < SKB /\ SKB \in Nat
    BY <1>2, SizeType
  <2> QED BY <2>1
<1>4. b \in [0 .. SKB - 1 -> Nat] /\ \A i \in 0 .. n - 1 : b[i] # 0
  BY DEF Terminated
<1>5. b2 \in [0 .. SKB - 1 -> Nat] /\ b2[w] = c /\ b2[w + 1] = 0
  BY <1>0, <1>3, <1>4
<1>6. \A i \in 0 .. w - 1 : b2[i] = b[i] /\ b2[i] # 0
  <2> SUFFICES ASSUME NEW i \in 0 .. w - 1 PROVE b2[i] = b[i] /\ b[i] # 0
    OBVIOUS
  <2>1. i \in 0 .. SKB - 1 /\ i # w /\ i # w + 1 /\ i \in 0 .. n - 1
    BY <1>1, <1>2, SizeType
  <2> QED BY <2>1, <1>4
<1> HIDE DEF b2
<1>7. \A i \in 0 .. (w + 1) - 1 : b2[i] # 0
  <2> SUFFICES ASSUME NEW i \in 0 .. (w + 1) - 1 PROVE b2[i] # 0
    OBVIOUS
  <2>1. i = w \/ i \in 0 .. w - 1
    BY <1>2
  <2> QED BY <2>1, <1>0, <1>5, <1>6
<1>8. Terminated(b2, w + 1)
  BY <1>3, <1>5, <1>7 DEF Terminated
<1>9. /\ s2 \in Seq(Nat) /\ Len(s2) = w + 1
      /\ \A j \in 1 .. w + 1 : s2[j] = b2[j - 1]
  BY <1>8, StringIs
<1> HIDE DEF s, s2
<1>10. s2 = IF Len(s) = SKB - 1 THEN <<c>> ELSE Append(s, c)
  <2>1. CASE n = SKB - 1
    <3>1. w = 0
      BY <2>1, <1>2
    <3>2. Len(s2) = 1 /\ s2[1] = c
      BY <3>1, <1>5, <1>9
    <3>3. s2 = <<c>>
      BY <3>2, <1>9
    <3> QED BY <2>1, <3>3, <1>1
  <2>2. CASE n # SKB - 1
    <3>1. w = n
      BY <2>2, <1>2
    <3>2. /\ Append(s, c) \in Seq(Nat) /\ Len(Append(s, c)) = n + 1
          /\ \A j \in 1 .. n : Append(s, c)[j] = s[j]
          /\ Append(s, c)[n + 1] = c
      BY <1>0, <1>1, AppendProperties
    <3>3. ASSUME NEW j \in 1 .. n + 1 PROVE s2[j] = Append(s, c)[j]
      <4>1. s2[j] = b2[j - 1]
        BY <3>1, <1>9
      <4>2. CASE j = n + 1
        <5>1. j - 1 = w
          BY <4>2, <3>1, <1>1
        <5> QED BY <4>1, <4>2, <5>1, <3>2, <1>5
      <4>3. CASE j # n + 1
        <5>1. j \in 1 .. n /\ j - 1 \in 0 .. w - 1
          BY <4>3, <3>1, <1>1
        <5> QED BY <4>1, <5>1, <3>2, <1>1, <1>6
      <4> QED BY <4>2, <4>3
    <3>4. s2 = Append(s, c)
      BY <3>1, <3>2, <3>3, <1>9, SeqEqual
    <3> QED BY <2>2, <3>4, <1>1
  <2> QED BY <2>1, <2>2
<1> QED BY <1>8, <1>10 DEF s, s2, w, b2

\* skb_buff_backspace: the last character is overwritten by the end.
LEMMA TakeChar ==
    ASSUME NEW b, NEW n, Terminated(b, n), ~ (n < 1)
    PROVE  LET b2 == [b EXCEPT ![n - 1] = 0]
               s  == StringAt(b, 0)
           IN  /\ Terminated(b2, n - 1)
               /\ s # << >>
               /\ StringAt(b2, 0) = SubSeq(s, 1, Len(s) - 1)
<1> DEFINE b2 == [b EXCEPT ![n - 1] = 0]
           s  == StringAt(b, 0)
           s2 == StringAt(b2, 0)
           f  == SubSeq(s, 1, Len(s) - 1)
<1>1. /\ n \in Nat /\ n < SKB /\ s \in Seq(Nat) /\ Len(s) = n
      /\ \A j \in 1 .. n : s[j] = b[j - 1]
  BY StringIs
<1>2. n - 1 \in Nat /\ n - 1 \in 0 .. SKB - 1
  BY <1>1, SizeType
<1>3. b \in [0 .. SKB - 1 -> Nat] /\ \A i \in 0 .. n - 1 : b[i] # 0
  BY DEF Terminated
<1>4. b2 \in [0 .. SKB - 1 -> Nat] /\ b2[n - 1] = 0
  BY <1>2, <1>3
<1>5. \A i \in 0 .. (n - 1) - 1 : b2[i] = b[i] /\ b2[i] # 0
  <2> SUFFICES ASSUME NEW i \in 0 .. (n - 1) - 1 PROVE b2[i] = b[i] /\ b[i] # 0
    OBVIOUS
  <2>1. i \in 0 .. SKB - 1 /\ i # n - 1 /\ i \in 0 .. n - 1
    BY <1>1, SizeType
  <2> QED BY <2>1, <1>3
<1> HIDE DEF b2
<1>6. Terminated(b2, n - 1)
  BY <1>2, <1>4, <1>5 DEF Terminated
<1>7. /\ s2 \in Seq(Nat) /\ Len(s2) = n - 1
      /\ \A j \in 1 .. n - 1 : s2[j] = b2[j - 1]
  BY <1>6, StringIs
<1> HIDE DEF s, s2
<1>8. s # << >>
  BY <1>1
<1>9. /\ f \in Seq(Nat) /\ Len(f) = n - 1
      /\ \A j \in 1 .. n - 1 : f[j] = s[j]
  <2>1. \A j \in 1 .. n - 1 : s[j] \in Nat
    <3>1. \A j \in 1 .. n - 1 : j \in 1 .. Len(s)
      BY <1>1
    <3> QED BY <3>1, <1>1, ElementOfSeq
  <2> DEFINE g == SubSeq(s, 1, n - 1)
  <2>2. /\ g \in Seq(Nat)
        /\ Len(g) = IF 1 <= n - 1 THEN (n - 1) - 1 + 1 ELSE 0
        /\ \A j \in 1 .. (n - 1) - 1 + 1 : g[j] = s[1 + j - 1]
    <3>1. 1 \in Int /\ n - 1 \in Int
      BY <1>2
    <3> QED BY <2>1, <3>1, SubSeqProperties
  <2>3. f = g
    BY <1>1
  <2> HIDE DEF f, g
  <2>4. Len(g) = n - 1
    BY <1>2, <2>2
  <2>5. \A j \in 1 .. n - 1 : 1 + j - 1 = j /\ j \in 1 .. (n - 1) - 1 + 1
    BY <1>2
  <2> QED BY <2>2, <2>3, <2>4, <2>5
<1> HIDE DEF f
<1>10. ASSUME NEW j \in 1 .. n - 1 PROVE s2[j] = f[j]
  <2>1. j \in 1 .. n /\ j - 1 \in 0 .. (n - 1) - 1
    BY <1>1
  <2> QED BY <2>1, <1>1, <1>5, <1>7, <1>9
<1>11. s2 = f
  BY <1>7, <1>9, <1>10, SeqEqual
<1> QED BY <1>6, <1>8, <1>11 DEF s, s2, b2, f

\* skb_buff_clear, and the buffer at the start.
LEMMA ClearLine ==
    /\ Terminated([i \in 0 .. SKB - 1 |-> 0], 0)
    /\ StringAt([i \in 0 .. SKB - 1 |-> 0], 0) = << >>
<1> DEFINE b == [i \in 0 .. SKB - 1 |-> 0]
<1>1. Terminated(b, 0)
  BY SizeType DEF Terminated
<1> HIDE DEF b
<1>2. StringAt(b, 0) \in Seq(Nat) /\ Len(StringAt(b, 0)) = 0
  BY <1>1, StringIs
<1>3. StringAt(b, 0) = << >>
  BY <1>2
<1> QED BY <1>1, <1>3 DEF b

\* The string does not depend on anything but the buffer.
LEMMA StringPrimed == StringAt(skb, 0)' = StringAt(skb', 0)
BY DEF StringAt

\* One round of the shell's loop is a step of the line editor, or none.
LEMMA ShellStep ==
    ASSUME LineInv, shell
    PROVE  LineInv' /\ [Line!Next]_<<StringAt(skb, 0), ran>>
<1> DEFINE line == StringAt(skb, 0)
<1>1. ASSUME NEW c \in Chars, skb_buff_char(c)
      PROVE  LineInv' /\ Line!Next
  <2>1. /\ skb' = [skb EXCEPT ![Wrap(tail)] = c, ![Wrap(tail) + 1] = 0]
        /\ tail' = Wrap(tail) + 1
        /\ ran' = ran
    BY <1>1 DEF skb_buff_char
  <2>2. /\ Terminated(skb', tail')
        /\ StringAt(skb', 0) =
             IF Len(line) = SKB - 1 THEN <<c>> ELSE Append(line, c)
    BY <2>1, PutChar DEF LineInv
  <2>3. Line!Type(c)
    BY <2>1, <2>2, StringPrimed DEF Line!Type
  <2>4. LineInv'
    BY <2>2 DEF LineInv, Terminated
  <2> QED BY <2>3, <2>4 DEF Line!Next
<1>2. ASSUME skb_buff_enter PROVE LineInv' /\ Line!Next
  <2>1. /\ skb' = [i \in 0 .. SKB - 1 |-> 0] /\ tail' = 0
        /\ ran' = Append(ran, line)
    BY <1>2 DEF skb_buff_enter
  <2>2. Terminated(skb', tail') /\ StringAt(skb', 0) = << >>
    BY <2>1, ClearLine
  <2>3. Line!Enter
    BY <2>1, <2>2, StringPrimed DEF Line!Enter
  <2>4. LineInv'
    BY <2>2 DEF LineInv, Terminated
  <2> QED BY <2>3, <2>4 DEF Line!Next
<1>3. ASSUME skb_buff_backspace
      PROVE  LineInv' /\ [Line!Next]_<<StringAt(skb, 0), ran>>
  <2>1. CASE tail < 1
    <3>1. skb' = skb /\ tail' = tail /\ ran' = ran
      BY <1>3, <2>1 DEF skb_buff_backspace
    <3>2. line' = line
      BY <3>1, StringPrimed
    <3> QED BY <3>1, <3>2 DEF LineInv, Terminated
  <2>2. CASE ~ (tail < 1)
    <3>1. skb' = [skb EXCEPT ![tail - 1] = 0] /\ tail' = tail - 1 /\ ran' = ran
      BY <1>3, <2>2 DEF skb_buff_backspace
    <3>2. /\ Terminated(skb', tail') /\ line # << >>
          /\ StringAt(skb', 0) = SubSeq(line, 1, Len(line) - 1)
      BY <2>2, <3>1, TakeChar DEF LineInv
    <3>3. Line!Backspace
      BY <3>1, <3>2, StringPrimed DEF Line!Backspace
    <3>4. LineInv'
      BY <3>2 DEF LineInv, Terminated
    <3> QED BY <3>3, <3>4 DEF Line!Next
  <2> QED BY <2>1, <2>2
<1>4. ASSUME UNCHANGED shellVars
      PROVE  LineInv' /\ [Line!Next]_<<StringAt(skb, 0), ran>>
  <2>1. skb' = skb /\ tail' = tail /\ ran' = ran
    BY <1>4 DEF shellVars
  <2>2. line' = line
    BY <2>1, StringPrimed
  <2> QED BY <2>1, <2>2 DEF LineInv, Terminated
<1> QED BY <1>1, <1>2, <1>3, <1>4 DEF shell

\* Every step changes the line as LineEdit allows.
LEMMA LineStep ==
    ASSUME LineInv, [Next]_vars
    PROVE  LineInv' /\ [Line!Next]_<<StringAt(skb, 0), ran>>
<1>1. ASSUME UNCHANGED shellVars
      PROVE  LineInv' /\ [Line!Next]_<<StringAt(skb, 0), ran>>
  <2>1. skb' = skb /\ tail' = tail /\ ran' = ran
    BY <1>1 DEF shellVars
  <2>2. StringAt(skb, 0)' = StringAt(skb, 0)
    BY <2>1, StringPrimed
  <2> QED BY <2>1, <2>2 DEF LineInv, Terminated
<1>2. shell \/ UNCHANGED shellVars
  BY DEF Next, Keyboard, Press, Release, uart_handle, Reader, krlsem_down,
         hal_memcpy, OtherRead, vars, shellVars
<1> QED BY <1>1, <1>2, ShellStep

\* Whatever is typed, whoever else reads the keyboard and however long the
\* line gets, skb_buff with skb_tail is a line editor: a line wraps to a new
\* one when it is full, and what exel is given is the line as typed.
THEOREM LineEditImplemented == Spec => ImplementsLineEdit
<1>1. Init => LineInv /\ Line!Init
  <2> SUFFICES ASSUME Init PROVE LineInv /\ Line!Init
    OBVIOUS
  <2>1. skb = [i \in 0 .. SKB - 1 |-> 0] /\ tail = 0 /\ ran = << >>
    BY DEF Init
  <2> QED BY <2>1, ClearLine DEF LineInv, Line!Init
<1>2. LineInv /\ [Next]_vars => LineInv' /\ [Line!Next]_<<StringAt(skb, 0), ran>>
  BY LineStep
<1> QED BY <1>1, <1>2, PTL DEF Spec, ImplementsLineEdit, Line!Spec
=============================================================================
