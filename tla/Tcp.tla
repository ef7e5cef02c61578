-------------------------------- MODULE Tcp --------------------------------
(***************************************************************************)
(* One TCP connection between two hosts that both run the TCP of lwIP       *)
(* (drivers/net/src/core: tcp.c, tcp_in.c, tcp_out.c): "c" connects to the   *)
(* listening "s". The network loses, repeats, delays and reorders segments: *)
(* it holds a few of those that were sent, any of which may arrive at any   *)
(* time, any number of times, and which are lost when others take their     *)
(* place.                                                                   *)
(*                                                                          *)
(* The core runs under one lock (LWIP_ASSERT_CORE_LOCKED), so a call of the *)
(* application, a timer and the arrival of a segment are one step each. A   *)
(* byte of a stream is its number in the stream. Sequence numbers are taken *)
(* modulo SEQ and compared the way the code compares them. A timer that     *)
(* runs may expire at any tick. The congestion window is any of cwnds once  *)
(* the connection is established. Left out: memory running out, options,    *)
(* SACK, keepalive, window scaling (the shift is 0).                        *)
(***************************************************************************)
EXTENDS Integers, Sequences, SequencesExt, FiniteSets, FiniteSetsExt, Functions

CONSTANTS
    TCP_MSS, TCP_WND, TCP_SND_BUF, TCP_MAXRTX, TCP_SYNMAXRTX,
    SEQ,             \* the sequence numbers are 0 .. SEQ - 1
    ISS,             \* ISS[h][k]: what tcp_next_iss gives the k-th pcb of h
    SCENES           \* the surroundings in which the connection is looked at, records of
                     \*   writes: how many bytes the application of each host writes,
                     \*   sizes: how many at a time,
                     \*   calls: the other calls <<host, call>> that they make,
                     \*   takes: what the callbacks may answer (TRUE: takes the data),
                     \*   cwnds: the sizes of the congestion window,
                     \*   net: how many segments the network holds,
                     \*   pcbs: how many control blocks a host has memory for, one at a time

Hosts == {"c", "s"}
Peer(h) == IF h = "c" THEN "s" ELSE "c"

ASSUME TcpAssumption ==
    /\ TCP_MSS \in Nat \ {0} /\ TCP_WND >= TCP_MSS
    /\ \A h \in Hosts : \A k \in DOMAIN ISS[h] : ISS[h][k] \in 0 .. SEQ - 1
    /\ \A e \in SCENES, h \in Hosts :
          /\ 2 * (e.writes[h] + TCP_WND + 4) < SEQ
          /\ e.pcbs <= Len(ISS[h]) /\ (e.pcbs > 1 => e.writes[h] = 0)

VARIABLES
    scene,           \* one of SCENES, the same all the time
    pcb,             \* pcb[h]: the control block of the connection at h
    made,            \* made[h]: how many control blocks h has had
    app,             \* app[h]: the application on h
    net,             \* the segments that may still arrive
    asserted,        \* asserted[h]: the assertion at which h has stopped
    early            \* early[h]: h has had a FIN in front of its last byte (history)

vars == <<scene, pcb, made, app, net, asserted, early>>

---------------------------------------------------------------------------
(* Sequence numbers, segments and control blocks.                           *)

TCP_SEQ_LT(a, b) == (a - b) % SEQ >= SEQ \div 2
TCP_SEQ_LEQ(a, b) == (a - b) % SEQ = 0 \/ TCP_SEQ_LT(a, b)
TCP_SEQ_GT(a, b) == ~TCP_SEQ_LEQ(a, b)
TCP_SEQ_GEQ(a, b) == ~TCP_SEQ_LT(a, b)
TCP_SEQ_BETWEEN(a, b, c) == TCP_SEQ_GEQ(a, b) /\ TCP_SEQ_LEQ(a, c)
Mod(n) == n % SEQ

\* A segment in a queue is its sequence number, its bytes and its flags.
Seg(seqno, data, flags) == [seqno |-> Mod(seqno), data |-> data, flags |-> flags]
TCP_TCPLEN(seg) == Len(seg.data) + (IF seg.flags \cap {"SYN", "FIN"} # {} THEN 1 ELSE 0)
After(seg) == Mod(seg.seqno + TCP_TCPLEN(seg))
Data(q) == FlattenSeq([i \in DOMAIN q |-> q[i].data])

\* What tcp_alloc returns; a control block that is not in use is kept CLOSED.
\* cwnd is only kept until the connection is established.
tcp_alloc ==
    [state |-> "CLOSED", rcv_nxt |-> 0, rcv_wnd |-> TCP_WND, rcv_ann_wnd |-> TCP_WND,
     rcv_ann_right_edge |-> 0, snd_nxt |-> 0, lastack |-> 0, snd_lbb |-> 0,
     snd_wl1 |-> 0, snd_wl2 |-> 0, snd_wnd |-> 0, snd_wnd_max |-> 0,
     snd_buf |-> TCP_SND_BUF, unsent |-> <<>>, unacked |-> <<>>, ooseq |-> <<>>,
     refused_data |-> <<>>, refused_fin |-> FALSE,
     ACK_DELAY |-> FALSE, ACK_NOW |-> FALSE, INFR |-> FALSE, FIN |-> FALSE,
     RXCLOSED |-> FALSE, NAGLEMEMERR |-> FALSE, cwnd |-> 1, rtime |-> FALSE, nrtx |-> 0, dupacks |-> 0,
     persist |-> FALSE, persist_probe |-> 0]

\* What a handler works on: the control block, the application, what is sent,
\* what tcp_receive leaves for tcp_input, whether the control block has been
\* freed, and the assertion that fails.
Ctx(h) ==
    [h |-> h, p |-> pcb[h], a |-> app[h], out |-> {}, recv_data |-> <<>>,
     GOT_FIN |-> FALSE, freed |-> FALSE, assert |-> ""]

LWIP_ASSERT(r, what, holds) == IF holds \/ r.assert # "" THEN r ELSE [r EXCEPT !.assert = what]

---------------------------------------------------------------------------
(* Output.                                                                  *)

\* The segment goes out with the acknowledgement and the window of the moment.
Emit(r, seg) ==
    [r EXCEPT !.out = @ \cup {[from |-> r.h, seqno |-> seg.seqno, data |-> seg.data,
                               flags |-> seg.flags, ackno |-> r.p.rcv_nxt,
                               wnd |-> r.p.rcv_ann_wnd]},
              !.p.rcv_ann_right_edge = Mod(r.p.rcv_nxt + r.p.rcv_ann_wnd)]

tcp_rst(h, seqno, ackno) ==
    [from |-> h, seqno |-> Mod(seqno), data |-> <<>>, flags |-> {"RST", "ACK"},
     ackno |-> Mod(ackno), wnd |-> TCP_WND]

NoAck(r) == [r EXCEPT !.p.ACK_DELAY = FALSE, !.p.ACK_NOW = FALSE]
tcp_ack_now(r) == [r EXCEPT !.p.ACK_NOW = TRUE]
tcp_ack(r) ==
    IF r.p.ACK_DELAY THEN tcp_ack_now([r EXCEPT !.p.ACK_DELAY = FALSE])
                     ELSE [r EXCEPT !.p.ACK_DELAY = TRUE]

tcp_send_empty_ack(r) == NoAck(Emit(r, Seg(r.p.snd_nxt, <<>>, {"ACK"})))

tcp_do_output_nagle(p) ==
    \/ p.unacked = <<>>
    \/ p.INFR
    \/ Len(p.unsent) > 1
    \/ Len(p.unsent[1].data) >= TCP_MSS
    \/ p.snd_buf = 0

\* The queue with seg in its place.
Sorted(q, seg) ==
    LET before == {i \in DOMAIN q : TCP_SEQ_LT(q[i].seqno, seg.seqno)}
    IN  InsertAt(q, Cardinality(before) + 1, seg)

\* Mutant: the retransmission timer is not started.
Untimed(r, seg) ==
    Emit(r, IF r.p.state = "SYN_SENT" THEN seg ELSE [seg EXCEPT !.flags = @ \cup {"ACK"}])

tcp_output_segment(r, seg) ==
    LET flags == IF r.p.state = "SYN_SENT" THEN seg.flags ELSE seg.flags \cup {"ACK"}
        s == Emit(r, [seg EXCEPT !.flags = flags])
    IN  [s EXCEPT !.p.rtime = TRUE]

\* Does seg end inside a send window of wnd bytes? The FIN is not counted.
Fits(p, seg, wnd) == Mod(seg.seqno - p.lastack + Len(seg.data)) <= wnd

\* Segments go out while they fit and Nagle does not hold them back.
RECURSIVE SendAll(_, _)
SendAll(r, wnd) ==
    IF r.p.unsent = <<>> \/ ~Fits(r.p, r.p.unsent[1], wnd)
       \/ ~(tcp_do_output_nagle(r.p) \/ r.p.NAGLEMEMERR \/ r.p.FIN)
    THEN r
    ELSE LET seg == Head(r.p.unsent)
             s == tcp_output_segment(r, seg)
             t == IF s.p.state # "SYN_SENT" THEN NoAck(s) ELSE s
             p == [t.p EXCEPT !.unsent = Tail(@),
                              !.snd_nxt = IF TCP_SEQ_LT(@, After(seg)) THEN After(seg) ELSE @,
                              !.unacked = IF TCP_TCPLEN(seg) > 0 THEN Sorted(@, seg) ELSE @]
         IN  SendAll([t EXCEPT !.p = p], wnd)

\* Nothing can be sent. The acknowledgement that may be due leaves TF_NAGLEMEMERR.
Done(r) == [r EXCEPT !.p.NAGLEMEMERR = FALSE]
Flush(r) == IF r.p.ACK_NOW THEN tcp_send_empty_ack(r) ELSE Done(r)

\* Mutant: the persist timer starts although something is in flight.
StartsAnyway(p, wnd) == wnd = p.snd_wnd /\ ~p.persist

\* Does the persist timer start, as the window is too small for what is next?
PersistStarts(p, wnd) == wnd = p.snd_wnd /\ p.unacked = <<>> /\ ~p.persist

tcp_output(r, cw) ==
    LET p == r.p
        wnd == Min({p.snd_wnd, IF p.state \in {"SYN_SENT", "SYN_RCVD"} THEN p.cwnd ELSE cw})
    IN  IF p.unsent = <<>> THEN Flush(r)
        ELSE IF ~Fits(p, p.unsent[1], wnd)
        THEN Flush(IF PersistStarts(p, wnd)
                   THEN [r EXCEPT !.p.persist = TRUE, !.p.persist_probe = 0] ELSE r)
        ELSE Done(SendAll([r EXCEPT !.p.persist = FALSE], wnd))

tcp_enqueue_flags(p, flag) ==
    [p EXCEPT !.unsent = Append(@, Seg(p.snd_lbb, <<>>, {flag})),
              !.snd_lbb = Mod(@ + 1),
              !.FIN = @ \/ flag = "FIN"]

tcp_send_fin(p) ==
    IF p.unsent # <<>> /\ Last(p.unsent).flags = {}
    THEN [p EXCEPT !.unsent[Len(p.unsent)].flags = {"FIN"}, !.FIN = TRUE]
    ELSE tcp_enqueue_flags(p, "FIN")

---------------------------------------------------------------------------
(* Retransmission and the persist timer.                                    *)

\* nrtx is only compared with the two limits.
Bump(nrtx) == Min({nrtx + 1, Max({TCP_MAXRTX, TCP_SYNMAXRTX})})

\* Mutant: what was in flight goes behind what was not.
UnsentFirst(p) == [p EXCEPT !.unsent = @ \o p.unacked, !.unacked = <<>>]

tcp_rexmit_rto_prepare(p) == [p EXCEPT !.unsent = p.unacked \o @, !.unacked = <<>>]

\* tcp_rexmit moves the first unacked segment back; tcp_input sends it.
tcp_rexmit(p) ==
    [p EXCEPT !.unsent = Sorted(@, Head(p.unacked)), !.unacked = Tail(@), !.nrtx = Bump(@)]

tcp_rexmit_fast(p) ==
    IF p.unacked # <<>> /\ ~p.INFR
    THEN [tcp_rexmit(p) EXCEPT !.INFR = TRUE, !.rtime = TRUE]
    ELSE p

\* TCPH_SET_FLAG can only add flags: the head of a split segment keeps its FIN.
TCPH_SET_FLAG(flags, set) == flags \cup set

tcp_split_unsent_seg(p, split) ==
    LET useg == p.unsent[1]
        head == Seg(useg.seqno, SubSeq(useg.data, 1, split),
                    TCPH_SET_FLAG(useg.flags, useg.flags \ {"FIN"}))
        rest == Seg(useg.seqno + split, SubSeq(useg.data, split + 1, Len(useg.data)),
                    useg.flags \cap {"FIN"})
    IN  IF Len(useg.data) <= split THEN p
        ELSE [p EXCEPT !.unsent = <<head, rest>> \o Tail(@)]

\* The probe is the FIN, if only that is left, or a copy of the next byte.
Probe(seg) ==
    IF "FIN" \in seg.flags /\ seg.data = <<>> THEN Seg(seg.seqno, <<>>, {"ACK", "FIN"})
                                               ELSE Seg(seg.seqno, SubSeq(seg.data, 1, 1), {"ACK"})

\* Mutant: snd_nxt does not cover the probe.
ProbeForgotten(r) == [Emit(r, Probe(r.p.unsent[1])) EXCEPT !.p.persist_probe = @ + 1]

tcp_zero_window_probe(r) ==
    LET probe == Probe(r.p.unsent[1])
        nxt == Mod(probe.seqno + 1)
    IN  [Emit(r, probe) EXCEPT !.p.persist_probe = @ + 1,
                               !.p.snd_nxt = IF TCP_SEQ_LT(@, nxt) THEN nxt ELSE @]

---------------------------------------------------------------------------
(* Input.                                                                   *)

tcp_update_rcv_ann_wnd(p) ==
    LET edge == Mod(p.rcv_nxt + p.rcv_wnd)
    IN  IF TCP_SEQ_GEQ(edge, p.rcv_ann_right_edge + Min({TCP_WND \div 2, TCP_MSS}))
        THEN [p EXCEPT !.rcv_ann_wnd = p.rcv_wnd]
        ELSE IF TCP_SEQ_GT(p.rcv_nxt, p.rcv_ann_right_edge)
        THEN [p EXCEPT !.rcv_ann_wnd = 0]
        ELSE [p EXCEPT !.rcv_ann_wnd = Mod(p.rcv_ann_right_edge - p.rcv_nxt)]

\* Mutant: the data of a later segment is put in front.
GatherFirst(data, seg) == seg.data \o data

Gather(data, seg) == data \o seg.data

\* A segment in sequence is taken out of the window.
Advance(r, seg, what) ==
    LET s == LWIP_ASSERT(r, what, r.p.rcv_wnd >= TCP_TCPLEN(seg))
        p == [s.p EXCEPT !.rcv_nxt = Mod(seg.seqno + TCP_TCPLEN(seg)),
                         !.rcv_wnd = @ - TCP_TCPLEN(seg)]
    IN  [s EXCEPT !.p = tcp_update_rcv_ann_wnd(p),
                  !.recv_data = Gather(@, seg),
                  !.GOT_FIN = @ \/ "FIN" \in seg.flags]

\* A segment without what reaches past the sequence number end.
TrimTo(seg, end) ==
    IF TCP_SEQ_GT(seg.seqno + Len(seg.data), end)
    THEN [seg EXCEPT !.data = SubSeq(@, 1, Mod(end - seg.seqno))]
    ELSE seg

\* Segments at the front of q that end at or before seg does; their FIN goes
\* over to it.
Covered(seg, len, q) ==
    LET in(i) == TCP_SEQ_GEQ(seg.seqno + len, q[i].seqno + Len(q[i].data))
    IN  Max({0} \cup {k \in DOMAIN q : \A i \in 1 .. k : in(i)})

Absorb(seg, q) ==
    LET n == Covered(seg, Len(seg.data), q)
        fin == \E i \in 1 .. n : "FIN" \in q[i].flags
        rest == SubSeq(q, n + 1, Len(q))
        s == IF fin THEN [seg EXCEPT !.flags = @ \cup {"FIN"}] ELSE seg
    IN  IF "FIN" \in seg.flags THEN <<seg>>
        ELSE <<IF rest = <<>> THEN s ELSE TrimTo(s, rest[1].seqno)>> \o rest

tcp_oos_insert_segment(cseg, next) == Absorb(cseg, next)

\* Mutant: the place of the segment is not looked for.
QueueLast(p, seg) == Append(p.ooseq, seg)

\* A segment ahead of rcv_nxt is put into ooseq, which is sorted.
Queue(p, seg) ==
    LET q == p.ooseq
        k == Cardinality({i \in DOMAIN q : TCP_SEQ_LT(q[i].seqno, seg.seqno)})
        before == SubSeq(q, 1, k)
        behind == SubSeq(q, k + 1, Len(q))
        trimmed == IF k = 0 THEN <<>>
                   ELSE Append(Front(before), TrimTo(Last(before), seg.seqno))
        right == Mod(p.rcv_nxt + p.rcv_wnd)
        inside == IF TCP_SEQ_GT(seg.seqno + TCP_TCPLEN(seg), right)
                  THEN TrimTo([seg EXCEPT !.flags = {}], right)
                  ELSE seg
    IN  IF q = <<>> THEN <<seg>>
        ELSE IF behind # <<>> /\ behind[1].seqno = seg.seqno
        THEN IF Len(seg.data) > Len(behind[1].data)
             THEN before \o tcp_oos_insert_segment(seg, behind) ELSE q
        ELSE IF behind # <<>> THEN trimmed \o tcp_oos_insert_segment(seg, behind)
        ELSE IF "FIN" \in Last(q).flags THEN q
        ELSE Append(trimmed, inside)

\* Segments of ooseq that have become the next in sequence are taken.
RECURSIVE Dequeue(_)
Dequeue(r) ==
    IF r.assert # "" \/ r.p.ooseq = <<>> \/ r.p.ooseq[1].seqno # r.p.rcv_nxt THEN r
    ELSE LET cseg == r.p.ooseq[1]
             s == Advance(r, cseg, "ooseq tcplen > rcv_wnd")
             wait == "FIN" \in cseg.flags /\ s.p.state = "ESTABLISHED"
         IN  Dequeue([s EXCEPT !.p.ooseq = Tail(@),
                               !.p.state = IF wait THEN "CLOSE_WAIT" ELSE @])

\* The next segment in sequence, cut to the window and to ooseq.
InSequence(r, seg) ==
    LET p == r.p
        fit == IF TCP_TCPLEN(seg) > p.rcv_wnd
               THEN TrimTo([seg EXCEPT !.flags = {}], p.rcv_nxt + p.rcv_wnd)
               ELSE seg
        q == IF p.ooseq = <<>> THEN <<fit>> ELSE Absorb(fit, p.ooseq)
    IN  tcp_ack(Dequeue(Advance([r EXCEPT !.p.ooseq = Tail(q)], q[1], "tcplen > rcv_wnd")))

\* The part of tcp_receive that is about the segment's own bytes.
ReceiveData(r, m) ==
    LET p == r.p
        seg == Seg(m.seqno, m.data, m.flags \cap {"FIN"})
        len == TCP_TCPLEN(seg)
        off == Mod(p.rcv_nxt - seg.seqno)
        trims == TCP_SEQ_BETWEEN(p.rcv_nxt, seg.seqno + 1, seg.seqno + len - 1)
        cut == IF trims THEN Seg(p.rcv_nxt, SubSeq(seg.data, off + 1, Len(seg.data)), seg.flags)
                        ELSE seg
        s == IF ~trims /\ TCP_SEQ_LT(seg.seqno, p.rcv_nxt) THEN tcp_ack_now(r) ELSE r
        inside(n) == TCP_SEQ_BETWEEN(n, p.rcv_nxt, p.rcv_nxt + p.rcv_wnd - 1)
    IN  IF len > 0 /\ p.state \in {"ESTABLISHED", "FIN_WAIT_1", "FIN_WAIT_2"}
        THEN IF ~inside(cut.seqno) THEN tcp_send_empty_ack(s)
             ELSE IF cut.seqno = p.rcv_nxt THEN InSequence(s, cut)
             ELSE tcp_send_empty_ack([s EXCEPT !.p.ooseq = Queue(p, cut)])
        ELSE IF ~inside(m.seqno) THEN tcp_ack_now(r) ELSE r

\* The segments at the front of q that ackno acknowledges as a whole.
Acked(q, ackno) ==
    Max({0} \cup {k \in DOMAIN q : \A i \in 1 .. k : TCP_SEQ_LEQ(After(q[i]), ackno)})

tcp_free_acked_segments(q, ackno) == SubSeq(q, Acked(q, ackno) + 1, Len(q))

\* An acknowledgement of something new.
NewAck(p, ackno) ==
    LET unacked == tcp_free_acked_segments(p.unacked, ackno)
        unsent == tcp_free_acked_segments(p.unsent, ackno)
        acked == Len(Data(p.unacked \o p.unsent)) - Len(Data(unacked \o unsent))
    IN  [p EXCEPT !.INFR = FALSE, !.nrtx = 0, !.dupacks = 0, !.lastack = ackno,
                  !.unacked = unacked, !.unsent = unsent,
                  !.rtime = unacked # <<>>, !.snd_buf = @ + acked]

\* Mutant: every acknowledgement counts as news.
AnyWindow(p, m) == TRUE

\* Does m say something about the window that is newer than what is known?
NewerWindow(p, m) ==
    \/ TCP_SEQ_LT(p.snd_wl1, m.seqno)
    \/ p.snd_wl1 = m.seqno /\ TCP_SEQ_LT(p.snd_wl2, m.ackno)
    \/ p.snd_wl2 = m.ackno /\ m.wnd > p.snd_wnd

UpdateWindow(p, m) ==
    IF NewerWindow(p, m)
    THEN [p EXCEPT !.snd_wnd = m.wnd, !.snd_wnd_max = Max({@, m.wnd}),
                   !.snd_wl1 = m.seqno, !.snd_wl2 = m.ackno]
    ELSE p

\* The part of tcp_receive that is about the acknowledgement. Above 3, the
\* count of duplicates only matters for the congestion window.
ReceiveAck(r, m) ==
    LET p == UpdateWindow(r.p, m)
        same == Mod(p.snd_wl2 + p.snd_wnd) = Mod(r.p.snd_wl2 + r.p.snd_wnd)
        dup == TCP_TCPLEN(m) = 0 /\ same /\ p.rtime /\ p.lastack = m.ackno
        n == Min({p.dupacks + 1, 3})
        q == [p EXCEPT !.dupacks = n]
    IN  IF TCP_SEQ_LEQ(m.ackno, p.lastack)
        THEN [r EXCEPT !.p = IF ~dup THEN [p EXCEPT !.dupacks = 0]
                             ELSE IF n = 3 THEN tcp_rexmit_fast(q) ELSE q]
        ELSE IF TCP_SEQ_BETWEEN(m.ackno, p.lastack + 1, p.snd_nxt)
        THEN [r EXCEPT !.p = NewAck(p, m.ackno)]
        ELSE tcp_send_empty_ack([r EXCEPT !.p = p])

tcp_receive(r, m) == ReceiveData(IF "ACK" \in m.flags THEN ReceiveAck(r, m) ELSE r, m)

tcp_pcb_purge(p) ==
    [p EXCEPT !.refused_data = <<>>, !.refused_fin = FALSE, !.unsent = <<>>,
              !.unacked = <<>>, !.ooseq = <<>>, !.rtime = FALSE]

\* The control block goes; an application that still has it is told.
Free(r) ==
    [r EXCEPT !.p = tcp_alloc, !.freed = TRUE,
              !.a.st = IF @ \in {"open", "shut"} THEN "err" ELSE @]

Rst(r, seqno, ackno) == [r EXCEPT !.out = @ \cup {tcp_rst(r.h, seqno, ackno)}]

\* tcp_abort while tcp_input works on the same control block.
Abort(r) == Free(Rst(r, r.p.snd_nxt, r.p.rcv_nxt))

Established(p, m) ==
    LET waits == IF p.unacked # <<>> THEN Tail(p.unacked) ELSE <<>>
    IN  [p EXCEPT !.state = "ESTABLISHED", !.cwnd = 1,
                  !.rcv_nxt = Mod(m.seqno + 1), !.rcv_ann_right_edge = Mod(m.seqno + 1),
                  !.lastack = m.ackno, !.snd_wnd = m.wnd, !.snd_wnd_max = m.wnd,
                  !.snd_wl1 = Mod(m.seqno - 1),
                  !.unsent = IF p.unacked # <<>> THEN @ ELSE Tail(@),
                  !.unacked = waits, !.rtime = waits # <<>>,
                  !.nrtx = IF waits # <<>> THEN 0 ELSE @]

SynSent(r, m) ==
    LET p == r.p
        retries == p.nrtx < TCP_SYNMAXRTX
        again == IF p.unacked # <<>> THEN [tcp_rexmit_rto_prepare(p) EXCEPT !.nrtx = Bump(@)] ELSE p
        s == Rst(r, m.ackno, m.seqno + TCP_TCPLEN(m))
    IN  IF {"ACK", "SYN"} \subseteq m.flags /\ m.ackno = Mod(p.lastack + 1)
        THEN tcp_ack_now([r EXCEPT !.p = Established(p, m)])
        ELSE IF "ACK" \notin m.flags THEN r
        ELSE IF retries THEN [s EXCEPT !.p = [again EXCEPT !.rtime = TRUE]] ELSE s

\* accept: what the accept callback answers.
SynRcvd(r, m, accept) ==
    LET p == r.p
        s == tcp_receive([r EXCEPT !.p.state = "ESTABLISHED", !.p.cwnd = 1, !.a.st = "open"], m)
    IN  IF "ACK" \in m.flags
        THEN IF ~TCP_SEQ_BETWEEN(m.ackno, p.lastack + 1, p.snd_nxt)
             THEN Rst(r, m.ackno, m.seqno + TCP_TCPLEN(m))
             ELSE IF ~accept THEN Abort(r)
             ELSE IF s.GOT_FIN THEN tcp_ack_now([s EXCEPT !.p.state = "CLOSE_WAIT"])
             ELSE s
        ELSE IF "SYN" \in m.flags /\ m.seqno = Mod(p.rcv_nxt - 1) /\ p.unacked # <<>>
        THEN [r EXCEPT !.p = tcp_rexmit(p)]
        ELSE r

\* The states in which the connection carries data or is being closed.
Synchronized(r, m) ==
    LET s == tcp_receive(r, m)
        acked == "ACK" \in m.flags /\ m.ackno = s.p.snd_nxt /\ s.p.unsent = <<>>
        to(state) == [s EXCEPT !.p.state = state]
        timewait == [s EXCEPT !.p = [tcp_pcb_purge(@) EXCEPT !.state = "TIME_WAIT"]]
    IN  CASE r.p.state \in {"ESTABLISHED", "CLOSE_WAIT"} ->
                IF s.GOT_FIN THEN tcp_ack_now(to("CLOSE_WAIT")) ELSE s
          [] r.p.state = "FIN_WAIT_1" ->
                IF s.GOT_FIN THEN tcp_ack_now(IF acked THEN timewait ELSE to("CLOSING"))
                ELSE IF acked THEN to("FIN_WAIT_2") ELSE s
          [] r.p.state = "FIN_WAIT_2" -> IF s.GOT_FIN THEN tcp_ack_now(timewait) ELSE s
          [] r.p.state = "CLOSING" -> IF acked THEN timewait ELSE s
          [] r.p.state = "LAST_ACK" -> IF acked THEN Free(s) ELSE s

tcp_process(r, m, accept) ==
    LET p == r.p
        opening == p.state \in {"SYN_SENT", "SYN_RCVD"}
        acceptable == IF p.state = "SYN_SENT" THEN m.ackno = p.snd_nxt ELSE m.seqno = p.rcv_nxt
        inside == TCP_SEQ_BETWEEN(m.seqno, p.rcv_nxt, p.rcv_nxt + p.rcv_wnd)
        s == [r EXCEPT !.p.persist_probe = 0]
    IN  IF "RST" \in m.flags
        THEN IF acceptable THEN Free(r)
             ELSE IF p.state # "SYN_SENT" /\ inside THEN tcp_ack_now(r)
             ELSE r
        ELSE IF "SYN" \in m.flags /\ ~opening THEN tcp_ack_now(r)
        ELSE CASE p.state = "SYN_SENT" -> SynSent(s, m)
               [] p.state = "SYN_RCVD" -> SynRcvd(s, m, accept)
               [] OTHER -> Synchronized(s, m)

\* The recv callback: the application takes data, or the end of the stream.
Take(r, data) == [r EXCEPT !.a.got = @ \o data, !.a.unread = @ + Len(data)]

\* Mutant: the sequence number of the FIN is not given back.
EofKept(r) == [r EXCEPT !.a.eof = @ \/ r.a.st \in {"open", "shut"}]

Eof(r) ==
    [r EXCEPT !.p.rcv_wnd = Min({TCP_WND, @ + 1}),
              !.a.eof = @ \/ r.a.st \in {"open", "shut"}]

tcp_process_refused_data(r, take) ==
    LET s == Take([r EXCEPT !.p.refused_data = <<>>, !.p.refused_fin = FALSE], r.p.refused_data)
    IN  IF r.p.refused_data = <<>> \/ ~take THEN r
        ELSE IF r.p.refused_fin THEN Eof(s) ELSE s

\* What tcp_input does with what tcp_process leaves for the application.
Upcall(r, take) ==
    LET s == IF r.recv_data = <<>> THEN r
             ELSE IF take THEN Take(r, r.recv_data)
             ELSE [r EXCEPT !.p.refused_data = r.recv_data]
    IN  IF r.recv_data # <<>> /\ r.p.RXCLOSED THEN Abort(r)
        ELSE IF ~r.GOT_FIN THEN s
        ELSE IF s.p.refused_data # <<>> THEN [s EXCEPT !.p.refused_fin = TRUE]
        ELSE Eof(s)

\* A segment for a connection that exists. again: the answer for the data
\* that was refused before; take: the answer for what m brings.
Active(r, m, accept, again, take, cw) ==
    LET s == tcp_process_refused_data(r, again)
        t == tcp_process(s, m, accept)
        u == Upcall(t, take)
    IN  IF s.p.refused_data # <<>> /\ TCP_TCPLEN(m) > 0
        THEN IF s.p.rcv_ann_wnd = 0 THEN tcp_send_empty_ack(s) ELSE s
        ELSE IF t.freed \/ u.freed THEN (IF t.freed THEN t ELSE u)
        ELSE tcp_output(u, cw)

tcp_timewait_input(r, m, cw) ==
    LET inside == TCP_SEQ_BETWEEN(m.seqno, r.p.rcv_nxt, r.p.rcv_nxt + r.p.rcv_wnd)
    IN  IF "RST" \in m.flags THEN r
        ELSE IF "SYN" \in m.flags /\ inside THEN Rst(r, m.ackno, m.seqno + TCP_TCPLEN(m))
        ELSE IF TCP_TCPLEN(m) > 0 THEN tcp_output(tcp_ack_now(r), cw)
        ELSE r

tcp_listen_input(r, m) ==
    LET iss == ISS[r.h][made[r.h] + 1]
        p == [tcp_alloc EXCEPT !.state = "SYN_RCVD",
                !.rcv_nxt = Mod(m.seqno + 1), !.rcv_ann_right_edge = Mod(m.seqno + 1),
                !.snd_wl2 = iss, !.snd_nxt = iss, !.lastack = iss, !.snd_lbb = iss,
                !.snd_wl1 = Mod(m.seqno - 1), !.snd_wnd = m.wnd, !.snd_wnd_max = m.wnd]
    IN  tcp_output([r EXCEPT !.p = tcp_enqueue_flags(p, "SYN")], 1)

---------------------------------------------------------------------------
(* The steps. A handler that fails an assertion stops its host.             *)

Running(h) == asserted[h] = ""
Has(h) == app[h].st \in {"open", "shut"} /\ pcb[h].state # "CLOSED"

\* A FIN on a segment of p, and bytes behind it.
EarlyFin(p, a) ==
    \E m \in Range(p.unsent \o p.unacked) :
        "FIN" \in m.flags /\ m.data # <<>> /\ Last(m.data) < a.wrote

Commit(h, r) ==
    /\ UNCHANGED scene
    /\ IF r.assert # ""
       THEN /\ asserted' = [asserted EXCEPT ![h] = r.assert]
            /\ UNCHANGED <<pcb, app, net, early>>
       ELSE /\ pcb' = [pcb EXCEPT ![h] = r.p]
            /\ app' = [app EXCEPT ![h] = r.a]
            /\ LET all == net \cup r.out
               IN  net' \in kSubset(Min({scene.net, Cardinality(all)}), all)
            /\ early' = [early EXCEPT ![h] = @ \/ EarlyFin(r.p, r.a)]
            /\ UNCHANGED asserted

Init ==
    /\ scene \in SCENES
    /\ pcb = [h \in Hosts |-> tcp_alloc]
    /\ made = [h \in Hosts |-> 0]
    /\ app = [h \in Hosts |-> [st |-> "none", wrote |-> 0, shut |-> FALSE, got |-> <<>>,
                               unread |-> 0, eof |-> FALSE]]
    /\ net = {}
    /\ asserted = [h \in Hosts |-> ""]
    /\ early = [h \in Hosts |-> FALSE]

tcp_connect ==
    /\ Running("c") /\ pcb["c"].state = "CLOSED" /\ made["c"] < scene.pcbs
    /\ made' = [made EXCEPT !["c"] = @ + 1]
    /\ LET iss == ISS["c"][made["c"] + 1]
           p == [tcp_alloc EXCEPT !.snd_nxt = iss, !.lastack = Mod(iss - 1),
                    !.snd_wl2 = Mod(iss - 1), !.snd_lbb = Mod(iss - 1), !.snd_wnd = TCP_WND]
           q == [tcp_enqueue_flags(p, "SYN") EXCEPT !.state = "SYN_SENT"]
       IN  Commit("c", tcp_output([Ctx("c") EXCEPT !.p = q, !.a.st = "open"], 1))

\* The answers of a callback that is called if cond holds.
Answers(cond) == IF cond THEN scene.takes ELSE {TRUE}

\* A segment for a host that has a control block for it.
Arrive(h, m) ==
    /\ pcb[h].state # "CLOSED"
    /\ UNCHANGED made
    /\ \E accept \in Answers(pcb[h].state = "SYN_RCVD"),
          again \in Answers(pcb[h].refused_data # <<>>),
          take \in Answers(m.data # <<>>),
          cw \in scene.cwnds :
          Commit(h, IF pcb[h].state = "TIME_WAIT" THEN tcp_timewait_input(Ctx(h), m, cw)
                    ELSE Active(Ctx(h), m, accept, again, take, cw))

\* A segment for the listening control block.
Listen(h, m) ==
    /\ pcb[h].state = "CLOSED" /\ h = "s" /\ "RST" \notin m.flags
    /\ IF "ACK" \in m.flags
       THEN UNCHANGED made /\ Commit(h, Rst(Ctx(h), m.ackno, m.seqno + TCP_TCPLEN(m)))
       ELSE /\ "SYN" \in m.flags /\ made[h] < scene.pcbs
            /\ made' = [made EXCEPT ![h] = @ + 1]
            /\ Commit(h, tcp_listen_input(Ctx(h), m))

\* A segment for nobody.
NoMatch(h, m) ==
    /\ pcb[h].state = "CLOSED" /\ h = "c" /\ "RST" \notin m.flags
    /\ UNCHANGED made
    /\ Commit(h, Rst(Ctx(h), m.ackno, m.seqno + TCP_TCPLEN(m)))

tcp_input(h) ==
    \E m \in net :
        /\ Running(h) /\ m.from = Peer(h)
        /\ Arrive(h, m) \/ Listen(h, m) \/ NoMatch(h, m)

\* tcp_write: fill up the last unsent segment, then make new ones.
Chunks(data, seqno, size) ==
    [i \in 1 .. (Len(data) + size - 1) \div size |->
        Seg(seqno + (i - 1) * size,
            SubSeq(data, (i - 1) * size + 1, Min({i * size, Len(data)})), {})]

Write(r, data) ==
    LET p == r.p
        half == Min({TCP_MSS, p.snd_wnd_max \div 2})
        mss_local == IF half = 0 THEN TCP_MSS ELSE half
        open == p.unsent # <<>> /\ Last(p.unsent).data # <<>>
        space == IF open THEN mss_local - Len(Last(p.unsent).data) ELSE 0
        n == Min({space, Len(data)})
        queue == IF n > 0 THEN [p.unsent EXCEPT ![Len(p.unsent)].data = @ \o SubSeq(data, 1, n)]
                          ELSE p.unsent
        rest == Chunks(SubSeq(data, n + 1, Len(data)), p.snd_lbb + n, mss_local)
        s == LWIP_ASSERT(r, "mss_local is too small", space >= 0)
    IN  [s EXCEPT !.p.unsent = queue \o rest,
                  !.p.snd_lbb = Mod(@ + Len(data)),
                  !.p.snd_buf = @ - Len(data),
                  !.a.wrote = @ + Len(data)]

\* The application writes n bytes and has them sent. When there is no room,
\* nothing is taken, and what Nagle holds back goes out (TF_NAGLEMEMERR).
tcp_write(h) ==
    /\ Running(h) /\ Has(h)
    /\ pcb[h].state \in {"SYN_SENT", "SYN_RCVD", "ESTABLISHED", "CLOSE_WAIT"}
    /\ UNCHANGED made
    /\ \E n \in scene.sizes \cap 1 .. (scene.writes[h] - app[h].wrote), cw \in scene.cwnds :
          LET data == [i \in 1 .. n |-> app[h].wrote + i]
          IN  Commit(h, IF n > pcb[h].snd_buf
                        THEN tcp_output([Ctx(h) EXCEPT !.p.NAGLEMEMERR = TRUE], cw)
                        ELSE tcp_output(Write(Ctx(h), data), cw))

\* TCP_WND_UPDATE_THRESHOLD: the increase that is announced at once.
THRESHOLD == Min({TCP_WND \div 4, TCP_MSS * 4})

tcp_recved(h) ==
    /\ Running(h) /\ Has(h)
    /\ UNCHANGED made
    /\ \E n \in 1 .. app[h].unread, cw \in scene.cwnds :
          LET p == [pcb[h] EXCEPT !.rcv_wnd = Min({TCP_WND, @ + n})]
              q == tcp_update_rcv_ann_wnd(p)
              edge == Mod(p.rcv_nxt + p.rcv_wnd)
              grows == TCP_SEQ_GEQ(edge, p.rcv_ann_right_edge + Min({TCP_WND \div 2, TCP_MSS}))
              inflation == IF grows THEN Mod(edge - p.rcv_ann_right_edge) ELSE 0
              s == [Ctx(h) EXCEPT !.p = q, !.a.unread = @ - n]
          IN  Commit(h, IF inflation >= THRESHOLD THEN tcp_output(tcp_ack_now(s), cw) ELSE s)

tcp_close_shutdown_fin(r, cw) ==
    LET to == IF r.p.state = "CLOSE_WAIT" THEN "LAST_ACK" ELSE "FIN_WAIT_1"
    IN  IF r.p.state \in {"SYN_RCVD", "ESTABLISHED", "CLOSE_WAIT"}
        THEN tcp_output([r EXCEPT !.p = [tcp_send_fin(r.p) EXCEPT !.state = to], !.a.shut = TRUE], cw)
        ELSE r

\* Data that the application has not taken, or not reported as read, makes a
\* close a reset.
tcp_close(h) ==
    /\ Running(h) /\ Has(h) /\ <<h, "close">> \in scene.calls
    /\ UNCHANGED made
    /\ \E cw \in scene.cwnds :
          LET r == [Ctx(h) EXCEPT !.p.RXCLOSED = TRUE, !.a.st = "closed"]
              p == r.p
              resets == /\ p.state \in {"ESTABLISHED", "CLOSE_WAIT"}
                        /\ p.refused_data # <<>> \/ p.rcv_wnd # TCP_WND
          IN  Commit(h, IF resets THEN Free(Rst(r, p.snd_nxt, p.rcv_nxt))
                        ELSE IF p.state = "SYN_SENT" THEN Free(r)
                        ELSE tcp_close_shutdown_fin(r, cw))

\* tcp_shutdown of the sending side only.
tcp_shutdown(h) ==
    /\ Running(h) /\ Has(h) /\ <<h, "shutdown">> \in scene.calls
    /\ pcb[h].state \in {"SYN_RCVD", "ESTABLISHED", "CLOSE_WAIT"}
    /\ UNCHANGED made
    /\ \E cw \in scene.cwnds : Commit(h, tcp_close_shutdown_fin([Ctx(h) EXCEPT !.a.st = "shut"], cw))

\* tcp_pcb_remove sends an acknowledgement that is being delayed.
tcp_abort(h) ==
    /\ Running(h) /\ Has(h) /\ <<h, "abort">> \in scene.calls
    /\ UNCHANGED made
    /\ LET r == Ctx(h)
           s == IF r.p.ACK_DELAY
                THEN tcp_send_empty_ack([r EXCEPT !.p = tcp_pcb_purge(@)]) ELSE r
       IN  Commit(h, IF r.p.state = "TIME_WAIT" THEN Free(r) ELSE Abort(s))

tcp_fasttmr(h) ==
    /\ Running(h)
    /\ pcb[h].state \notin {"CLOSED", "TIME_WAIT"}
    /\ pcb[h].ACK_DELAY \/ pcb[h].refused_data # <<>>
    /\ UNCHANGED made
    /\ \E take \in Answers(pcb[h].refused_data # <<>>), cw \in scene.cwnds :
          LET r == Ctx(h)
              s == IF r.p.ACK_DELAY THEN NoAck(tcp_output(tcp_ack_now(r), cw)) ELSE r
          IN  Commit(h, tcp_process_refused_data(s, take))

\* One of the two timers of the control block has run out.
Timeout(r, cw) ==
    LET p == r.p
        s == LWIP_ASSERT(LWIP_ASSERT(r, "persist ticking with in-flight data", p.unacked = <<>>),
                         "persist ticking with empty send buffer", p.unsent # <<>>)
        again == tcp_rexmit_rto_prepare(p)
    IN  IF p.persist
        THEN IF s.assert # "" THEN s
             ELSE IF p.persist_probe >= TCP_MAXRTX THEN Free(r)
             ELSE IF p.snd_wnd = 0 THEN tcp_zero_window_probe(r)
             ELSE tcp_output([r EXCEPT !.p = tcp_split_unsent_seg(p, p.snd_wnd)], cw)
        ELSE IF again.unsent = <<>> \/ ~p.rtime THEN r
        ELSE tcp_output([r EXCEPT !.p = [again EXCEPT !.rtime = TRUE, !.nrtx = Bump(@), !.cwnd = TCP_MSS]], cw)

\* What can happen at a tick: the retransmission or persist timer runs out
\* (fire), or the time for a state or for ooseq is up, or none of these (tick).
Limited(p) ==
    \/ p.state \in {"SYN_RCVD", "LAST_ACK", "TIME_WAIT"}
    \/ p.state = "FIN_WAIT_2" /\ p.RXCLOSED

Events(p) ==
    {"tick"} \cup (IF p.rtime \/ p.persist THEN {"fire"} ELSE {})
             \cup (IF Limited(p) THEN {"state"} ELSE {})
             \cup (IF p.ooseq # <<>> THEN {"ooseq"} ELSE {})

tcp_slowtmr(h) ==
    /\ Running(h) /\ pcb[h].state # "CLOSED"
    /\ UNCHANGED made
    /\ \E what \in Events(pcb[h]), cw \in scene.cwnds :
          LET r == Ctx(h)
              p == r.p
              full == p.nrtx >= (IF p.state = "SYN_SENT" THEN TCP_SYNMAXRTX ELSE TCP_MAXRTX)
              s == CASE what = "fire" -> Timeout(r, cw)
                     [] what = "ooseq" -> [r EXCEPT !.p.ooseq = <<>>]
                     [] OTHER -> r
          IN  Commit(h, IF full \/ what = "state" THEN Free(r)
                        ELSE IF s.freed \/ s.assert # "" THEN s
                        ELSE tcp_output(s, cw))

Next ==
    \/ tcp_connect
    \/ \E h \in Hosts :
          \/ tcp_input(h) \/ tcp_fasttmr(h) \/ tcp_slowtmr(h)
          \/ tcp_write(h) \/ tcp_recved(h)
          \/ tcp_close(h) \/ tcp_shutdown(h) \/ tcp_abort(h)

Spec == Init /\ [][Next]_vars

---------------------------------------------------------------------------
(* Properties.                                                              *)

\* The pcb of h carries, or has carried, data, and has not lost its queues.
Open(h) == pcb[h].state \notin {"CLOSED", "TIME_WAIT"}
Synced(h) == pcb[h].state \notin {"CLOSED", "SYN_SENT", "SYN_RCVD", "TIME_WAIT"}

\* The sequence number of the first byte of h: tcp_connect starts one lower.
First(h) == Mod(ISS[h][made[h]] + (IF h = "c" THEN 0 ELSE 1))
Occupies(seg, x) == Mod(x - seg.seqno) < TCP_TCPLEN(seg)
InOrder(q) == \A i, j \in DOMAIN q : i < j => TCP_SEQ_LT(q[i].seqno, q[j].seqno)

\* However segments move between unsent and unacked (tcp_output, timeouts, fast
\* retransmits, partial acknowledgements), the two are sorted and hold every
\* sequence number that is not acknowledged in exactly one segment, with the
\* byte that belongs there, and snd_buf counts the room that they leave.
SendQueueExact ==
    \A h \in Hosts : Open(h) /\ ~early[h] =>
        LET p == pcb[h]
            all == p.unacked \o p.unsent
            end == First(h) + app[h].wrote + (IF p.FIN THEN 1 ELSE 0)
        IN  /\ InOrder(p.unacked) /\ InOrder(p.unsent)
            /\ \A k \in 0 .. Mod(end - p.lastack) - 1 :
                  Cardinality({i \in DOMAIN all : Occupies(all[i], p.lastack + k)}) = 1
            /\ \A i \in DOMAIN all : \A j \in DOMAIN all[i].data :
                  all[i].data[j] = Mod(all[i].seqno + j - First(h))
            /\ p.snd_buf + Len(Data(all)) = TCP_SND_BUF

\* The two ends are of the same connection, also when old segments turn up or
\* one side has started anew: what the peer expects next lies between what h
\* knows to be acknowledged and what h has sent.
EndsAgree ==
    \A h \in Hosts : Synced(h) /\ Synced(Peer(h)) /\ ~early[h] =>
        LET rcv_nxt == pcb[Peer(h)].rcv_nxt
        IN  /\ TCP_SEQ_BETWEEN(rcv_nxt, pcb[h].lastack, pcb[h].snd_nxt)
            /\ Mod(rcv_nxt - First(h)) <= app[h].wrote + 1

\* What has arrived out of order is sorted, ahead of rcv_nxt, not overlapping,
\* the right bytes, and ends with the first FIN.
OoseqExact ==
    \A h \in Hosts : Open(h) /\ ~early[Peer(h)] =>
        LET q == pcb[h].ooseq
        IN  /\ \A i \in DOMAIN q : TCP_SEQ_GT(q[i].seqno, pcb[h].rcv_nxt)
            /\ \A i \in DOMAIN q : i < Len(q) =>
                  TCP_SEQ_LEQ(After(q[i]), q[i + 1].seqno) /\ "FIN" \notin q[i].flags
            /\ \A i \in DOMAIN q : \A j \in DOMAIN q[i].data :
                  q[i].data[j] = Mod(q[i].seqno + j - First(Peer(h)))

\* The receive window and what the application has not yet given back by
\* tcp_recved make up TCP_WND, whatever is refused, cut or reported late.
WindowExact ==
    \A h \in Hosts : Synced(h) =>
        LET p == pcb[h]
        IN  p.rcv_wnd + app[h].unread + Len(p.refused_data)
                + (IF p.refused_fin THEN 1 ELSE 0) = TCP_WND

\* Data in flight was announced room for by the peer, whatever order the
\* announcements arrive in: only the byte of a probe goes past it.
SenderInWindow ==
    \A h \in Hosts : Synced(Peer(h)) =>
        LET edge == pcb[Peer(h)].rcv_ann_right_edge
        IN  \A m \in net : m.from = h /\ m.data # <<>> =>
                IF Len(m.data) = 1 THEN TCP_SEQ_LEQ(m.seqno, edge)
                                   ELSE TCP_SEQ_LEQ(m.seqno + Len(m.data), edge)

\* Something in flight has the retransmission timer running, and something
\* that waits has a timer, or something in flight, that will move it.
TimerRuns ==
    \A h \in Hosts : Open(h) /\ Running(h) =>
        LET p == pcb[h]
        IN  /\ p.unacked # <<>> => p.rtime
            /\ p.unsent # <<>> => p.rtime \/ p.persist

\* Of the assertions, only two kinds can fail: the persist timer may run with
\* nothing to send, and a FIN may reach past the receive window.
OnlyKnownAsserts ==
    \A h \in Hosts :
        \/ Running(h)
        \/ asserted[h] = "persist ticking with empty send buffer"
        \/ asserted[h] \in {"tcplen > rcv_wnd", "ooseq tcplen > rcv_wnd"} /\ app[Peer(h)].shut

\* tcp_split_unsent_seg says that it migrates the flags of a segment it splits:
\* a FIN goes out with the last byte, or alone.
FinMigrates == \A h \in Hosts : ~early[h]

Stream == INSTANCE ByteStream WITH
    wrote <- [h \in Hosts |-> app[h].wrote],
    shut <- [h \in Hosts |-> app[h].shut],
    got <- [h \in Hosts |-> app[h].got],
    eof <- [h \in Hosts |-> app[h].eof]

\* What the recv callbacks get is what the other application has written, in
\* order, without gaps and once, and the end of the stream comes after the whole
\* of it: until tcp_split_unsent_seg has put a FIN too early.
ImplementsByteStream == Stream!Init /\ [][Stream!Next \/ ~FinMigrates']_(Stream!vars)
=============================================================================
