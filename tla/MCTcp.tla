------------------------------- MODULE MCTcp -------------------------------
(* A small instance of Tcp: the sequence numbers wrap during the connection. *)
EXTENDS Tcp

MCISS == [h \in {"c", "s"} |-> IF h = "c" THEN <<30, 10>> ELSE <<31, 12>>]

Scene(c, s, sizes, calls, takes, cwnds, size, pcbs) ==
    [writes |-> [h \in {"c", "s"} |-> IF h = "c" THEN c ELSE s], sizes |-> sizes,
     calls |-> calls, takes |-> takes, cwnds |-> cwnds, net |-> size, pcbs |-> pcbs]

\* Segments and acknowledgements lost, repeated and out of order, then the end.
\* The congestion window may be the smaller one.
Transfer == Scene(2, 0, {2}, {<<"c", "shutdown">>}, {TRUE}, {2, 4}, 2, 1)

\* More data than the window.
Reorder == Scene(6, 0, {2}, {}, {TRUE}, {4}, 2, 1)

\* Both sides write.
Duplex == Scene(1, 1, {1}, {}, {TRUE}, {4}, 2, 1)

\* The window closes: the receiver refuses data or is slow to read it.
Window == Scene(5, 0, {1, 4}, {}, {TRUE, FALSE}, {4}, 1, 1)

\* The window closes in front of a FIN.
Split == Scene(5, 0, {2, 3}, {<<"c", "close">>}, {TRUE}, {4}, 1, 1)

\* Both sides close, in any order, one of them for sending only.
Close == Scene(0, 0, {}, {<<"c", "close">>, <<"s", "shutdown">>}, {TRUE}, {4}, 2, 1)

\* Connections are given up and made again while old segments are about.
Reopen == Scene(0, 0, {}, {<<"c", "abort">>, <<"s", "abort">>}, {TRUE, FALSE}, {4}, 3, 2)

MCSCENES == {Transfer, Reorder, Duplex, Window, Split, Close, Reopen}
SplitOnly == {Split}
=============================================================================
