---------------------------- MODULE DeviceProofs ----------------------------
(***************************************************************************)
(* Proofs about the device layer. First the object nodes: where each of     *)
(* them is, and which hal_sysdie a service can run into. Then the handles:  *)
(* what a device's counter counts, and that the services implement the      *)
(* table of handles that HandleTable describes.                             *)
(***************************************************************************)
EXTENDS Device, FiniteSetTheorems, WellFoundedInduction, TLAPS

\* A thread's place: outside, in a service, or in the one hal_sysdie that is
\* ever reached.
Steps == {"add", "open", "inc", "res", "del", "rw", "dec", "delhand"}
Service == [pc : Steps, node : Nodes, hand : Hands \cup {NO_HAND}]
Dead == [pc : {"die"}, node : Nodes, hand : Hands \cup {NO_HAND}, why : {"open sve die^^^^^^"}]
Places == {Idle} \cup Service \cup Dead

TypeInv ==
    /\ boot \in 0 .. Len(osdrvetytabl) + 1
    /\ osdevtable \subseteq Devices
    /\ dev_count \in [Devices -> Nat]
    /\ td_handtbl \in [Threads -> [Hands -> Nodes \cup {NULL}]]
    /\ node \in [Nodes -> Node \cup {NULL}]
    /\ loc \in [Threads -> Places]
    /\ lost \subseteq Nodes

\* Thread t has node n in its table; it has a node that is not there.
Has(t, n) == \E h \in Hands : td_handtbl[t][h] = n
Carries(t, n) == loc[t].pc # "user" /\ loc[t].node = n /\ ~ Has(t, n)

\* The service that t is in works on the handle that leads to its node.
Holds(t) == loc[t].hand \in Hands /\ td_handtbl[t][loc[t].hand] = loc[t].node

\* That handle was the first free one.
LowerFilled(t) == \A g \in Hands : g < loc[t].hand => td_handtbl[t][g] # NULL

\* What t's place in a service says of its node and its handle.
PlaceOK(t) ==
    loc[t].pc # "user" =>
        /\ node[loc[t].node] # NULL
        /\ loc[t].pc \in {"inc", "rw", "dec", "delhand", "die"} => Holds(t)
        /\ loc[t].pc \in {"open", "res"} => loc[t].hand = NO_HAND \/ Holds(t)
        /\ loc[t].pc = "open" => (loc[t].hand = NO_HAND <=> node[loc[t].node].acsflgs = "NEWFILE")
        /\ loc[t].pc = "add" => node[loc[t].node].acsflgs # "NEWFILE" /\ loc[t].hand = NO_HAND
        /\ loc[t].pc \in {"open", "inc"} => loc[t].hand = NO_HAND \/ LowerFilled(t)
        /\ loc[t].pc \in {"inc", "dec"} => node[loc[t].node].dev \in {"uart", "systick"}
        /\ loc[t].hand = NO_HAND \/ loc[t].pc = "del" => ~ Has(t, loc[t].node)

\* NodesExact, node by node: no two handles lead to one node, ...
HandlesApart ==
    \A t, u \in Threads, h, g \in Hands :
        td_handtbl[t][h] # NULL /\ td_handtbl[t][h] = td_handtbl[u][g] => t = u /\ h = g

\* ... a node is not in two places, ...
OnePlace ==
    /\ \A t, u \in Threads, n \in Nodes : Carries(t, n) /\ Carries(u, n) => t = u
    /\ \A t, u \in Threads, n \in Nodes : ~ (Has(t, n) /\ Carries(u, n))
    /\ \A t \in Threads, n \in Nodes : Has(t, n) \/ Carries(t, n) => n \notin lost

\* ... and is in one if it is not free.
SomePlace ==
    \A n \in Nodes :
        node[n] # NULL <=> n \in lost \/ \E t \in Threads : Has(t, n) \/ Carries(t, n)

Apart == HandlesApart /\ OnePlace /\ SomePlace

NodesInv == TypeInv /\ Apart /\ \A t \in Threads : PlaceOK(t)

-----------------------------------------------------------------------------
(* Places and devices.                                                      *)

\* The drivers' devices.
LEMMA DevicesAre == Devices = {"systick", "rfs", "uart"}
BY DEF Devices, osdrvetytabl, Range

\* A place that is a step of a service has the fields of one.
LEMMA ServiceFields ==
    ASSUME NEW l \in Places, l.pc \in Steps
    PROVE  l \in Service
<1>1. CASE l = Idle  BY <1>1 DEF Idle, Steps
<1>2. CASE l \in Service  BY <1>2
<1>3. CASE l \in Dead  BY <1>3 DEF Dead, Steps
<1>4. QED  BY <1>1, <1>2, <1>3 DEF Places

\* A service goes on to another step with its node and its handle.
LEMMA NextStep ==
    ASSUME NEW l \in Service, NEW pc \in Steps
    PROVE  LET k == [l EXCEPT !.pc = pc]
           IN  k \in Places /\ k.pc = pc /\ k.node = l.node /\ k.hand = l.hand
BY DEF Places, Service

\* Every place but the one outside has a node.
LEMMA PlaceNode ==
    ASSUME NEW l \in Places, l.pc # "user"
    PROVE  l.node \in Nodes /\ l.hand \in Hands \cup {NO_HAND}
<1>1. CASE l = Idle  BY <1>1 DEF Idle
<1>2. CASE l \in Service  BY <1>2 DEF Service
<1>3. CASE l \in Dead  BY <1>3 DEF Dead
<1>4. QED  BY <1>1, <1>2, <1>3 DEF Places

\* A node is made for one of the three devices, a new file's for the file system.
LEMMA NodeFields ==
    ASSUME NEW o \in Node
    PROVE  /\ o # NULL
           /\ o.dev \in Devices
           /\ o.acsflgs \in {"NEWFILE", "OPEFILE"} => o.dev = "rfs"
BY DeviceAssumption DEF Node, Requests

-----------------------------------------------------------------------------
(* Where the nodes are.                                                     *)

\* A step of one thread that leaves the tables and the nodes alone, and the
\* node that the thread carries.
LEMMA QuietStep ==
    ASSUME NodesInv, NEW t \in Threads, NEW l \in Places, Go(t, l),
           UNCHANGED <<booted, td_handtbl, node, lost>>,
           dev_count' \in [Devices -> Nat],
           \A n \in Nodes : Carries(t, n)' <=> Carries(t, n),
           PlaceOK(t)'
    PROVE  NodesInv'
<1>1. \A u \in Threads : loc'[u] = IF u = t THEN l ELSE loc[u]
  BY DEF NodesInv, TypeInv, Go
<1>2. \A u \in Threads, n \in Nodes : Has(u, n)' <=> Has(u, n)
  BY DEF Has
<1>3. \A u \in Threads, n \in Nodes : Carries(u, n)' <=> Carries(u, n)
  BY <1>1 DEF Carries, Has
<1>4. Apart'
  BY <1>2, <1>3 DEF NodesInv, Apart, HandlesApart, OnePlace, SomePlace
<1>5. ASSUME NEW u \in Threads, u # t PROVE PlaceOK(u)'
  BY <1>1, <1>5 DEF NodesInv, PlaceOK, Holds, Has, LowerFilled
<1>6. TypeInv'
  BY DEF NodesInv, TypeInv, Go, booted
<1>7. QED  BY <1>4, <1>5, <1>6 DEF NodesInv

\* A service goes on to its next step, with its node where it was.
LEMMA ServiceStep ==
    ASSUME NodesInv, NEW t \in Threads, loc[t].pc \in Steps, NEW pc \in Steps,
           Go(t, [loc[t] EXCEPT !.pc = pc]),
           UNCHANGED <<booted, td_handtbl, node, lost>>,
           dev_count' \in [Devices -> Nat],
           PlaceOK(t)'
    PROVE  NodesInv'
<1>1. loc[t] \in Service
  BY ServiceFields DEF NodesInv, TypeInv
<1> DEFINE l == [loc[t] EXCEPT !.pc = pc]
<1>2. l \in Places /\ l.pc = pc /\ l.node = loc[t].node
  BY <1>1, NextStep
<1>3. loc'[t] = l
  BY DEF Go, NodesInv, TypeInv
<1> HIDE DEF l
<1>4. \A n \in Nodes : Carries(t, n)' <=> Carries(t, n)
  BY <1>2, <1>3 DEF Carries, Has, Steps
<1>5. Go(t, l)
  BY DEF l
<1>6. QED  BY <1>2, <1>4, <1>5, QuietStep

\* A service whose node is behind a handle returns.
LEMMA ReturnStep ==
    ASSUME NodesInv, NEW t \in Threads, Return(t),
           loc[t].pc # "user" => Holds(t),
           UNCHANGED <<booted, td_handtbl, node, lost>>,
           dev_count' \in [Devices -> Nat]
    PROVE  NodesInv'
<1>1. Idle \in Places /\ Go(t, Idle)
  BY DEF Places, Return
<1>2. loc'[t] = Idle
  BY DEF Return, Go, NodesInv, TypeInv
<1>3. PlaceOK(t)' /\ \A n \in Nodes : ~ Carries(t, n)'
  BY <1>2 DEF PlaceOK, Carries, Idle
<1>4. \A n \in Nodes : ~ Carries(t, n)
  BY DEF Carries, Has, Holds
<1>5. QED  BY <1>1, <1>3, <1>4, QuietStep

\* A thread enters a service with a node of its table.
LEMMA EnterStep ==
    ASSUME NodesInv, NEW t \in Threads, loc[t].pc = "user",
           NEW h \in Hands, NEW pc \in {"rw", "dec", "delhand"},
           td_handtbl[t][h] # NULL,
           pc = "dec" => node[td_handtbl[t][h]].dev \in {"uart", "systick"},
           Go(t, [pc |-> pc, node |-> td_handtbl[t][h], hand |-> h]),
           UNCHANGED <<booted, td_handtbl, node, lost, dev_count>>
    PROVE  NodesInv'
<1> DEFINE n == td_handtbl[t][h]
           l == [pc |-> pc, node |-> n, hand |-> h]
<1>1. n \in Nodes
  BY DEF NodesInv, TypeInv
<1>2. l \in Places /\ l.pc = pc /\ l.node = n /\ l.hand = h
  BY <1>1 DEF Places, Service, Steps
<1>3. loc'[t] = l /\ Go(t, l)
  BY DEF Go, NodesInv, TypeInv
<1>4. node[n] # NULL
  BY <1>1 DEF NodesInv, Apart, SomePlace, Has
<1>5. h # NO_HAND
  BY DeviceAssumption DEF Hands, NO_HAND
<1> HIDE DEF l
<1>6. PlaceOK(t)'
  BY <1>2, <1>3, <1>4, <1>5 DEF PlaceOK, Holds
<1>7. \A m \in Nodes : Carries(t, m)' <=> Carries(t, m)
  BY <1>2, <1>3 DEF Carries, Has
<1>8. QED  BY <1>2, <1>3, <1>6, <1>7, QuietStep DEF NodesInv, TypeInv

\* A driver's open that counts is only called with a handle.
LEMMA CountedHolds ==
    ASSUME NodesInv, NEW t \in Threads,
           loc[t].pc = "inc" \/ (loc[t].pc = "open" /\ node[loc[t].node].acsflgs # "NEWFILE")
    PROVE  Holds(t)
BY DEF NodesInv, PlaceOK

\* The node of a service that is under way.
LEMMA ServiceNode ==
    ASSUME NodesInv, NEW t \in Threads, loc[t].pc # "user"
    PROVE  loc[t].node \in Nodes /\ node[loc[t].node] \in Node /\ node[loc[t].node] # NULL
<1>1. loc[t].node \in Nodes
  BY PlaceNode DEF NodesInv, TypeInv
<1>2. QED  BY <1>1 DEF NodesInv, TypeInv, PlaceOK

\* A driver's open that succeeds leaves the node where it is.
LEMMA OpenedStep ==
    ASSUME NodesInv, NEW t \in Threads, loc[t].pc \in {"open", "inc"}, Opened(t),
           UNCHANGED <<booted, td_handtbl, node, lost>>,
           dev_count' \in [Devices -> Nat]
    PROVE  NodesInv'
<1> DEFINE o == node[loc[t].node]
<1>1. o \in Node
  BY ServiceNode
<1>2. CASE o.acsflgs = "NEWFILE"
  <2>1. o.dev = "rfs"
    BY <1>1, <1>2, NodeFields
  <2>2. loc[t].pc = "open" /\ loc[t].hand = NO_HAND /\ o # NULL /\ ~ Has(t, loc[t].node)
    BY <1>2, <2>1 DEF NodesInv, PlaceOK
  <2>3. Go(t, [loc[t] EXCEPT !.pc = "del"])
    BY <1>2 DEF Opened
  <2>4. loc[t] \in Service
    BY <2>2, ServiceFields DEF NodesInv, TypeInv, Steps
  <2> DEFINE l == [loc[t] EXCEPT !.pc = "del"]
  <2>5. l.pc = "del" /\ l.node = loc[t].node /\ l.hand = loc[t].hand
    BY <2>4, NextStep DEF Steps
  <2>6. loc'[t] = l
    BY <2>3 DEF Go, NodesInv, TypeInv
  <2> HIDE DEF l
  <2>7. PlaceOK(t)'
    BY <2>2, <2>5, <2>6 DEF PlaceOK, Has
  <2>8. QED  BY <2>2, <2>3, <2>7, ServiceStep DEF Steps
<1>3. CASE o.acsflgs # "NEWFILE"
  BY <1>3, CountedHolds, ReturnStep DEF Opened
<1>4. QED  BY <1>2, <1>3

\* A driver's open that fails sends the thread to clean up, or into hal_sysdie.
LEMMA OpenFailedStep ==
    ASSUME NodesInv, NEW t \in Threads, loc[t].pc = "open", OpenFailed(t),
           UNCHANGED <<booted, dev_count, td_handtbl, node, lost>>
    PROVE  NodesInv'
<1> DEFINE o == node[loc[t].node]
<1>1. o \in Node /\ o # NULL /\ loc[t].node \in Nodes
  BY ServiceNode
<1>2. loc[t] \in Service
  BY ServiceFields DEF NodesInv, TypeInv, Steps
<1>3. CASE o.acsflgs = "OPEFILE"
  <2> DEFINE l == [pc |-> "die", node |-> loc[t].node, hand |-> loc[t].hand,
                   why |-> "open sve die^^^^^^"]
  <2>1. Go(t, l)
    BY <1>3 DEF OpenFailed, hal_sysdie
  <2>2. l \in Places /\ l.pc = "die" /\ l.node = loc[t].node /\ l.hand = loc[t].hand
    BY <1>2 DEF Places, Dead, Service
  <2>3. loc'[t] = l
    BY <2>1 DEF Go, NodesInv, TypeInv
  <2>4. Holds(t)
    BY <1>3, CountedHolds
  <2>5. loc[t].hand # NO_HAND
    BY <2>4, DeviceAssumption DEF Holds, Hands, NO_HAND
  <2> HIDE DEF l
  <2>6. PlaceOK(t)'
    BY <1>1, <2>2, <2>3, <2>4, <2>5 DEF PlaceOK, Holds
  <2>7. \A n \in Nodes : Carries(t, n)' <=> Carries(t, n)
    BY <2>2, <2>3 DEF Carries, Has
  <2>8. QED  BY <2>1, <2>2, <2>6, <2>7, QuietStep DEF NodesInv, TypeInv
<1>4. CASE o.acsflgs # "OPEFILE"
  <2> DEFINE l == [loc[t] EXCEPT !.pc = "res"]
  <2>1. Go(t, l)
    BY <1>4 DEF OpenFailed
  <2>2. l.pc = "res" /\ l.node = loc[t].node /\ l.hand = loc[t].hand
    BY <1>2, NextStep DEF Steps
  <2>3. loc'[t] = l
    BY <2>1 DEF Go, NodesInv, TypeInv
  <2> HIDE DEF l
  <2>4. PlaceOK(t)'
    BY <1>1, <2>2, <2>3 DEF PlaceOK, Holds, Has, NodesInv
  <2> USE DEF l
  <2>5. QED  BY <2>1, <2>4, ServiceStep DEF Steps, NodesInv, TypeInv
<1>5. QED  BY <1>3, <1>4

\* The test of dev_count is passed: the driver goes on to count.
LEMMA ToIncStep ==
    ASSUME NodesInv, NEW t \in Threads, loc[t].pc = "open",
           node[loc[t].node].dev \in {"uart", "systick"},
           Go(t, [loc[t] EXCEPT !.pc = "inc"]),
           UNCHANGED <<booted, dev_count, td_handtbl, node, lost>>
    PROVE  NodesInv'
<1>1. node[loc[t].node] \in Node /\ node[loc[t].node] # NULL
  BY ServiceNode
<1>2. loc[t] \in Service
  BY ServiceFields DEF NodesInv, TypeInv, Steps
<1> DEFINE l == [loc[t] EXCEPT !.pc = "inc"]
<1>3. l.pc = "inc" /\ l.node = loc[t].node /\ l.hand = loc[t].hand
  BY <1>2, NextStep DEF Steps
<1>4. loc'[t] = l
  BY DEF Go, NodesInv, TypeInv
<1>5. Holds(t)
  BY <1>1, NodeFields, CountedHolds
<1>6. loc[t].hand # NO_HAND
  BY <1>5, DeviceAssumption DEF Holds, Hands, NO_HAND
<1> HIDE DEF l
<1>7. PlaceOK(t)'
  BY <1>1, <1>3, <1>4, <1>5, <1>6 DEF PlaceOK, Holds, LowerFilled, NodesInv
<1>8. QED  BY <1>7, ServiceStep DEF Steps, NodesInv, TypeInv

\* A set of naturals that is not empty has a least member.
LEMMA MinNat ==
    ASSUME NEW S \in SUBSET Nat, S # {}
    PROVE  Min(S) \in S /\ \A x \in S : Min(S) <= x
<1> DEFINE R == OpToRel(<, Nat)
<1>1. IsWellFoundedOn(R, Nat)
  BY NatLessThanWellFounded
<1> HIDE DEF R
<1>2. PICK m \in S : \A x \in S : ~ (<<x, m>> \in R)
  BY <1>1, WFMin
<1>3. \A x \in S : ~ (x < m)
  BY <1>2 DEF R, OpToRel
<1>4. \A x \in S : m <= x
  BY <1>3
<1>5. QED  BY <1>4 DEF Min

\* The handle that krlthd_add_objnode takes is the first free one.
LEMMA FirstFree ==
    ASSUME NEW t \in Threads, FreeHands(t) # {}
    PROVE  LET h == Min(FreeHands(t))
           IN  h \in Hands /\ td_handtbl[t][h] = NULL /\ \A g \in Hands : g < h => td_handtbl[t][g] # NULL
<1>1. FreeHands(t) \in SUBSET Nat
  BY DeviceAssumption DEF FreeHands, Hands
<1> DEFINE h == Min(FreeHands(t))
<1>2. h \in FreeHands(t) /\ \A x \in FreeHands(t) : h <= x
  BY <1>1, MinNat
<1> HIDE DEF h
<1>3. h \in Hands /\ td_handtbl[t][h] = NULL
  BY <1>2 DEF FreeHands
<1>4. ASSUME NEW g \in Hands, g < h PROVE td_handtbl[t][g] # NULL
  <2>1. ~ (h <= g)
    BY <1>3, <1>4, DeviceAssumption DEF Hands
  <2>2. QED  BY <1>2, <2>1 DEF FreeHands
<1>5. QED  BY <1>3, <1>4 DEF h

\* Only thread t is at work, on its own table and on the node n, which no other
\* thread has: what the others' places say stays true.
LEMMA OthersPlaces ==
    ASSUME NodesInv, NEW t \in Threads, NEW l, Go(t, l),
           \A u \in Threads : u # t => td_handtbl'[u] = td_handtbl[u],
           NEW n \in Nodes, \A m \in Nodes : m # n => node'[m] = node[m],
           node'[n] = node[n] \/ \A u \in Threads : u # t => ~ Has(u, n) /\ ~ Carries(u, n)
    PROVE  \A u \in Threads : u # t => PlaceOK(u)'
<1> SUFFICES ASSUME NEW u \in Threads, u # t PROVE PlaceOK(u)'
  OBVIOUS
<1>1. loc'[u] = loc[u]
  BY DEF NodesInv, TypeInv, Go
<1>2. CASE loc[u].pc = "user"
  BY <1>1, <1>2 DEF PlaceOK
<1>3. CASE loc[u].pc # "user"
  <2>1. loc[u].node \in Nodes
    BY <1>3, ServiceNode
  <2>2. node'[loc[u].node] = node[loc[u].node]
    BY <1>3, <2>1 DEF Carries
  <2>3. /\ Holds(u)' <=> Holds(u)
        /\ LowerFilled(u)' <=> LowerFilled(u)
        /\ \A m \in Nodes : Has(u, m)' <=> Has(u, m)
    BY <1>1 DEF Holds, LowerFilled, Has
  <2>4. PlaceOK(u)
    BY DEF NodesInv
  <2>5. QED  BY <1>1, <2>1, <2>2, <2>3, <2>4 DEF PlaceOK
<1>4. QED  BY <1>2, <1>3

\* What other threads have and carry does not change with it.
LEMMA OthersNodes ==
    ASSUME NodesInv, NEW t \in Threads, NEW l, Go(t, l),
           \A u \in Threads : u # t => td_handtbl'[u] = td_handtbl[u]
    PROVE  \A u \in Threads, n \in Nodes :
               u # t => (Has(u, n)' <=> Has(u, n)) /\ (Carries(u, n)' <=> Carries(u, n))
<1> SUFFICES ASSUME NEW u \in Threads, u # t, NEW n \in Nodes
             PROVE  (Has(u, n)' <=> Has(u, n)) /\ (Carries(u, n)' <=> Carries(u, n))
  OBVIOUS
<1>1. loc'[u] = loc[u]
  BY DEF NodesInv, TypeInv, Go
<1>2. QED  BY <1>1 DEF Has, Carries

\* krlsve_core_open takes a free node, which its thread then carries.
LEMMA CoreOpenInv ==
    ASSUME NodesInv, NEW t \in Threads, NEW o \in Requests, krlsve_core_open(t, o)
    PROVE  NodesInv'
<1>1. loc[t].pc = "user"
  BY DEF krlsve_core_open, At
<1>2. CASE Return(t) /\ UNCHANGED node
  BY <1>1, <1>2, ReturnStep DEF krlsve_core_open, NodesInv, TypeInv
<1>3. ASSUME NEW n \in Nodes, o.dev \in osdevtable, node[n] = NULL,
             node' = [node EXCEPT ![n] = o],
             Go(t, [pc |-> IF o.acsflgs = "NEWFILE" THEN "open" ELSE "add",
                    node |-> n, hand |-> NO_HAND])
      PROVE  NodesInv'
  <2> DEFINE l == [pc |-> IF o.acsflgs = "NEWFILE" THEN "open" ELSE "add",
                   node |-> n, hand |-> NO_HAND]
  <2>1. /\ l \in Places /\ l.pc # "user" /\ l.node = n /\ l.hand = NO_HAND
        /\ l.pc = IF o.acsflgs = "NEWFILE" THEN "open" ELSE "add"
    BY DEF Places, Service, Steps
  <2>2. o \in Node /\ o # NULL
    BY <1>3, NodeFields DEF Node, NodesInv, TypeInv
  <2>3. loc' = [loc EXCEPT ![t] = l] /\ Go(t, l)
    BY <1>3 DEF Go
  <2>4. loc'[t] = l /\ node'[n] = o /\ \A m \in Nodes : m # n => node'[m] = node[m]
    BY <1>3, <2>3 DEF NodesInv, TypeInv
  <2>5. td_handtbl' = td_handtbl /\ lost' = lost /\ UNCHANGED <<booted, dev_count>>
    BY DEF krlsve_core_open
  <2> HIDE DEF l
  <2>6. TypeInv'
    BY <1>3, <2>1, <2>2, <2>3, <2>5 DEF NodesInv, TypeInv, booted
  <2>7. n \notin lost /\ \A u \in Threads : ~ Has(u, n) /\ ~ Carries(u, n)
    BY <1>3 DEF NodesInv, Apart, SomePlace
  <2>8. \A u \in Threads : u # t => PlaceOK(u)'
    BY <2>3, <2>4, <2>5, <2>7, OthersPlaces
  <2>9. PlaceOK(t)'
    BY <2>1, <2>2, <2>4, <2>5, <2>7 DEF PlaceOK, Has
  <2>10. \A u \in Threads, m \in Nodes :
             u # t => (Has(u, m)' <=> Has(u, m)) /\ (Carries(u, m)' <=> Carries(u, m))
    BY <2>3, <2>5, OthersNodes
  <2>11. \A m \in Nodes : Has(t, m)' <=> Has(t, m)
    BY <2>5 DEF Has
  <2>12. \A m \in Nodes : ~ Carries(t, m)
    BY <1>1 DEF Carries
  <2>13. \A m \in Nodes : Carries(t, m)' <=> m = n
    BY <2>1, <2>4, <2>7, <2>11 DEF Carries
  <2>14. Apart'
    <3>1. OnePlace'
      BY <2>5, <2>7, <2>10, <2>11, <2>12, <2>13 DEF OnePlace, Apart, NodesInv
    <3>2. SomePlace'
      BY <2>2, <2>4, <2>5, <2>7, <2>10, <2>11, <2>12, <2>13 DEF SomePlace, Apart, NodesInv
    <3>3. QED  BY <2>5, <3>1, <3>2 DEF HandlesApart, Apart, NodesInv
  <2>15. QED  BY <2>6, <2>8, <2>9, <2>14 DEF NodesInv
<1>4. QED  BY <1>2, <1>3 DEF krlsve_core_open

\* krlthd_add_objnode puts the carried node into the first free handle.
LEMMA AddObjnodeInv ==
    ASSUME NodesInv, NEW t \in Threads, krlthd_add_objnode(t)
    PROVE  NodesInv'
<1>1. loc[t].pc = "add" /\ UNCHANGED <<booted, dev_count, node, lost>>
  BY DEF krlthd_add_objnode, At
<1>2. loc[t] \in Service
  BY <1>1, ServiceFields DEF NodesInv, TypeInv, Steps
<1> DEFINE n == loc[t].node
<1>3. n \in Nodes /\ node[n] # NULL /\ n # NULL
  BY <1>1, ServiceNode, DeviceAssumption
<1>4. node[n].acsflgs # "NEWFILE" /\ loc[t].hand = NO_HAND /\ ~ Has(t, n) /\ Carries(t, n)
  BY <1>1 DEF NodesInv, PlaceOK, Carries
<1>5. CASE FreeHands(t) = {}
  <2> DEFINE l == [loc[t] EXCEPT !.pc = "res"]
  <2>1. Go(t, l) /\ td_handtbl' = td_handtbl
    BY <1>5 DEF krlthd_add_objnode
  <2>2. l.pc = "res" /\ l.node = n /\ l.hand = NO_HAND
    BY <1>2, <1>4, NextStep DEF Steps
  <2>3. loc'[t] = l
    BY <2>1 DEF Go, NodesInv, TypeInv
  <2> HIDE DEF l
  <2>4. PlaceOK(t)'
    BY <1>1, <1>3, <1>4, <2>1, <2>2, <2>3 DEF PlaceOK, Has
  <2> USE DEF l
  <2>5. QED  BY <1>1, <2>1, <2>4, ServiceStep DEF Steps, NodesInv, TypeInv
<1>6. CASE FreeHands(t) # {}
  <2> DEFINE h == Min(FreeHands(t))
             l == [loc[t] EXCEPT !.pc = "open", !.hand = h]
  <2>1. h \in Hands /\ td_handtbl[t][h] = NULL /\ \A g \in Hands : g < h => td_handtbl[t][g] # NULL
    BY <1>6, FirstFree
  <2>2. td_handtbl' = [td_handtbl EXCEPT ![t][h] = n] /\ Go(t, l)
    BY <1>6 DEF krlthd_add_objnode
  <2> HIDE DEF h
  <2>3. l \in Places /\ l.pc = "open" /\ l.node = n /\ l.hand = h
    BY <1>2, <2>1 DEF Places, Service, Steps
  <2>4. loc'[t] = l
    BY <2>2 DEF Go, NodesInv, TypeInv
  <2>5. h # NO_HAND
    BY <2>1, DeviceAssumption DEF Hands, NO_HAND
  <2>6. TypeInv'
    BY <1>1, <1>3, <2>1, <2>2, <2>3 DEF NodesInv, TypeInv, Go, booted
  <2>7. /\ td_handtbl'[t][h] = n
        /\ \A g \in Hands : g # h => td_handtbl'[t][g] = td_handtbl[t][g]
        /\ \A u \in Threads : u # t => td_handtbl'[u] = td_handtbl[u]
    BY <2>1, <2>2 DEF NodesInv, TypeInv
  <2> HIDE DEF l
  <2>8. PlaceOK(t)'
    <3>1. LowerFilled(t)'
      BY <1>3, <2>1, <2>3, <2>4, <2>7 DEF LowerFilled
    <3>2. QED  BY <1>1, <1>3, <1>4, <2>1, <2>3, <2>4, <2>5, <2>7, <3>1 DEF PlaceOK, Holds
  <2>9. \A u \in Threads : u # t => PlaceOK(u)'
    BY <1>1, <1>3, <2>2, <2>7, OthersPlaces
  <2>10. \A u \in Threads, m \in Nodes :
             u # t => (Has(u, m)' <=> Has(u, m)) /\ (Carries(u, m)' <=> Carries(u, m))
    BY <2>2, <2>7, OthersNodes
  <2>11. \A m \in Nodes : Has(t, m)' <=> Has(t, m) \/ m = n
    BY <2>1, <2>7, DeviceAssumption DEF Has
  <2>12. \A m \in Nodes : ~ Carries(t, m)' /\ (Carries(t, m) <=> m = n)
    BY <1>3, <1>4, <2>3, <2>4, <2>11 DEF Carries
  <2>13. ASSUME NEW u \in Threads, NEW v \in Threads, NEW g \in Hands, NEW k \in Hands,
                td_handtbl'[u][g] # NULL, td_handtbl'[u][g] = td_handtbl'[v][k]
         PROVE  u = v /\ g = k
    <3>1. \A w \in Threads, x \in Hands : td_handtbl[w][x] # n
      BY <1>3, <1>4 DEF NodesInv, Apart, OnePlace, Has
    <3>2. QED  BY <2>7, <2>13, <3>1 DEF NodesInv, Apart, HandlesApart
  <2>14. Apart'
    <3>1. OnePlace'
      BY <1>1, <1>3, <1>4, <2>10, <2>11, <2>12 DEF OnePlace, Apart, NodesInv
    <3>2. SomePlace'
      BY <1>1, <2>10, <2>11, <2>12 DEF SomePlace, Apart, NodesInv
    <3>3. QED  BY <2>13, <3>1, <3>2 DEF HandlesApart, Apart
  <2>15. QED  BY <2>6, <2>8, <2>9, <2>14 DEF NodesInv
<1>7. QED  BY <1>5, <1>6

\* A handle is given back: its node is carried from then on.
LEMMA DropStep ==
    ASSUME NodesInv, NEW t \in Threads, loc[t].pc \in {"res", "delhand"}, Holds(t),
           td_handtbl' = [td_handtbl EXCEPT ![t][loc[t].hand] = NULL],
           Go(t, [loc[t] EXCEPT !.pc = "del"]),
           UNCHANGED <<booted, dev_count, node, lost>>
    PROVE  NodesInv'
<1> DEFINE n == loc[t].node
           h == loc[t].hand
           l == [loc[t] EXCEPT !.pc = "del"]
<1>1. loc[t] \in Service
  BY ServiceFields DEF NodesInv, TypeInv, Steps
<1>2. n \in Nodes /\ node[n] # NULL /\ n # NULL
  BY ServiceNode, DeviceAssumption
<1>3. h \in Hands /\ td_handtbl[t][h] = n
  BY DEF Holds
<1>4. l \in Places /\ l.pc = "del" /\ l.node = n /\ l.hand = h
  BY <1>1, NextStep DEF Steps
<1>5. Go(t, l) /\ loc'[t] = l
  BY DEF Go, NodesInv, TypeInv
<1>6. /\ td_handtbl'[t][h] = NULL
      /\ \A g \in Hands : g # h => td_handtbl'[t][g] = td_handtbl[t][g]
      /\ \A u \in Threads : u # t => td_handtbl'[u] = td_handtbl[u]
  BY <1>3 DEF NodesInv, TypeInv
<1>7. TypeInv'
  BY <1>3, <1>4, <1>5 DEF NodesInv, TypeInv, Go, booted
<1> HIDE DEF l, h
<1>8. \A g \in Hands : td_handtbl[t][g] = n => g = h
  BY <1>2, <1>3 DEF NodesInv, Apart, HandlesApart
<1>9. \A m \in Nodes : Has(t, m)' <=> Has(t, m) /\ m # n
  BY <1>2, <1>3, <1>6, <1>8, DeviceAssumption DEF Has
<1>10. \A m \in Nodes : (Carries(t, m)' <=> m = n) /\ ~ Carries(t, m)
  BY <1>2, <1>3, <1>4, <1>5, <1>9 DEF Carries, Has
<1>11. \A u \in Threads, m \in Nodes :
           u # t => (Has(u, m)' <=> Has(u, m)) /\ (Carries(u, m)' <=> Carries(u, m))
  BY <1>5, <1>6, OthersNodes
<1>12. Has(t, n) /\ \A u \in Threads : u # t => ~ Has(u, n)
  BY <1>2, <1>3 DEF Has, NodesInv, Apart, HandlesApart
<1>13. PlaceOK(t)'
  BY <1>2, <1>4, <1>5, <1>9 DEF PlaceOK
<1>14. \A u \in Threads : u # t => PlaceOK(u)'
  BY <1>2, <1>5, <1>6, OthersPlaces
<1>15. ASSUME NEW u \in Threads, NEW v \in Threads, NEW g \in Hands, NEW k \in Hands,
              td_handtbl'[u][g] # NULL, td_handtbl'[u][g] = td_handtbl'[v][k]
       PROVE  u = v /\ g = k
  BY <1>6, <1>15 DEF NodesInv, Apart, HandlesApart
<1>16. Apart'
  <2>1. OnePlace'
    BY <1>2, <1>9, <1>10, <1>11, <1>12 DEF OnePlace, Apart, NodesInv
  <2>2. SomePlace'
    BY <1>9, <1>10, <1>11, <1>12 DEF SomePlace, Apart, NodesInv
  <2>3. QED  BY <1>15, <2>1, <2>2 DEF HandlesApart, Apart
<1>17. QED  BY <1>7, <1>13, <1>14, <1>16 DEF NodesInv

\* After a failure the service goes on to give back what it has.
LEMMA ResStepInv ==
    ASSUME NodesInv, NEW t \in Threads, res_step(t)
    PROVE  NodesInv'
<1>1. loc[t].pc = "res" /\ UNCHANGED <<booted, dev_count, node, lost>>
  BY DEF res_step, At
<1>2. loc[t].node \in Nodes /\ node[loc[t].node] # NULL /\ loc[t].node # NULL
  BY <1>1, ServiceNode, DeviceAssumption
<1>3. (loc[t].hand = NO_HAND /\ ~ Has(t, loc[t].node)) \/ Holds(t)
  BY <1>1 DEF NodesInv, PlaceOK
<1>4. CASE Holds(t)
  <2>1. loc[t].hand # NO_HAND /\ td_handtbl[t][loc[t].hand] # NULL
    BY <1>2, <1>4, DeviceAssumption DEF Holds, Hands, NO_HAND
  <2>2. QED  BY <1>1, <1>4, <2>1, DropStep DEF res_step
<1>5. CASE loc[t].hand = NO_HAND /\ ~ Has(t, loc[t].node)
  <2> DEFINE l == [loc[t] EXCEPT !.pc = "del"]
  <2>1. Go(t, l) /\ td_handtbl' = td_handtbl
    BY <1>5 DEF res_step
  <2>2. l.pc = "del" /\ l.node = loc[t].node /\ l.hand = loc[t].hand
    BY <1>1, ServiceFields, NextStep DEF Steps, NodesInv, TypeInv
  <2>3. loc'[t] = l
    BY <2>1 DEF Go, NodesInv, TypeInv
  <2> HIDE DEF l
  <2>4. PlaceOK(t)'
    BY <1>1, <1>2, <1>5, <2>1, <2>2, <2>3 DEF PlaceOK, Has
  <2> USE DEF l
  <2>5. QED  BY <1>1, <2>1, <2>4, ServiceStep DEF Steps, NodesInv, TypeInv
<1>6. QED  BY <1>3, <1>4, <1>5

\* A handle that is given back leaves the node with the service.
LEMMA DelHandInv ==
    ASSUME NodesInv, NEW t \in Threads, krlthd_del_objnode(t)
    PROVE  NodesInv'
<1>1. loc[t].pc = "delhand" /\ UNCHANGED <<booted, dev_count, node, lost>>
  BY DEF krlthd_del_objnode, At
<1>2. loc[t].node \in Nodes /\ loc[t].node # NULL /\ Holds(t)
  BY <1>1, ServiceNode, DeviceAssumption DEF NodesInv, PlaceOK
<1>3. td_handtbl[t][loc[t].hand] # NULL
  BY <1>2 DEF Holds
<1>4. QED  BY <1>1, <1>2, <1>3, DropStep DEF krlthd_del_objnode

\* krldel_objnode frees a node that only its service has.
LEMMA DelObjnodeInv ==
    ASSUME NodesInv, NEW t \in Threads, krldel_objnode(t)
    PROVE  NodesInv'
<1> DEFINE n == loc[t].node
<1>1. loc[t].pc = "del" /\ UNCHANGED <<booted, dev_count, td_handtbl, lost>>
  BY DEF krldel_objnode, At
<1>2. n \in Nodes /\ node[n] # NULL
  BY <1>1, ServiceNode
<1>3. node' = [node EXCEPT ![n] = NULL] /\ Go(t, Idle)
  BY <1>2 DEF krldel_objnode, Return
<1>4. Carries(t, n) /\ ~ Has(t, n)
  BY <1>1 DEF NodesInv, PlaceOK, Carries
<1>5. loc'[t] = Idle /\ node'[n] = NULL /\ \A m \in Nodes : m # n => node'[m] = node[m]
  BY <1>2, <1>3 DEF Go, NodesInv, TypeInv
<1>6. TypeInv'
  BY <1>1, <1>2, <1>3 DEF NodesInv, TypeInv, Go, booted, Places
<1>7. \A m \in Nodes : ~ Carries(t, m)' /\ (Carries(t, m) <=> m = n)
  BY <1>4, <1>5 DEF Carries, Idle
<1>8. \A m \in Nodes : Has(t, m)' <=> Has(t, m)
  BY <1>1 DEF Has
<1>9. \A u \in Threads, m \in Nodes :
          u # t => (Has(u, m)' <=> Has(u, m)) /\ (Carries(u, m)' <=> Carries(u, m))
  BY <1>1, <1>3, OthersNodes
<1>10. n \notin lost /\ \A u \in Threads : u # t => ~ Has(u, n) /\ ~ Carries(u, n)
  BY <1>2, <1>4 DEF NodesInv, Apart, OnePlace
<1>11. PlaceOK(t)'
  BY <1>5 DEF PlaceOK, Idle
<1>12. \A u \in Threads : u # t => PlaceOK(u)'
  BY <1>1, <1>2, <1>3, <1>5, <1>10, OthersPlaces
<1>13. Apart'
  <2>1. OnePlace'
    BY <1>1, <1>7, <1>8, <1>9 DEF OnePlace, Apart, NodesInv
  <2>2. SomePlace'
    <3>1. lost' = lost
      BY <1>1
    <3>2. SomePlace
      BY DEF NodesInv, Apart
    <3>3. QED  BY <1>2, <1>5, <1>7, <1>8, <1>9, <1>10, <1>4, <3>1, <3>2 DEF SomePlace
  <2>3. QED  BY <1>1, <2>1, <2>2 DEF HandlesApart, Apart, NodesInv
<1>14. QED  BY <1>6, <1>11, <1>12, <1>13 DEF NodesInv

\* A close, read, write or ioctrl starts from a handle of its own thread.
LEMMA CoreCloseInv ==
    ASSUME NodesInv, NEW t \in Threads, NEW h \in Hands, krlsve_core_close(t, h)
    PROVE  NodesInv'
<1> DEFINE n == td_handtbl[t][h]
           l == [pc |-> "delhand", node |-> n, hand |-> h]
<1>1. loc[t].pc = "user" /\ UNCHANGED <<booted, dev_count, td_handtbl, node, lost>>
  BY DEF krlsve_core_close, At
<1>2. CASE Return(t)
  BY <1>1, <1>2, ReturnStep DEF NodesInv, TypeInv
<1>3. CASE n # NULL /\ Go(t, l)
  BY <1>1, <1>3, EnterStep
<1>4. CASE n # NULL /\ node[n].dev \in {"uart", "systick"} /\ Go(t, [l EXCEPT !.pc = "dec"])
  <2>1. [l EXCEPT !.pc = "dec"] = [pc |-> "dec", node |-> n, hand |-> h]
    OBVIOUS
  <2>2. QED  BY <1>1, <1>4, <2>1, EnterStep
<1>5. QED  BY <1>2, <1>3, <1>4 DEF krlsve_core_close, uart_close, systick_close, rfs_close

\* Counting a device down moves no node.
LEMMA DecInv ==
    ASSUME NodesInv, NEW t \in Threads, krldev_dec_devcount(t)
    PROVE  NodesInv'
<1> DEFINE l == [loc[t] EXCEPT !.pc = "delhand"]
<1>1. loc[t].pc = "dec" /\ Go(t, l) /\ UNCHANGED <<booted, td_handtbl, node, lost>>
  BY DEF krldev_dec_devcount, At
<1>2. Holds(t) /\ node[loc[t].node] # NULL
  BY <1>1 DEF NodesInv, PlaceOK
<1>3. dev_count' \in [Devices -> Nat]
  <2> DEFINE d == node[loc[t].node].dev
  <2>1. d \in Devices
    BY <1>1, ServiceNode, NodeFields
  <2> HIDE DEF d
  <2>2. dev_count' = [dev_count EXCEPT ![d] = IF @ = 0 THEN COUNTMAX ELSE @ - 1]
    BY DEF krldev_dec_devcount, d
  <2>3. QED  BY <2>1, <2>2, DeviceAssumption DEF NodesInv, TypeInv
<1>4. l.pc = "delhand" /\ l.node = loc[t].node /\ l.hand = loc[t].hand
  BY <1>1, ServiceFields, NextStep DEF Steps, NodesInv, TypeInv
<1>5. loc'[t] = l
  BY <1>1 DEF Go, NodesInv, TypeInv
<1>6. loc[t].hand # NO_HAND
  BY <1>2, DeviceAssumption DEF Holds, Hands, NO_HAND
<1> HIDE DEF l
<1>7. PlaceOK(t)'
  BY <1>1, <1>2, <1>4, <1>5, <1>6 DEF PlaceOK, Holds
<1> USE DEF l
<1>8. QED  BY <1>1, <1>3, <1>7, ServiceStep DEF Steps

\* A thread that exits leaves the nodes of its table behind.
LEMMA ExitInv ==
    ASSUME NodesInv, NEW t \in Threads, krlsve_core_exit_thread(t)
    PROVE  NodesInv'
<1>1. loc[t].pc = "user" /\ UNCHANGED <<booted, dev_count, node, loc>>
  BY DEF krlsve_core_exit_thread, At
<1>2. /\ \A h \in Hands : td_handtbl'[t][h] = NULL
      /\ \A u \in Threads : u # t => td_handtbl'[u] = td_handtbl[u]
  BY DEF krlsve_core_exit_thread, NodesInv, TypeInv
<1>3. \A n \in Nodes : n \in lost' <=> n \in lost \/ Has(t, n)
  <2>1. td_handtbl[t] \in [Hands -> Nodes \cup {NULL}]
    BY DEF NodesInv, TypeInv
  <2>2. \A n \in Nodes : n \in Range(td_handtbl[t]) <=> Has(t, n)
    BY <2>1 DEF Range, Has
  <2>3. QED  BY <2>2, DeviceAssumption DEF krlsve_core_exit_thread
<1>4. lost' \subseteq Nodes
  <2>1. td_handtbl[t] \in [Hands -> Nodes \cup {NULL}]
    BY DEF NodesInv, TypeInv
  <2>2. QED  BY <2>1 DEF Range, krlsve_core_exit_thread, NodesInv, TypeInv
<1>5. TypeInv'
  BY <1>1, <1>4 DEF krlsve_core_exit_thread, NodesInv, TypeInv, booted
<1>6. \A n \in Nodes : ~ Has(t, n)' /\ ~ Carries(t, n)' /\ ~ Carries(t, n)
  BY <1>1, <1>2, DeviceAssumption DEF Has, Carries
<1>7. \A u \in Threads, n \in Nodes :
          u # t => (Has(u, n)' <=> Has(u, n)) /\ (Carries(u, n)' <=> Carries(u, n))
  BY <1>1, <1>2 DEF Has, Carries
<1>8. \A u \in Threads, n \in Nodes : u # t => ~ (Has(t, n) /\ Has(u, n))
  BY DeviceAssumption DEF NodesInv, Apart, HandlesApart, Has
<1>9. ASSUME NEW u \in Threads, NEW v \in Threads, NEW g \in Hands, NEW k \in Hands,
             td_handtbl'[u][g] # NULL, td_handtbl'[u][g] = td_handtbl'[v][k]
      PROVE  u = v /\ g = k
  BY <1>2, <1>9 DEF NodesInv, Apart, HandlesApart
<1>10. Apart'
  <2>1. OnePlace'
    BY <1>1, <1>3, <1>6, <1>7, <1>8 DEF OnePlace, Apart, NodesInv
  <2>2. SomePlace'
    BY <1>1, <1>3, <1>6, <1>7 DEF SomePlace, Apart, NodesInv
  <2>3. QED  BY <1>9, <2>1, <2>2 DEF HandlesApart, Apart
<1>11. ASSUME NEW u \in Threads PROVE PlaceOK(u)'
  <2>1. CASE u = t  BY <1>1, <2>1 DEF PlaceOK
  <2>2. CASE u # t
    <3>1. PlaceOK(u) /\ td_handtbl'[u] = td_handtbl[u]
      BY <1>2, <2>2 DEF NodesInv
    <3>2. QED  BY <1>1, <3>1 DEF PlaceOK, Holds, Has, LowerFilled
  <2>3. QED  BY <2>1, <2>2
<1>12. QED  BY <1>5, <1>10, <1>11 DEF NodesInv

\* A step that has nothing to do with nodes.
LEMMA UnmovedStep ==
    ASSUME NodesInv, UNCHANGED <<td_handtbl, node, loc, lost>>
    PROVE  Apart' /\ \A t \in Threads : PlaceOK(t)'
<1>1. Apart'
  <2>1. \A t \in Threads, n \in Nodes : (Has(t, n)' <=> Has(t, n)) /\ (Carries(t, n)' <=> Carries(t, n))
    BY DEF Has, Carries
  <2>2. OnePlace' /\ SomePlace'
    BY <2>1 DEF NodesInv, Apart, OnePlace, SomePlace
  <2>3. QED  BY <2>2 DEF NodesInv, Apart, HandlesApart
<1>2. ASSUME NEW t \in Threads PROVE PlaceOK(t)'
  <2>1. PlaceOK(t)
    BY DEF NodesInv
  <2>2. QED  BY <2>1 DEF PlaceOK, Has, Holds, LowerFilled
<1>3. QED  BY <1>1, <1>2

\* Starting a driver moves no node.
LEMMA DriverEntryInv ==
    ASSUME NodesInv, krlrun_driverentry
    PROVE  NodesInv'
<1>1. UNCHANGED <<dev_count, td_handtbl, node, loc, lost>>
  BY DEF krlrun_driverentry
<1>2. Apart' /\ \A t \in Threads : PlaceOK(t)'
  BY <1>1, UnmovedStep
<1> DEFINE d == osdrvetytabl[boot]
<1>3. d \in Devices /\ boot \in 1 .. 3
  <2>1. boot = 1 \/ boot = 2 \/ boot = 3
    BY DEF krlrun_driverentry, osdrvetytabl
  <2>2. QED  BY <2>1, DevicesAre DEF osdrvetytabl
<1> HIDE DEF d
<1>4. osdevtable' \subseteq Devices
  BY <1>3 DEF krlrun_driverentry, EntryFails, krlnew_device, NodesInv, TypeInv, d
<1>5. boot' \in 0 .. 4
  BY <1>3 DEF krlrun_driverentry
<1>6. Len(osdrvetytabl) = 3
  BY DEF osdrvetytabl
<1>7. QED  BY <1>1, <1>2, <1>4, <1>5, <1>6 DEF NodesInv, TypeInv

\* Every step keeps the places of the nodes.
LEMMA NodesStep == NodesInv /\ [Next]_vars => NodesInv'
<1> SUFFICES ASSUME NodesInv, [Next]_vars PROVE NodesInv'
  OBVIOUS
<1>1. CASE krlrun_driverentry
  BY <1>1, DriverEntryInv
<1>2. ASSUME NEW t \in Threads, NEW o \in Requests, krlsve_core_open(t, o) PROVE NodesInv'
  BY <1>2, CoreOpenInv
<1>3. ASSUME NEW t \in Threads, krlthd_add_objnode(t) PROVE NodesInv'
  BY <1>3, AddObjnodeInv
<1>4. ASSUME NEW t \in Threads, krldev_inc_devcount(t) PROVE NodesInv'
  <2>1. loc[t].pc = "inc" /\ Opened(t) /\ UNCHANGED <<booted, td_handtbl, node, lost>>
    BY <1>4 DEF krldev_inc_devcount, At
  <2> DEFINE d == node[loc[t].node].dev
  <2>2. d \in Devices
    BY <2>1, ServiceNode, NodeFields
  <2> HIDE DEF d
  <2>3. dev_count' = [dev_count EXCEPT ![d] = @ + 1]
    BY <1>4 DEF krldev_inc_devcount, d
  <2>4. dev_count' \in [Devices -> Nat]
    BY <2>2, <2>3 DEF NodesInv, TypeInv
  <2>5. QED  BY <2>1, <2>4, OpenedStep
<1>5. ASSUME NEW t \in Threads, uart_open(t) PROVE NodesInv'
  BY <1>5, OpenFailedStep, ToIncStep DEF uart_open, Calls, At
<1>6. ASSUME NEW t \in Threads, systick_open(t) PROVE NodesInv'
  BY <1>6, OpenedStep, ToIncStep DEF systick_open, Calls, At, NodesInv, TypeInv
<1>7. ASSUME NEW t \in Threads, rfs_open(t) PROVE NodesInv'
  BY <1>7, OpenedStep, OpenFailedStep DEF rfs_open, Calls, At, NodesInv, TypeInv
<1>8. ASSUME NEW t \in Threads, res_step(t) PROVE NodesInv'
  BY <1>8, ResStepInv
<1>9. ASSUME NEW t \in Threads, krldel_objnode(t) PROVE NodesInv'
  BY <1>9, DelObjnodeInv
<1>10. ASSUME NEW t \in Threads, NEW h \in Hands, krlsve_core_rw(t, h) PROVE NodesInv'
  <2>1. loc[t].pc = "user" /\ UNCHANGED <<booted, dev_count, td_handtbl, node, lost>>
    BY <1>10 DEF krlsve_core_rw, At
  <2>2. CASE td_handtbl[t][h] = NULL
    BY <1>10, <2>1, <2>2, ReturnStep DEF krlsve_core_rw, NodesInv, TypeInv
  <2>3. CASE td_handtbl[t][h] # NULL
    BY <1>10, <2>1, <2>3, EnterStep DEF krlsve_core_rw
  <2>4. QED  BY <2>2, <2>3
<1>11. ASSUME NEW t \in Threads, NEW h \in Hands, krlsve_core_close(t, h) PROVE NodesInv'
  BY <1>11, CoreCloseInv
<1>12. ASSUME NEW t \in Threads, DriverReturns(t) PROVE NodesInv'
  <2>1. Holds(t)
    BY <1>12 DEF DriverReturns, At, NodesInv, PlaceOK
  <2>2. QED  BY <1>12, <2>1, ReturnStep DEF DriverReturns, NodesInv, TypeInv
<1>13. ASSUME NEW t \in Threads, krldev_dec_devcount(t) PROVE NodesInv'
  BY <1>13, DecInv
<1>14. ASSUME NEW t \in Threads, krlthd_del_objnode(t) PROVE NodesInv'
  BY <1>14, DelHandInv
<1>15. ASSUME NEW t \in Threads, krlsve_core_exit_thread(t) PROVE NodesInv'
  BY <1>15, ExitInv
<1>16. CASE UNCHANGED vars
  BY <1>16, UnmovedStep DEF vars, NodesInv, TypeInv
<1>17. QED
  BY <1>1, <1>2, <1>3, <1>4, <1>5, <1>6, <1>7, <1>8, <1>9, <1>10, <1>11, <1>12, <1>13, <1>14,
     <1>15, <1>16 DEF Next

\* At the start every node is free.
LEMMA NodesInit == Init => NodesInv
<1> SUFFICES ASSUME Init PROVE NodesInv
  OBVIOUS
<1>1. boot \in 0 .. Len(osdrvetytabl) + 1
  BY DEF Init, osdrvetytabl
<1>2. TypeInv
  BY <1>1 DEF Init, TypeInv, Places
<1>3. \A t \in Threads : loc[t].pc = "user" /\ \A h \in Hands : td_handtbl[t][h] = NULL
  BY DEF Init, Idle
<1>4. \A t \in Threads, n \in Nodes : ~ Has(t, n) /\ ~ Carries(t, n)
  BY <1>3, DeviceAssumption DEF Has, Carries
<1>5. Apart
  BY <1>3, <1>4 DEF Apart, HandlesApart, OnePlace, SomePlace, Init
<1>6. QED  BY <1>2, <1>3, <1>5 DEF NodesInv, PlaceOK

\* The invariant of the nodes holds in every state.
LEMMA NodesAlways == Spec => []NodesInv
BY NodesInit, NodesStep, PTL DEF Spec

\* Apart is NodesExact.
LEMMA ApartExact == NodesInv => NodesExact
<1> SUFFICES ASSUME NodesInv PROVE NodesExact
  OBVIOUS
<1>1. \A s \in Filled : s[1] \in Threads /\ s[2] \in Hands /\ NodeAt(s) \in Nodes /\ Has(s[1], NodeAt(s))
  BY DEF Filled, NodeAt, Has, NodesInv, TypeInv
<1>2. \A t \in Threads, n \in Nodes : Has(t, n) => \E s \in Filled : NodeAt(s) = n
  <2> SUFFICES ASSUME NEW t \in Threads, NEW n \in Nodes, NEW h \in Hands, td_handtbl[t][h] = n
               PROVE  \E s \in Filled : NodeAt(s) = n
    BY DEF Has
  <2>1. <<t, h>> \in Filled /\ NodeAt(<<t, h>>) = n
    BY DeviceAssumption DEF Filled, NodeAt
  <2>2. QED  BY <2>1
<1>3. \A t \in Threads : loc[t].pc # "user" =>
          (loc[t].node \in Range(td_handtbl[t]) <=> Has(t, loc[t].node))
  BY DEF Range, Has, NodesInv, TypeInv
<1>4. \A t \in Threads : t \in Carrying => loc[t].node \in Nodes /\ Carries(t, loc[t].node)
  BY <1>3, ServiceNode DEF Carrying, At, Carries
<1>5. \A t \in Threads, n \in Nodes : Carries(t, n) => t \in Carrying /\ loc[t].node = n
  BY <1>3 DEF Carrying, At, Carries
<1>6. \A r, s \in Filled : NodeAt(r) = NodeAt(s) => r = s
  <2> SUFFICES ASSUME NEW r \in Filled, NEW s \in Filled, NodeAt(r) = NodeAt(s) PROVE r = s
    OBVIOUS
  <2>1. r[1] = s[1] /\ r[2] = s[2]
    BY DEF Filled, NodeAt, NodesInv, Apart, HandlesApart
  <2>2. QED  BY <2>1 DEF Filled
<1>7. \A t, u \in Carrying : loc[t].node = loc[u].node => t = u
  BY <1>4 DEF Carrying, NodesInv, Apart, OnePlace
<1>8. \A s \in Filled, t \in Carrying : NodeAt(s) # loc[t].node
  BY <1>1, <1>4 DEF Carrying, NodesInv, Apart, OnePlace
<1>9. /\ \A s \in Filled : NodeAt(s) \notin lost
      /\ \A t \in Carrying : loc[t].node \notin lost
  BY <1>1, <1>4 DEF Carrying, NodesInv, Apart, OnePlace
<1>10. \A n \in Nodes : node[n] # NULL <=>
           \/ \E s \in Filled : NodeAt(s) = n
           \/ \E t \in Carrying : loc[t].node = n
           \/ n \in lost
  <2>1. \A n \in Nodes : (\E s \in Filled : NodeAt(s) = n) => \E t \in Threads : Has(t, n)
    BY <1>1
  <2>2. \A n \in Nodes : (\E t \in Carrying : loc[t].node = n) => \E t \in Threads : Carries(t, n)
    BY <1>4 DEF Carrying
  <2>3. QED  BY <1>2, <1>5, <2>1, <2>2 DEF NodesInv, Apart, SomePlace
<1>11. {n \in Nodes : node[n] # NULL} = {NodeAt(s) : s \in Filled} \cup {loc[t].node : t \in Carrying} \cup lost
  <2>1. lost \subseteq Nodes /\ Carrying \subseteq Threads
    BY DEF NodesInv, TypeInv, Carrying
  <2>2. QED  BY <1>1, <1>4, <1>10, <2>1
<1>12. QED  BY <1>6, <1>7, <1>8, <1>9, <1>11 DEF NodesExact

\* Every object node is free, behind one handle, carried by one service or left
\* behind by an exited thread, whatever the threads do and whichever step of
\* krlsve_core_open fails.
THEOREM NodesExactCorrect == Spec => []NodesExact
BY NodesAlways, ApartExact, PTL

\* Of the hal_sysdie calls of the open and close services only the one for a
\* file that cannot be opened is ever reached.
THEOREM OnlyMissingFileDiesCorrect == Spec => []OnlyMissingFileDies
<1>1. NodesInv => OnlyMissingFileDies
  <2> SUFFICES ASSUME NodesInv, NEW t \in Threads, loc[t].pc = "die"
               PROVE  loc[t].why = "open sve die^^^^^^"
    BY DEF OnlyMissingFileDies, At
  <2>1. loc[t] \in Places
    BY DEF NodesInv, TypeInv
  <2>2. loc[t] # Idle /\ loc[t] \notin Service
    BY DEF Idle, Service, Steps
  <2>3. loc[t] \in Dead
    BY <2>1, <2>2 DEF Places
  <2>4. QED  BY <2>3 DEF Dead
<1>2. QED  BY <1>1, NodesAlways, PTL

-----------------------------------------------------------------------------
(* What a device counts.                                                    *)

Counted == {"uart", "systick"}

\* The handles in use of a device that counts, and the lost nodes it counts.
Using(d) == {s \in Threads \X Hands : OpenHandles[s] = d}
LostOf(d) == {n \in lost : node[n].dev = d}

\* A service at place l has not finished opening handle h, or has closed it.
Working(l, h) == l.pc \in {"open", "inc", "res", "delhand", "die"} /\ l.hand = h

\* What handle h of thread t is to a user of the table.
Seen(t, h) ==
    IF td_handtbl[t][h] # NULL /\ ~ Working(loc[t], h)
    THEN node[td_handtbl[t][h]].dev
    ELSE NULL

\* OpenHandles, handle by handle.
LEMMA SeenIs ==
    /\ \A t \in Threads, h \in Hands : OpenHandles[<<t, h>>] = Seen(t, h)
    /\ \A t \in Threads, h \in Hands : OpenHandles'[<<t, h>>] = Seen(t, h)'
BY DEF OpenHandles, InUse, Filled, NodeAt, Seen, Working

\* Nothing that the users of the table see has changed, ...
LEMMA SameHandles ==
    ASSUME \A t \in Threads, h \in Hands : Seen(t, h)' = Seen(t, h)
    PROVE  OpenHandles' = OpenHandles
<1>1. \A s \in Threads \X Hands : OpenHandles'[s] = OpenHandles[s]
  <2> SUFFICES ASSUME NEW s \in Threads \X Hands PROVE OpenHandles'[s] = OpenHandles[s]
    OBVIOUS
  <2>1. PICK t \in Threads, h \in Hands : s = <<t, h>>
    OBVIOUS
  <2>2. QED  BY <2>1, SeenIs
<1>2. QED  BY <1>1 DEF OpenHandles

\* ... or one handle has.
LEMMA OneHandle ==
    ASSUME NEW t \in Threads, NEW h \in Hands,
           \A u \in Threads, g \in Hands : (u # t \/ g # h) => Seen(u, g)' = Seen(u, g)
    PROVE  OpenHandles' = [OpenHandles EXCEPT ![<<t, h>>] = Seen(t, h)']
<1> DEFINE f == [OpenHandles EXCEPT ![<<t, h>>] = Seen(t, h)']
<1>1. \A s \in Threads \X Hands : OpenHandles'[s] = f[s]
  <2> SUFFICES ASSUME NEW s \in Threads \X Hands PROVE OpenHandles'[s] = f[s]
    OBVIOUS
  <2>1. PICK u \in Threads, g \in Hands : s = <<u, g>>
    OBVIOUS
  <2>2. DOMAIN OpenHandles = Threads \X Hands
    BY DEF OpenHandles
  <2>3. CASE u = t /\ g = h  BY <2>1, <2>2, <2>3, SeenIs
  <2>4. CASE u # t \/ g # h
    <3>1. f[s] = OpenHandles[s]
      BY <2>1, <2>2, <2>4
    <3>2. QED  BY <2>1, <2>4, <3>1, SeenIs
  <2>5. QED  BY <2>3, <2>4
<1>2. DOMAIN f = Threads \X Hands /\ DOMAIN OpenHandles' = Threads \X Hands
  BY DEF OpenHandles
<1>3. f = [s \in Threads \X Hands |-> f[s]] /\ OpenHandles' = [s \in Threads \X Hands |-> OpenHandles'[s]]
  BY <1>2 DEF OpenHandles
<1>4. QED  BY <1>1, <1>3

\* The sets that are counted are finite.
LEMMA FiniteUse ==
    ASSUME TypeInv, NEW d
    PROVE  /\ IsFiniteSet(Using(d)) /\ Cardinality(Using(d)) \in Nat
           /\ IsFiniteSet(LostOf(d)) /\ Cardinality(LostOf(d)) \in Nat
<1>1. IsFiniteSet(Hands)
  BY DeviceAssumption, FS_Interval DEF Hands
<1>2. IsFiniteSet(Threads \X Hands)
  BY <1>1, DeviceAssumption, FS_Product
<1>3. Using(d) \in SUBSET (Threads \X Hands) /\ LostOf(d) \in SUBSET Nodes
  BY DEF Using, LostOf, TypeInv
<1>4. IsFiniteSet(Using(d)) /\ IsFiniteSet(LostOf(d))
  BY <1>2, <1>3, FS_Subset, DeviceAssumption
<1>5. QED  BY <1>4, FS_CardinalityType

\* CountExact in these words.
LEMMA CountIs ==
    /\ CountExact <=> \A d \in Counted : dev_count[d] = Cardinality(Using(d)) + Cardinality(LostOf(d))
    /\ CountExact' <=> \A d \in Counted : dev_count'[d] = Cardinality(Using(d)') + Cardinality(LostOf(d)')
<1>1. ASSUME NEW d \in Counted
      PROVE  /\ Using(d) = {s \in Threads \X Hands : InUse(s) /\ node[NodeAt(s)].dev = d}
             /\ Using(d)' = {s \in Threads \X Hands : InUse(s)' /\ node'[NodeAt(s)'].dev = d}
  <2>1. d # NULL
    BY DeviceAssumption, DevicesAre DEF Counted
  <2>2. QED  BY <2>1 DEF Using, OpenHandles
<1>2. QED  BY <1>1 DEF CountExact, LostOf, Counted

\* A handle in use leads to a node of its device.
LEMMA UsingNode ==
    ASSUME NodesInv, NEW d \in Counted, NEW s \in Using(d)
    PROVE  /\ s \in Threads \X Hands
           /\ NodeAt(s) \in Nodes /\ node[NodeAt(s)].dev = d /\ NodeAt(s) \notin lost
<1>1. PICK t \in Threads, h \in Hands : s = <<t, h>>
  BY DEF Using
<1>2. d # NULL
  BY DeviceAssumption, DevicesAre DEF Counted
<1>3. Seen(t, h) = d
  BY <1>1, SeenIs DEF Using
<1>4. td_handtbl[t][h] # NULL /\ node[td_handtbl[t][h]].dev = d
  BY <1>2, <1>3 DEF Seen
<1>5. td_handtbl[t][h] \in Nodes /\ Has(t, td_handtbl[t][h])
  BY <1>4 DEF NodesInv, TypeInv, Has
<1>6. QED  BY <1>1, <1>4, <1>5 DEF NodeAt, NodesInv, Apart, OnePlace

\* No two handles lead to one node.
LEMMA UsingApart ==
    ASSUME NodesInv, NEW d \in Counted, NEW r \in Using(d), NEW s \in Using(d), NodeAt(r) = NodeAt(s)
    PROVE  r = s
<1>1. r \in Threads \X Hands /\ s \in Threads \X Hands /\ NodeAt(r) \in Nodes
  BY UsingNode
<1>2. r[1] = s[1] /\ r[2] = s[2]
  BY <1>1, DeviceAssumption DEF NodeAt, NodesInv, Apart, HandlesApart
<1>3. QED  BY <1>1, <1>2

\* The nodes behind a set of handles in use are as many.
LEMMA UsingImage ==
    ASSUME NodesInv, NEW d \in Counted, NEW S \in SUBSET Using(d)
    PROVE  LET I == {NodeAt(s) : s \in S}
           IN  IsFiniteSet(I) /\ Cardinality(I) = Cardinality(S) /\ I \subseteq Nodes /\ I \cap lost = {}
<1> DEFINE I == {NodeAt(s) : s \in S}
           f == [s \in S |-> NodeAt(s)]
<1>1. IsFiniteSet(S)
  BY FiniteUse, FS_Subset DEF NodesInv
<1>2. f \in Bijection(S, I)
  <2>1. \A r, s \in S : f[r] = f[s] => r = s
    BY UsingApart
  <2>2. f \in [S -> I] /\ \A n \in I : \E s \in S : f[s] = n
    OBVIOUS
  <2> HIDE DEF f, I
  <2>3. QED  BY <2>1, <2>2 DEF Bijection, Injection, Surjection, IsInjective
<1>3. ExistsBijection(S, I)
  BY <1>2 DEF ExistsBijection
<1>4. IsFiniteSet(I) /\ Cardinality(I) = Cardinality(S)
  BY <1>1, <1>3, FS_Bijection
<1>5. I \subseteq Nodes /\ I \cap lost = {}
  BY UsingNode
<1>6. QED  BY <1>4, <1>5

\* A counter never reaches its largest value: every count has a node.
LEMMA CountBound ==
    ASSUME NodesInv, CountExact, NEW d \in Counted
    PROVE  dev_count[d] < COUNTMAX
<1> DEFINE I == {NodeAt(s) : s \in Using(d)}
<1>1. IsFiniteSet(I) /\ Cardinality(I) = Cardinality(Using(d)) /\ I \subseteq Nodes /\ I \cap lost = {}
  BY UsingImage
<1> HIDE DEF I
<1>2. IsFiniteSet(LostOf(d)) /\ Cardinality(LostOf(d)) \in Nat /\ Cardinality(Using(d)) \in Nat
  BY FiniteUse DEF NodesInv
<1>3. LostOf(d) \subseteq lost /\ LostOf(d) \subseteq Nodes
  BY DEF LostOf, NodesInv, TypeInv
<1>4. I \cap LostOf(d) = {}
  BY <1>1, <1>3
<1>5. Cardinality(I \cup LostOf(d)) = Cardinality(I) + Cardinality(LostOf(d)) - Cardinality({})
  BY <1>1, <1>2, <1>4, FS_Union
<1>6. Cardinality({}) = 0
  BY FS_EmptySet
<1>7. I \cup LostOf(d) \in SUBSET Nodes
  BY <1>1, <1>3
<1>8. Cardinality(I \cup LostOf(d)) <= Cardinality(Nodes) /\ Cardinality(Nodes) \in Nat
  BY <1>7, FS_Subset, FS_CardinalityType, DeviceAssumption
<1>9. dev_count[d] = Cardinality(Using(d)) + Cardinality(LostOf(d))
  BY CountIs
<1>10. QED  BY <1>1, <1>2, <1>5, <1>6, <1>8, <1>9, DeviceAssumption

\* The device of a handle in use counts it.
LEMMA CountsMine ==
    ASSUME NodesInv, CountExact, NEW d \in Counted, NEW t \in Threads, NEW h \in Hands, Seen(t, h) = d
    PROVE  dev_count[d] >= 1
<1>1. <<t, h>> \in Using(d)
  BY SeenIs DEF Using
<1>2. IsFiniteSet(Using(d)) /\ Cardinality(LostOf(d)) \in Nat /\ Cardinality(Using(d)) \in Nat
  BY FiniteUse DEF NodesInv
<1>3. Cardinality(Using(d)) # 0
  BY <1>1, <1>2, FS_EmptySet
<1>4. dev_count[d] = Cardinality(Using(d)) + Cardinality(LostOf(d))
  BY CountIs
<1>5. QED  BY <1>2, <1>3, <1>4

\* The counts after a step that shows nothing, ...
LEMMA SameCounts ==
    ASSUME CountExact, OpenHandles' = OpenHandles,
           \A d \in Counted : LostOf(d)' = LostOf(d) /\ dev_count'[d] = dev_count[d]
    PROVE  CountExact'
<1>1. \A d \in Counted : Using(d)' = Using(d)
  BY DEF Using
<1>2. QED  BY <1>1, CountIs

\* ... one that opens a handle, ...
LEMMA OpenCounts ==
    ASSUME NodesInv, CountExact, NEW t \in Threads, NEW h \in Hands, NEW d \in Devices,
           OpenHandles[<<t, h>>] = NULL,
           OpenHandles' = [OpenHandles EXCEPT ![<<t, h>>] = d],
           \A c \in Counted : /\ LostOf(c)' = LostOf(c)
                              /\ dev_count'[c] = IF c = d THEN dev_count[c] + 1 ELSE dev_count[c]
    PROVE  CountExact'
<1> DEFINE s == <<t, h>>
<1>1. s \in Threads \X Hands /\ DOMAIN OpenHandles = Threads \X Hands
  BY DEF OpenHandles
<1> HIDE DEF s
<1>2. \A c \in Counted : Using(c)' = IF c = d THEN Using(c) \cup {s} ELSE Using(c)
  <2> SUFFICES ASSUME NEW c \in Counted PROVE Using(c)' = IF c = d THEN Using(c) \cup {s} ELSE Using(c)
    OBVIOUS
  <2>1. c # NULL
    BY DeviceAssumption, DevicesAre DEF Counted
  <2>2. \A r \in Threads \X Hands : OpenHandles'[r] = IF r = s THEN d ELSE OpenHandles[r]
    BY <1>1 DEF s
  <2>3. QED  BY <1>1, <2>1, <2>2 DEF Using, s
<1>3. \A c \in Counted : /\ IsFiniteSet(Using(c)) /\ Cardinality(Using(c)) \in Nat
                         /\ Cardinality(LostOf(c)) \in Nat /\ s \notin Using(c)
  BY FiniteUse, DeviceAssumption, DevicesAre DEF NodesInv, Counted, Using, s
<1>4. \A c \in Counted : Cardinality(Using(c) \cup {s}) = Cardinality(Using(c)) + 1
  BY <1>3, FS_AddElement
<1>5. \A c \in Counted : dev_count[c] = Cardinality(Using(c)) + Cardinality(LostOf(c))
  BY CountIs
<1>6. \A c \in Counted : dev_count'[c] = Cardinality(Using(c)') + Cardinality(LostOf(c)')
  BY <1>2, <1>3, <1>4, <1>5
<1>7. QED  BY <1>6, CountIs

\* ... one that closes it, ...
LEMMA CloseCounts ==
    ASSUME NodesInv, CountExact, NEW t \in Threads, NEW h \in Hands, NEW d \in Devices,
           OpenHandles[<<t, h>>] = d,
           OpenHandles' = [OpenHandles EXCEPT ![<<t, h>>] = NULL],
           \A c \in Counted : /\ LostOf(c)' = LostOf(c)
                              /\ dev_count'[c] = IF c = d THEN dev_count[c] - 1 ELSE dev_count[c]
    PROVE  CountExact'
<1> DEFINE s == <<t, h>>
<1>1. s \in Threads \X Hands /\ DOMAIN OpenHandles = Threads \X Hands
  BY DEF OpenHandles
<1> HIDE DEF s
<1>2. \A c \in Counted : Using(c)' = IF c = d THEN Using(c) \ {s} ELSE Using(c)
  <2> SUFFICES ASSUME NEW c \in Counted PROVE Using(c)' = IF c = d THEN Using(c) \ {s} ELSE Using(c)
    OBVIOUS
  <2>1. c # NULL
    BY DeviceAssumption, DevicesAre DEF Counted
  <2>2. \A r \in Threads \X Hands : OpenHandles'[r] = IF r = s THEN NULL ELSE OpenHandles[r]
    BY <1>1 DEF s
  <2>3. QED  BY <1>1, <2>1, <2>2 DEF Using, s
<1>3. \A c \in Counted : /\ IsFiniteSet(Using(c)) /\ Cardinality(Using(c)) \in Nat
                         /\ Cardinality(LostOf(c)) \in Nat /\ (s \in Using(c) <=> c = d)
  BY <1>1, FiniteUse DEF NodesInv, Using, s
<1>4. ASSUME NEW c \in Counted, c = d PROVE Cardinality(Using(c) \ {s}) = Cardinality(Using(c)) - 1
  BY <1>3, <1>4, FS_RemoveElement
<1>5. \A c \in Counted : dev_count[c] = Cardinality(Using(c)) + Cardinality(LostOf(c))
  BY CountIs
<1>6. \A c \in Counted : dev_count'[c] = Cardinality(Using(c)') + Cardinality(LostOf(c)')
  BY <1>2, <1>3, <1>4, <1>5
<1>7. QED  BY <1>6, CountIs

\* ... and after a thread's exit, when the devices go on counting its nodes.
LEMMA ExitCounts ==
    ASSUME NodesInv, CountExact, NEW t \in Threads, loc[t].pc = "user",
           OpenHandles' = [s \in Threads \X Hands |-> IF s[1] = t THEN NULL ELSE OpenHandles[s]],
           UNCHANGED <<node, dev_count>>,
           \A n \in Nodes : n \in lost' <=> n \in lost \/ Has(t, n),
           lost' \subseteq Nodes
    PROVE  CountExact'
<1> SUFFICES ASSUME NEW d \in Counted
             PROVE  dev_count[d] = Cardinality(Using(d)') + Cardinality(LostOf(d)')
  BY CountIs
<1> DEFINE S == {s \in Using(d) : s[1] = t}
           I == {NodeAt(s) : s \in S}
<1>1. d # NULL
  BY DeviceAssumption, DevicesAre DEF Counted
<1>2. Using(d)' = Using(d) \ S
  BY <1>1 DEF Using
<1>3. S \in SUBSET Using(d) /\ Using(d) \cap S = S
  OBVIOUS
<1>4. IsFiniteSet(I) /\ Cardinality(I) = Cardinality(S) /\ I \subseteq Nodes /\ I \cap lost = {}
  BY <1>3, UsingImage
<1>5. \A n \in Nodes : Has(t, n) /\ node[n].dev = d <=> n \in I
  <2>1. ASSUME NEW h \in Hands, td_handtbl[t][h] \in Nodes, node[td_handtbl[t][h]].dev = d
        PROVE  td_handtbl[t][h] \in I
    <3>1. Seen(t, h) = d
      BY <2>1, DeviceAssumption DEF Seen, Working
    <3>2. <<t, h>> \in S
      BY <3>1, SeenIs DEF Using
    <3>3. QED  BY <3>2 DEF NodeAt
  <2>2. ASSUME NEW s \in S PROVE Has(t, NodeAt(s)) /\ node[NodeAt(s)].dev = d
    BY UsingNode DEF Has, NodeAt
  <2>3. QED  BY <2>1, <2>2 DEF Has
<1>6. LostOf(d)' = LostOf(d) \cup I
  <2>1. lost \subseteq Nodes
    BY DEF NodesInv, TypeInv
  <2> HIDE DEF I
  <2>2. QED  BY <1>4, <1>5, <2>1 DEF LostOf
<1> HIDE DEF S, I
<1>7. /\ IsFiniteSet(Using(d)) /\ Cardinality(Using(d)) \in Nat
      /\ IsFiniteSet(LostOf(d)) /\ Cardinality(LostOf(d)) \in Nat
  BY FiniteUse DEF NodesInv
<1>8. Cardinality(S) \in Nat
  BY <1>3, <1>7, FS_Subset, FS_CardinalityType
<1>9. Cardinality(Using(d) \ S) = Cardinality(Using(d)) - Cardinality(S)
  <2>1. Cardinality(Using(d) \ S) = Cardinality(Using(d)) - Cardinality(Using(d) \cap S)
    BY <1>7, FS_Difference
  <2>2. QED  BY <1>3, <2>1
<1>10. LostOf(d) \cap I = {}
  BY <1>4 DEF LostOf
<1>11. Cardinality(LostOf(d) \cup I) = Cardinality(LostOf(d)) + Cardinality(S) - 0
  BY ONLY <1>4, <1>7, <1>10, FS_Union, FS_EmptySet
<1>12. dev_count[d] = Cardinality(Using(d)) + Cardinality(LostOf(d))
  BY CountIs
<1>13. QED  BY ONLY <1>2, <1>6, <1>7, <1>8, <1>9, <1>11, <1>12

-----------------------------------------------------------------------------
(* Every step is one of the table of handles, or none.                      *)

Follows == (UNCHANGED <<OpenHandles, Users>> \/ Handles!Next) /\ CountExact'

CountInv == NodesInv /\ CountExact

\* Thread t at work on its own table and on node n does not show in the handles
\* of the others.
LEMMA OthersSeen ==
    ASSUME NodesInv, NEW t \in Threads,
           \A u \in Threads : u # t => td_handtbl'[u] = td_handtbl[u] /\ loc'[u] = loc[u],
           NEW n \in Nodes, \A m \in Nodes : m # n => node'[m] = node[m],
           node'[n] = node[n] \/ \A u \in Threads : u # t => ~ Has(u, n)
    PROVE  \A u \in Threads, g \in Hands : u # t => Seen(u, g)' = Seen(u, g)
<1> SUFFICES ASSUME NEW u \in Threads, NEW g \in Hands, u # t PROVE Seen(u, g)' = Seen(u, g)
  OBVIOUS
<1>1. CASE td_handtbl[u][g] = NULL
  BY <1>1 DEF Seen
<1>2. CASE td_handtbl[u][g] # NULL
  <2>0. td_handtbl \in [Threads -> [Hands -> Nodes \cup {NULL}]]
    BY DEF NodesInv, TypeInv
  <2>1. td_handtbl[u][g] \in Nodes /\ Has(u, td_handtbl[u][g])
    BY ONLY <1>2, <2>0, u \in Threads, g \in Hands DEF Has
  <2>2. node'[td_handtbl[u][g]] = node[td_handtbl[u][g]]
    BY <2>1
  <2>3. QED  BY <2>2 DEF Seen
<1>3. QED  BY <1>1, <1>2

\* A step that shows nothing to the users of the handles.
LEMMA SameFollows ==
    ASSUME CountInv, \A t \in Threads, h \in Hands : Seen(t, h)' = Seen(t, h),
           UNCHANGED <<dev_count, lost>>, \A n \in lost : node'[n] = node[n]
    PROVE  Follows
<1>1. OpenHandles' = OpenHandles
  BY SameHandles
<1>2. \A d \in Counted : LostOf(d)' = LostOf(d)
  BY DEF LostOf
<1>3. CountExact'
  BY <1>1, <1>2, SameCounts DEF CountInv
<1>4. QED  BY <1>1, <1>3 DEF Follows, Users

\* In particular one in which a service goes on and works on the handle it
\* worked on.
LEMMA QuietFollows ==
    ASSUME CountInv, NEW t \in Threads, NEW l, Go(t, l),
           UNCHANGED <<td_handtbl, node, dev_count, lost>>,
           \A h \in Hands : td_handtbl[t][h] # NULL => (Working(l, h) <=> Working(loc[t], h))
    PROVE  Follows
<1>1. \A u \in Threads : loc'[u] = IF u = t THEN l ELSE loc[u]
  BY DEF CountInv, NodesInv, TypeInv, Go
<1>2. \A u \in Threads, h \in Hands : Seen(u, h)' = Seen(u, h)
  BY <1>1 DEF Seen
<1>3. QED  BY <1>2, SameFollows

\* The service that thread t is in ends with handle h open.
LEMMA OpenFollows ==
    ASSUME CountInv, NEW t \in Threads, NEW h \in Hands, NEW d \in Devices,
           loc[t].pc \in {"open", "inc"}, loc[t].hand = h, LowerFilled(t),
           td_handtbl[t][h] # NULL, node[td_handtbl[t][h]].dev = d,
           Return(t), UNCHANGED <<td_handtbl, node, lost>>,
           \A c \in Counted : dev_count'[c] = IF c = d THEN dev_count[c] + 1 ELSE dev_count[c]
    PROVE  Follows
<1>1. \A u \in Threads : loc'[u] = IF u = t THEN Idle ELSE loc[u]
  BY DEF CountInv, NodesInv, TypeInv, Return, Go
<1>0. /\ loc[t].pc \in {"open", "inc"} /\ loc[t].hand = h
      /\ td_handtbl' = td_handtbl /\ node' = node
      /\ td_handtbl[t][h] # NULL /\ node[td_handtbl[t][h]].dev = d
  OBVIOUS
<1>2. \A u \in Threads, g \in Hands : (u # t \/ g # h) => Seen(u, g)' = Seen(u, g)
  BY ONLY <1>0, <1>1 DEF Seen, Working, Idle
<1>3. Seen(t, h) = NULL /\ Seen(t, h)' = d
  BY ONLY <1>0, <1>1, t \in Threads DEF Seen, Working, Idle
<1>4. OpenHandles[<<t, h>>] = NULL /\ OpenHandles' = [OpenHandles EXCEPT ![<<t, h>>] = d]
  BY ONLY <1>2, <1>3, t \in Threads, h \in Hands, OneHandle, SeenIs
<1>5. \A c \in Counted : LostOf(c)' = LostOf(c)
  BY DEF LostOf
<1>6. CountExact'
  BY <1>4, <1>5, OpenCounts DEF CountInv
<1>7. ASSUME NEW g \in Hands, g < h PROVE OpenHandles[<<t, g>>] # NULL
  <2>1. g # h /\ td_handtbl[t][g] # NULL
    BY ONLY <1>7, LowerFilled(t), h \in Hands, <1>0, DeviceAssumption DEF LowerFilled, Hands
  <2>2. td_handtbl[t][g] \in Nodes /\ node[td_handtbl[t][g]] # NULL
    <3>1. td_handtbl \in [Threads -> [Hands -> Nodes \cup {NULL}]] /\ Apart
      BY DEF CountInv, NodesInv, TypeInv
    <3>2. td_handtbl[t][g] \in Nodes
      BY ONLY <2>1, <3>1, t \in Threads, g \in Hands
    <3>3. QED  BY ONLY <3>1, <3>2, t \in Threads, g \in Hands DEF Apart, SomePlace, Has
  <2>3. node[td_handtbl[t][g]].dev \in Devices
    BY <2>2, NodeFields DEF CountInv, NodesInv, TypeInv
  <2>4. Seen(t, g) # NULL
    BY <2>1, <2>3, DeviceAssumption DEF Seen, Working
  <2>5. QED  BY <2>4, SeenIs
<1>8. Users' = [c \in DOMAIN Users |-> IF c = d THEN Users[c] + 1 ELSE Users[c]]
  BY DEF Users, Counted
<1>9. Handles!Open(t, h, d)
  BY <1>4, <1>7, <1>8 DEF Handles!Open, Handles!Count, Handles!Counted
<1>10. QED  BY <1>6, <1>9 DEF Follows, Handles!Next

\* Thread t goes to place l and begins to give up handle h of device d.
Closing(t, h, d, l) ==
    /\ loc[t].pc \in {"user", "dec"} /\ Go(t, l) /\ l.pc = "delhand" /\ l.hand = h
    /\ td_handtbl[t][h] # NULL /\ node[td_handtbl[t][h]].dev = d
    /\ UNCHANGED <<td_handtbl, node, lost>>
    /\ \A c \in Counted : dev_count'[c] = IF c = d THEN dev_count[c] - 1 ELSE dev_count[c]

\* Nobody sees the handle again.
LEMMA CloseFollows ==
    ASSUME CountInv, NEW t \in Threads, NEW h \in Hands, NEW d \in Devices, NEW l,
           Closing(t, h, d, l)
    PROVE  Follows
<1> USE DEF Closing
<1>1. \A u \in Threads : loc'[u] = IF u = t THEN l ELSE loc[u]
  BY DEF CountInv, NodesInv, TypeInv, Go
<1>2. \A u \in Threads, g \in Hands : (u # t \/ g # h) => Seen(u, g)' = Seen(u, g)
  BY <1>1 DEF Seen, Working
<1>3. Seen(t, h) = d /\ Seen(t, h)' = NULL
  BY <1>1 DEF Seen, Working
<1>4. OpenHandles[<<t, h>>] = d /\ OpenHandles' = [OpenHandles EXCEPT ![<<t, h>>] = NULL]
  BY <1>2, <1>3, OneHandle, SeenIs
<1>5. \A c \in Counted : /\ LostOf(c)' = LostOf(c)
                         /\ dev_count'[c] = IF c = d THEN dev_count[c] - 1 ELSE dev_count[c]
  BY DEF LostOf
<1>6. CountExact'
  <2>1. NodesInv /\ CountExact
    BY DEF CountInv
  <2>2. QED  BY ONLY <1>4, <1>5, <2>1, CloseCounts, t \in Threads, h \in Hands, d \in Devices
<1>7. \A c \in Counted : dev_count[c] \in Nat
  BY DevicesAre DEF Counted, CountInv, NodesInv, TypeInv
<1>8. Users' = [c \in DOMAIN Users |-> IF c = d THEN Users[c] + (-1) ELSE Users[c]]
  <2>1. \A c \in Counted : dev_count'[c] = IF c = d THEN dev_count[c] + (-1) ELSE dev_count[c]
    BY <1>7
  <2>2. QED  BY <2>1 DEF Users, Counted
<1>9. Handles!Close(t, h)
  BY <1>4, <1>8, DeviceAssumption DEF Handles!Close, Handles!Count, Handles!Counted
<1>10. QED  BY <1>6, <1>9 DEF Follows, Handles!Next

\* An exit forgets the handles of its thread, and the devices keep their
\* counts.
LEMMA ExitFollows ==
    ASSUME CountInv, NEW t \in Threads, krlsve_core_exit_thread(t)
    PROVE  Follows
<1>1. loc[t].pc = "user" /\ UNCHANGED <<dev_count, node, loc>>
  BY DEF krlsve_core_exit_thread, At
<1>2. /\ \A h \in Hands : td_handtbl'[t][h] = NULL
      /\ \A u \in Threads : u # t => td_handtbl'[u] = td_handtbl[u]
  BY DEF krlsve_core_exit_thread, CountInv, NodesInv, TypeInv
<1>3. td_handtbl[t] \in [Hands -> Nodes \cup {NULL}] /\ lost \subseteq Nodes
  BY DEF CountInv, NodesInv, TypeInv
<1>4. /\ \A n \in Nodes : n \in lost' <=> n \in lost \/ Has(t, n)
      /\ lost' \subseteq Nodes
  <2>1. \A n \in Nodes : n \in Range(td_handtbl[t]) <=> Has(t, n)
    BY <1>3 DEF Range, Has
  <2>2. Range(td_handtbl[t]) \subseteq Nodes \cup {NULL}
    BY <1>3 DEF Range
  <2>3. QED  BY <1>3, <2>1, <2>2, DeviceAssumption DEF krlsve_core_exit_thread
<1>5. \A u \in Threads, h \in Hands : Seen(u, h)' = IF u = t THEN NULL ELSE Seen(u, h)
  BY <1>1, <1>2 DEF Seen
<1>6. OpenHandles' = [s \in Threads \X Hands |-> IF s[1] = t THEN NULL ELSE OpenHandles[s]]
  <2>1. ASSUME NEW s \in Threads \X Hands
        PROVE  OpenHandles'[s] = IF s[1] = t THEN NULL ELSE OpenHandles[s]
    <3>1. PICK u \in Threads, h \in Hands : s = <<u, h>>
      OBVIOUS
    <3>2. QED  BY <1>5, <3>1, SeenIs
  <2>2. OpenHandles' = [s \in Threads \X Hands |-> OpenHandles'[s]]
    BY DEF OpenHandles
  <2>3. QED  BY <2>1, <2>2
<1>7. CountExact'
  BY <1>1, <1>4, <1>6, ExitCounts DEF CountInv
<1>8. Handles!Exit(t)
  BY <1>1, <1>6 DEF Handles!Exit, Users
<1>9. QED  BY <1>7, <1>8 DEF Follows, Handles!Next

\* A handle is given back that nobody sees any more.
LEMMA DropFollows ==
    ASSUME CountInv, NEW t \in Threads, loc[t].pc \in {"res", "delhand"}, Holds(t),
           td_handtbl' = [td_handtbl EXCEPT ![t][loc[t].hand] = NULL],
           Go(t, [loc[t] EXCEPT !.pc = "del"]),
           UNCHANGED <<dev_count, node, lost>>
    PROVE  Follows
<1> DEFINE h == loc[t].hand
           l == [loc[t] EXCEPT !.pc = "del"]
<1>1. l.pc = "del" /\ \A u \in Threads : loc'[u] = IF u = t THEN l ELSE loc[u]
  <2>1. loc[t] \in Service
    BY ServiceFields DEF CountInv, NodesInv, TypeInv, Steps
  <2>2. QED  BY <2>1 DEF CountInv, NodesInv, TypeInv, Go, Service
<1>2. h \in Hands
  BY DEF Holds
<1>3. /\ td_handtbl'[t][h] = NULL
      /\ \A g \in Hands : g # h => td_handtbl'[t][g] = td_handtbl[t][g]
      /\ \A u \in Threads : u # t => td_handtbl'[u] = td_handtbl[u]
  BY <1>2 DEF CountInv, NodesInv, TypeInv
<1> HIDE DEF l
<1>4. Working(loc[t], h) /\ \A g \in Hands : ~ Working(l, g) /\ (g # h => ~ Working(loc[t], g))
  BY <1>1 DEF Working
<1> HIDE DEF h
<1>5. \A u \in Threads, g \in Hands : Seen(u, g)' = Seen(u, g)
  BY <1>1, <1>2, <1>3, <1>4 DEF Seen
<1>6. QED  BY <1>5, SameFollows

\* What follows a driver's open that has nothing to count.
LEMMA OpenedFollows ==
    ASSUME CountInv, NEW t \in Threads, loc[t].pc = "open",
           node[loc[t].node].dev = "rfs", Opened(t),
           UNCHANGED <<dev_count, td_handtbl, node, lost>>
    PROVE  Follows
<1>1. CASE node[loc[t].node].acsflgs = "NEWFILE"
  <2> DEFINE l == [loc[t] EXCEPT !.pc = "del"]
  <2>1. Go(t, l) /\ loc[t].hand = NO_HAND
    BY <1>1 DEF Opened, CountInv, NodesInv, PlaceOK
  <2>2. loc[t] \in Service
    BY ServiceFields DEF CountInv, NodesInv, TypeInv, Steps
  <2>3. l.hand = NO_HAND
    BY <2>1, <2>2 DEF Service
  <2>4. \A h \in Hands : h # NO_HAND
    BY DeviceAssumption DEF Hands, NO_HAND
  <2> HIDE DEF l
  <2>5. QED  BY <2>1, <2>3, <2>4, QuietFollows DEF Working
<1>2. CASE node[loc[t].node].acsflgs # "NEWFILE"
  <2>1. Holds(t) /\ LowerFilled(t) /\ Return(t) /\ loc[t].node # NULL
    BY <1>2, CountedHolds, ServiceNode, DeviceAssumption DEF CountInv, NodesInv, PlaceOK, Opened
  <2>2. "rfs" \in Devices /\ "rfs" \notin Counted
    BY DevicesAre DEF Counted
  <2>3. QED  BY <2>1, <2>2, OpenFollows DEF Holds
<1>3. QED  BY <1>1, <1>2

\* A driver's open that fails changes nothing that a user of the table sees.
LEMMA OpenFailedFollows ==
    ASSUME CountInv, NEW t \in Threads, loc[t].pc = "open", OpenFailed(t),
           UNCHANGED <<dev_count, td_handtbl, node, lost>>
    PROVE  Follows
<1>1. loc[t] \in Service
  BY ServiceFields DEF CountInv, NodesInv, TypeInv, Steps
<1>2. ASSUME NEW l, Go(t, l), l.pc \in {"die", "res"}, l.hand = loc[t].hand PROVE Follows
  BY <1>2, QuietFollows DEF Working
<1>3. QED  BY <1>1, <1>2 DEF OpenFailed, hal_sysdie, Service

\* Every step changes handles and counts as HandleTable allows, and keeps the
\* counts exact.
LEMMA StepFollows == CountInv /\ [Next]_vars => Follows
<1> SUFFICES ASSUME CountInv, [Next]_vars PROVE Follows
  OBVIOUS
<1> USE DEF CountInv
<1>1. CASE UNCHANGED <<dev_count, td_handtbl, node, loc, lost>>
  BY <1>1, SameFollows DEF Seen
<1>2. ASSUME NEW t \in Threads, NEW o \in Requests, krlsve_core_open(t, o) PROVE Follows
  <2>1. loc[t].pc = "user" /\ UNCHANGED <<dev_count, td_handtbl, lost>>
    BY <1>2 DEF krlsve_core_open, At
  <2>2. CASE Return(t) /\ UNCHANGED node
    BY <2>1, <2>2, QuietFollows DEF Return, Working, Idle
  <2>3. ASSUME NEW n \in Nodes, node[n] = NULL, node' = [node EXCEPT ![n] = o],
               NEW l, Go(t, l), l.hand = NO_HAND
        PROVE  Follows
    <3>1. n \notin lost /\ (\A u \in Threads : ~ Has(u, n)) /\ \A m \in Nodes : m # n => node'[m] = node[m]
      BY <2>3 DEF NodesInv, TypeInv, Apart, SomePlace
    <3>2. \A u \in Threads : loc'[u] = IF u = t THEN l ELSE loc[u]
      BY <2>3 DEF NodesInv, TypeInv, Go
    <3>3. \A u \in Threads, g \in Hands : u # t => Seen(u, g)' = Seen(u, g)
      BY <2>1, <3>1, <3>2, OthersSeen
    <3>4. \A g \in Hands : ~ Working(l, g) /\ ~ Working(loc[t], g)
      BY <2>1, <2>3, DeviceAssumption DEF Working, Hands, NO_HAND
    <3>5. \A g \in Hands : td_handtbl[t][g] \in Nodes \ {n} \/ td_handtbl[t][g] = NULL
      BY <3>1 DEF Has, NodesInv, TypeInv
    <3>6. \A g \in Hands : Seen(t, g)' = Seen(t, g)
      BY <2>1, <3>1, <3>2, <3>4, <3>5 DEF Seen
    <3>7. \A m \in lost : node'[m] = node[m]
      BY <3>1 DEF NodesInv, TypeInv
    <3>8. QED  BY <2>1, <3>3, <3>6, <3>7, SameFollows
  <2>4. QED  BY <1>2, <2>2, <2>3 DEF krlsve_core_open
<1>3. ASSUME NEW t \in Threads, krlthd_add_objnode(t) PROVE Follows
  <2>1. loc[t].pc = "add" /\ loc[t].hand = NO_HAND /\ UNCHANGED <<dev_count, node, lost>>
    BY <1>3 DEF krlthd_add_objnode, At, NodesInv, PlaceOK
  <2>2. loc[t] \in Service
    BY <2>1, ServiceFields DEF NodesInv, TypeInv, Steps
  <2>3. CASE FreeHands(t) = {}
    <3> DEFINE l == [loc[t] EXCEPT !.pc = "res"]
    <3>1. Go(t, l) /\ UNCHANGED td_handtbl
      BY <1>3, <2>3 DEF krlthd_add_objnode
    <3>2. l.hand = NO_HAND
      BY <2>1, <2>2 DEF Service
    <3> HIDE DEF l
    <3>3. \A g \in Hands : ~ Working(l, g) /\ ~ Working(loc[t], g)
      BY <2>1, <3>2, DeviceAssumption DEF Working, Hands, NO_HAND
    <3>4. QED  BY <2>1, <3>1, <3>3, QuietFollows
  <2>4. CASE FreeHands(t) # {}
    <3> DEFINE h == Min(FreeHands(t))
               l == [loc[t] EXCEPT !.pc = "open", !.hand = h]
    <3>1. h \in Hands /\ td_handtbl[t][h] = NULL
      BY <2>4, FirstFree
    <3>2. td_handtbl' = [td_handtbl EXCEPT ![t][h] = loc[t].node] /\ Go(t, l)
      BY <1>3, <2>4 DEF krlthd_add_objnode
    <3> HIDE DEF h
    <3>3. l.pc = "open" /\ l.hand = h
      BY <2>2 DEF Service
    <3>4. \A u \in Threads : loc'[u] = IF u = t THEN l ELSE loc[u]
      BY <3>2 DEF NodesInv, TypeInv, Go
    <3> HIDE DEF l
    <3>5. /\ \A g \in Hands : g # h => td_handtbl'[t][g] = td_handtbl[t][g]
          /\ \A u \in Threads : u # t => td_handtbl'[u] = td_handtbl[u]
      BY <3>1, <3>2 DEF NodesInv, TypeInv
    <3>6. Working(l, h) /\ \A g \in Hands : ~ Working(loc[t], g) /\ (g # h => ~ Working(l, g))
      BY <2>1, <3>3 DEF Working
    <3>7. \A u \in Threads, g \in Hands : Seen(u, g)' = Seen(u, g)
      BY <2>1, <3>1, <3>4, <3>5, <3>6 DEF Seen
    <3>8. QED  BY <2>1, <3>7, SameFollows
  <2>5. QED  BY <2>3, <2>4
<1>4. ASSUME NEW t \in Threads, krldev_inc_devcount(t) PROVE Follows
  <2> DEFINE d == node[loc[t].node].dev
  <2>1. loc[t].pc = "inc" /\ UNCHANGED <<td_handtbl, node, lost>> /\ Opened(t)
    BY <1>4 DEF krldev_inc_devcount, At
  <2>2. d \in Counted /\ d \in Devices /\ node[loc[t].node].acsflgs # "NEWFILE" /\ loc[t].node # NULL
    BY <2>1, ServiceNode, NodeFields, DeviceAssumption, DevicesAre DEF NodesInv, PlaceOK, Counted
  <2>3. Holds(t) /\ loc[t].hand # NO_HAND
    <3>1. Holds(t)
      BY <2>1 DEF NodesInv, PlaceOK
    <3>2. QED  BY <3>1, DeviceAssumption DEF Holds, Hands, NO_HAND
  <2>4. LowerFilled(t) /\ Return(t)
    BY <2>1, <2>2, <2>3 DEF NodesInv, PlaceOK, Opened
  <2>5. \A c \in Counted : dev_count'[c] = IF c = d THEN dev_count[c] + 1 ELSE dev_count[c]
    <3>1. dev_count' = [dev_count EXCEPT ![d] = @ + 1]
      BY <1>4 DEF krldev_inc_devcount
    <3> HIDE DEF d
    <3>2. QED  BY <2>2, <3>1, DevicesAre DEF NodesInv, TypeInv, Counted
  <2> HIDE DEF d
  <2>6. QED  BY <2>1, <2>2, <2>3, <2>4, <2>5, OpenFollows DEF Holds, d
<1>5. ASSUME NEW t \in Threads, NEW d \in Counted, Calls(t, d), dev_count[d] < COUNTMAX,
             Go(t, [loc[t] EXCEPT !.pc = "inc"]),
             UNCHANGED <<dev_count, td_handtbl, node, lost>>
      PROVE  Follows
  <2> DEFINE l == [loc[t] EXCEPT !.pc = "inc"]
  <2>1. loc[t].pc = "open"
    BY <1>5 DEF Calls, At
  <2>2. loc[t] \in Service
    BY <2>1, ServiceFields DEF NodesInv, TypeInv, Steps
  <2>3. l.pc = "inc" /\ l.hand = loc[t].hand /\ Go(t, l)
    BY <1>5, <2>2 DEF Service
  <2> HIDE DEF l
  <2>4. QED  BY <1>5, <2>1, <2>3, QuietFollows DEF Working
<1>6. \A d \in Counted : dev_count[d] < COUNTMAX /\ dev_count[d] \in Nat /\ ~ (dev_count[d] >= COUNTMAX)
  <2>1. \A d \in Counted : dev_count[d] < COUNTMAX
    BY CountBound
  <2>2. \A d \in Counted : dev_count[d] \in Nat
    BY DevicesAre DEF NodesInv, TypeInv, Counted
  <2>3. QED  BY <2>1, <2>2, DeviceAssumption
<1>7. ASSUME NEW t \in Threads, uart_open(t) PROVE Follows
  BY <1>5, <1>6, <1>7 DEF uart_open, Counted
<1>8. ASSUME NEW t \in Threads, systick_open(t) PROVE Follows
  BY <1>5, <1>6, <1>8 DEF systick_open, Counted
<1>9. ASSUME NEW t \in Threads, rfs_open(t) PROVE Follows
  BY <1>9, OpenedFollows, OpenFailedFollows DEF rfs_open, Calls, At
<1>10. ASSUME NEW t \in Threads, res_step(t) PROVE Follows
  <2>1. loc[t].pc = "res" /\ UNCHANGED <<dev_count, node, lost>>
    BY <1>10 DEF res_step, At
  <2>2. CASE Holds(t)
    <3>1. loc[t].hand # NO_HAND /\ td_handtbl[t][loc[t].hand] # NULL
      BY <2>1, <2>2, ServiceNode, DeviceAssumption DEF Holds, Hands, NO_HAND
    <3>2. QED  BY <1>10, <2>1, <2>2, <3>1, DropFollows DEF res_step
  <2>3. CASE loc[t].hand = NO_HAND
    <3> DEFINE l == [loc[t] EXCEPT !.pc = "del"]
    <3>1. Go(t, l) /\ td_handtbl' = td_handtbl
      BY <1>10, <2>3 DEF res_step
    <3>2. l.hand = NO_HAND
      BY <2>1, <2>3, ServiceFields DEF NodesInv, TypeInv, Steps, Service
    <3> HIDE DEF l
    <3>3. \A g \in Hands : ~ Working(l, g) /\ ~ Working(loc[t], g)
      BY <2>3, <3>2, DeviceAssumption DEF Working, Hands, NO_HAND
    <3>4. QED  BY <2>1, <3>1, <3>3, QuietFollows
  <2>4. QED  BY <2>1, <2>2, <2>3 DEF NodesInv, PlaceOK
<1>11. ASSUME NEW t \in Threads, krldel_objnode(t) PROVE Follows
  <2> DEFINE n == loc[t].node
  <2>1. loc[t].pc = "del" /\ UNCHANGED <<dev_count, td_handtbl, lost>>
    BY <1>11 DEF krldel_objnode, At
  <2>2. n \in Nodes /\ node[n] # NULL
    BY <2>1, ServiceNode
  <2>3. node' = [node EXCEPT ![n] = NULL] /\ Go(t, Idle)
    BY <1>11, <2>2 DEF krldel_objnode, Return
  <2>4. Carries(t, n)
    BY <2>1 DEF NodesInv, PlaceOK, Carries
  <2>5. n \notin lost /\ \A u \in Threads : ~ Has(u, n)
    BY <2>2, <2>4 DEF NodesInv, Apart, OnePlace
  <2>6. \A m \in Nodes : m # n => node'[m] = node[m]
    BY <2>3 DEF NodesInv, TypeInv
  <2> HIDE DEF n
  <2>7. \A u \in Threads : loc'[u] = IF u = t THEN Idle ELSE loc[u]
    BY <2>3 DEF NodesInv, TypeInv, Go
  <2>8. \A u \in Threads, g \in Hands : u # t => Seen(u, g)' = Seen(u, g)
    BY <2>1, <2>2, <2>5, <2>6, <2>7, OthersSeen
  <2>9. \A g \in Hands : ~ Working(Idle, g) /\ ~ Working(loc[t], g)
    BY <2>1 DEF Working, Idle
  <2>10. \A g \in Hands : td_handtbl[t][g] \in Nodes \ {n} \/ td_handtbl[t][g] = NULL
    BY <2>5 DEF Has, NodesInv, TypeInv
  <2>11. \A g \in Hands : Seen(t, g)' = Seen(t, g)
    BY <2>1, <2>6, <2>7, <2>9, <2>10 DEF Seen
  <2>12. \A m \in lost : node'[m] = node[m]
    BY <2>5, <2>6 DEF NodesInv, TypeInv
  <2>13. QED  BY <2>1, <2>8, <2>11, <2>12, SameFollows
<1>12. ASSUME NEW t \in Threads, NEW l, Go(t, l), loc[t].pc \in {"user", "rw"},
              l.pc \in {"user", "rw", "dec"}, UNCHANGED <<dev_count, td_handtbl, node, lost>>
       PROVE  Follows
  BY <1>12, QuietFollows DEF Working
<1>13. ASSUME NEW t \in Threads, NEW h \in Hands, krlsve_core_rw(t, h) PROVE Follows
  <2>1. loc[t].pc = "user" /\ UNCHANGED <<dev_count, td_handtbl, node, lost>>
    BY <1>13 DEF krlsve_core_rw, At
  <2>2. QED  BY <1>12, <1>13, <2>1 DEF krlsve_core_rw, Return, Idle
<1>14. ASSUME NEW t \in Threads, DriverReturns(t) PROVE Follows
  BY <1>12, <1>14 DEF DriverReturns, At, Return, Idle
<1>15. ASSUME NEW t \in Threads, NEW h \in Hands, krlsve_core_close(t, h) PROVE Follows
  <2> DEFINE n == td_handtbl[t][h]
             l == [pc |-> "delhand", node |-> n, hand |-> h]
  <2>1. loc[t].pc = "user" /\ UNCHANGED <<dev_count, td_handtbl, node, lost>>
    BY <1>15 DEF krlsve_core_close, At
  <2>2. CASE Return(t)
    BY <1>12, <2>1, <2>2 DEF Return, Idle
  <2>3. CASE Go(t, [l EXCEPT !.pc = "dec"])
    BY <1>12, <2>1, <2>3
  <2>4. CASE n # NULL /\ node[n].dev = "rfs" /\ Go(t, l)
    <3>1. "rfs" \in Devices /\ "rfs" \notin Counted
      BY DevicesAre DEF Counted
    <3>2. Closing(t, h, "rfs", l)
      BY ONLY <2>1, <2>4, <3>1 DEF Closing
    <3>3. QED  BY ONLY <3>1, <3>2, CountInv, t \in Threads, h \in Hands, CloseFollows
  <2>5. CASE n # NULL /\ node[n].dev = "systick" /\ ~ Counting("systick")
    <3>1. Seen(t, h) = "systick"
      BY <2>1, <2>5 DEF Seen, Working
    <3>2. dev_count["systick"] >= 1
      BY <3>1, CountsMine DEF Counted
    <3>3. QED  BY <2>5, <3>2 DEF Counting
  <2>6. QED  BY <1>15, <2>2, <2>3, <2>4, <2>5 DEF krlsve_core_close, uart_close, systick_close, rfs_close
<1>16. ASSUME NEW t \in Threads, krldev_dec_devcount(t) PROVE Follows
  <2> DEFINE d == node[loc[t].node].dev
             h == loc[t].hand
             l == [loc[t] EXCEPT !.pc = "delhand"]
  <2>1. loc[t].pc = "dec" /\ UNCHANGED <<td_handtbl, node, lost>> /\ Go(t, l)
    BY <1>16 DEF krldev_dec_devcount, At
  <2>2. d \in Counted /\ d \in Devices /\ loc[t].node # NULL
    BY <2>1, ServiceNode, DeviceAssumption, DevicesAre DEF NodesInv, PlaceOK, Counted
  <2>3. h \in Hands /\ td_handtbl[t][h] = loc[t].node
    BY <2>1 DEF NodesInv, PlaceOK, Holds
  <2>4. l.pc = "delhand" /\ l.hand = h
    BY <2>1, ServiceFields DEF NodesInv, TypeInv, Steps, Service
  <2> HIDE DEF l, h
  <2>5. Seen(t, h) = d
    BY <2>1, <2>2, <2>3 DEF Seen, Working
  <2>6. dev_count' = [dev_count EXCEPT ![d] = IF @ = 0 THEN COUNTMAX ELSE @ - 1]
    BY <1>16 DEF krldev_dec_devcount
  <2> HIDE DEF d
  <2>7. dev_count[d] >= 1 /\ dev_count[d] \in Nat
    BY <2>2, <2>3, <2>5, CountsMine DEF NodesInv, TypeInv
  <2>8. \A c \in Counted : dev_count'[c] = IF c = d THEN dev_count[c] - 1 ELSE dev_count[c]
    <3>1. dev_count[d] # 0
      BY <2>7
    <3>2. QED  BY <2>2, <2>6, <3>1, DevicesAre DEF NodesInv, TypeInv, Counted
  <2>9. Closing(t, h, d, l)
    BY ONLY <2>1, <2>2, <2>3, <2>4, <2>8 DEF Closing, d
  <2>10. QED  BY ONLY <2>2, <2>3, <2>9, CountInv, t \in Threads, CloseFollows
<1>17. ASSUME NEW t \in Threads, krlthd_del_objnode(t) PROVE Follows
  <2>1. loc[t].pc = "delhand" /\ UNCHANGED <<dev_count, node, lost>>
    BY <1>17 DEF krlthd_del_objnode, At
  <2>2. loc[t].node # NULL /\ Holds(t)
    BY <2>1, ServiceNode, DeviceAssumption DEF NodesInv, PlaceOK
  <2>3. td_handtbl[t][loc[t].hand] # NULL
    BY <2>2 DEF Holds
  <2>4. QED  BY <1>17, <2>1, <2>2, <2>3, DropFollows DEF krlthd_del_objnode
<1>18. ASSUME NEW t \in Threads, krlsve_core_exit_thread(t) PROVE Follows
  BY <1>18, ExitFollows
<1>19. CASE krlrun_driverentry
  BY <1>1, <1>19 DEF krlrun_driverentry
<1>20. CASE UNCHANGED vars
  BY <1>1, <1>20 DEF vars
<1>21. QED
  BY <1>2, <1>3, <1>4, <1>7, <1>8, <1>9, <1>10, <1>11, <1>13, <1>14, <1>15, <1>16, <1>17, <1>18,
     <1>19, <1>20 DEF Next

\* At the start no handle is open and every count is 0.
LEMMA CountInit == Init => CountExact
<1> SUFFICES ASSUME Init PROVE CountExact
  OBVIOUS
<1>1. \A d \in Counted : Using(d) = {} /\ LostOf(d) = {} /\ dev_count[d] = 0
  <2> SUFFICES ASSUME NEW d \in Counted PROVE Using(d) = {} /\ LostOf(d) = {} /\ dev_count[d] = 0
    OBVIOUS
  <2>1. d # NULL /\ d \in Devices
    BY DeviceAssumption, DevicesAre DEF Counted
  <2>2. \A t \in Threads, h \in Hands : Seen(t, h) = NULL
    BY DEF Seen, Init
  <2>3. \A s \in Threads \X Hands : OpenHandles[s] = NULL
    <3> SUFFICES ASSUME NEW s \in Threads \X Hands PROVE OpenHandles[s] = NULL
      OBVIOUS
    <3>1. PICK t \in Threads, h \in Hands : s = <<t, h>>
      OBVIOUS
    <3>2. QED  BY <2>2, <3>1, SeenIs
  <2>4. QED  BY <2>1, <2>3 DEF Using, LostOf, Init
<1>2. QED  BY <1>1, CountIs, FS_EmptySet

\* dev_count of the keyboard and of the timer is the number of handles in use,
\* those that exited threads have left behind included: the counter that is
\* tested outside dev_lock never wraps.
THEOREM CountExactCorrect == Spec => []CountExact
<1>1. Init => CountInv
  BY NodesInit, CountInit DEF CountInv
<1>2. CountInv /\ [Next]_vars => CountInv'
  BY NodesStep, StepFollows DEF CountInv, Follows
<1>3. CountInv => CountExact
  BY DEF CountInv
<1>4. QED  BY <1>1, <1>2, <1>3, PTL DEF Spec

\* The open, close and exit services implement a table of handles, filled from
\* below, with a count of users for each device that counts.
THEOREM HandlesImplemented == Spec => ImplementsHandles
<1>1. Init => CountInv
  BY NodesInit, CountInit DEF CountInv
<1>2. CountInv /\ [Next]_vars => CountInv'
  BY NodesStep, StepFollows DEF CountInv, Follows
<1>3. Init => Handles!Init
  <2> SUFFICES ASSUME Init PROVE Handles!Init
    OBVIOUS
  <2>1. \A s \in Threads \X Hands : ~ InUse(s)
    BY DEF InUse, Filled, Init
  <2>2. OpenHandles = [s \in Threads \X Hands |-> NULL]
    BY <2>1 DEF OpenHandles
  <2>3. \A d \in DOMAIN Users : Users[d] = 0
    BY DevicesAre DEF Users, Init
  <2>4. QED  BY <2>2, <2>3 DEF Handles!Init, Handles!Counted
<1>4. CountInv /\ [Next]_vars => [Handles!Next]_<<OpenHandles, Users>>
  BY StepFollows DEF Follows
<1>5. QED  BY <1>1, <1>2, <1>3, <1>4, PTL DEF Spec, ImplementsHandles, Handles!Spec
=============================================================================
