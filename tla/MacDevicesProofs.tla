-------------------------- MODULE MacDevicesProofs --------------------------
(***************************************************************************)
(* Proofs about MacDevices, for any devices, any calls of the application  *)
(* and any bounds.                                                         *)
(*                                                                         *)
(* HandInv is about the two threads: once stop has returned, the thread of *)
(* the run loop is over.  ListInv is about the pointers: the list is that  *)
(* of the nodes not freed, by falling numbers, and the unplugging branch   *)
(* knows two neighbours of it.  NodeInv relates the nodes to what the      *)
(* device manager announced and has still to announce.  MacInv, all of     *)
(* them, is inductive until clean frees the list, after which nothing runs *)
(* in the model.                                                           *)
(***************************************************************************)
EXTENDS MacDevices, PointerListsProofs, TLAPS

Places == {"idle", "starting", "cleaned", "none", "setup", "opened", "run",
           "plugged", "unplugged", "sweep", "swept", "inputs", "ending",
           "exiting"}

HandTypeOK ==
    /\ {thread, running} \subseteq BOOLEAN
    /\ stopping \subseteq Thread
    /\ pc \in [Thread -> Places]

\* Without a thread nothing runs, and nobody waits for its end.
NoThread == ~thread => pc[Loop] = "none" /\ ~running /\ stopping = {}

\* Until the thread confirms that it runs, start waits for it.
Unconfirmed ==
    pc[Loop] \in {"setup", "opened"} =>
      ~running /\ stopping = {} /\ pc[Owner] = "starting"

\* From then on the flag stays set until the thread is over.
Confirmed == pc[Loop] \notin {"none", "setup", "opened"} => running

\* The run loop's thread calls stop from a callback, which it never leaves.
StopsItself == Loop \in stopping => CalledBack

HandInv ==
    HandTypeOK /\ NoThread /\ Unconfirmed /\ Confirmed /\ StopsItself

LEMMA HandInit == Init => HandInv
  BY MacAssumption
  DEF Init, HandInv, HandTypeOK, NoThread, Unconfirmed, Confirmed,
      StopsItself, CalledBack, Thread, Places

\* A step that only moves the run loop's thread, once confirmed, and not out of
\* a callback in which it waits for its own end.
LEMMA HandMoves ==
  ASSUME HandInv, UNCHANGED <<thread, running, stopping>>,
         \/ UNCHANGED pc
         \/ \E l \in Places \ {"none", "setup", "opened"} :
              /\ Goto(Loop, l)
              /\ pc[Loop] \notin {"none", "setup", "opened"}
              /\ Loop \notin stopping
  PROVE  HandInv'
  BY MacAssumption
  DEF HandInv, HandTypeOK, NoThread, Unconfirmed, Confirmed, StopsItself,
      CalledBack, Thread, Goto, Places

LEMMA HandStart == HandInv /\ Start => HandInv'
  BY MacAssumption
  DEF Start, Owning, HandInv, HandTypeOK, NoThread, Unconfirmed, Confirmed,
      StopsItself, CalledBack, Thread, Places

LEMMA HandLoop == HandInv /\ (RunLoop \/ LoopStop) => HandInv'
<1> SUFFICES ASSUME HandInv, RunLoop \/ LoopStop PROVE HandInv'
  OBVIOUS
<1> USE MacAssumption
    DEF HandInv, HandTypeOK, NoThread, Unconfirmed, Confirmed, StopsItself,
        CalledBack, Thread, Goto, Places, handshake
<1>1. CASE LoopOpen BY <1>1 DEF LoopOpen
<1>2. CASE LoopConfirm BY <1>2 DEF LoopConfirm
<1>3. CASE LoopClose BY <1>3 DEF LoopClose
<1>4. CASE LoopExit BY <1>4 DEF LoopExit
<1>5. CASE LoopStop BY <1>5 DEF LoopStop
<1>6. QED BY <1>1, <1>2, <1>3, <1>4, <1>5 DEF RunLoop

LEMMA HandStop ==
  ASSUME HandInv, NEW t \in Thread, Stop(t) \/ StopReturn(t)
  PROVE  HandInv'
<1> USE MacAssumption
    DEF HandInv, HandTypeOK, NoThread, Unconfirmed, Confirmed, StopsItself,
        CalledBack, Thread, Places
<1>1. CASE Stop(t) BY <1>1 DEF Stop, Calling
<1>2. CASE StopReturn(t) BY <1>2 DEF StopReturn
<1>3. QED BY <1>1, <1>2

LEMMA HandOwner == HandInv /\ (StartReturn \/ Clean) => HandInv'
<1> SUFFICES ASSUME HandInv, StartReturn \/ Clean PROVE HandInv'
  OBVIOUS
<1> USE MacAssumption
    DEF HandInv, HandTypeOK, NoThread, Unconfirmed, Confirmed, StopsItself,
        CalledBack, Thread, Goto, Places, handshake
<1>1. CASE StartReturn BY <1>1 DEF StartReturn
<1>2. CASE Clean BY <1>2 DEF Clean, Owning
<1>3. QED BY <1>1, <1>2

LEMMA HandHandlers ==
  ASSUME HandInv,
         Handlers \/ Callbacks \/ \E d \in Dev : Input(d)
  PROVE  HandInv'
<1>1. UNCHANGED <<thread, running, stopping>>
  BY DEF Handlers, Callbacks, Drop, Matched, Allocate, Removed, RemovedNull,
     RemovedUnknown, Sweep, Swept, PluggedReturn, UnpluggedReturn,
     SweptReturn, InputReturn, Reenumerated, Input, handshake
<1>2. Loop \in stopping => CalledBack
  BY DEF HandInv, StopsItself
<1>3. \/ UNCHANGED pc
      \/ \E l \in Places \ {"none", "setup", "opened"} :
           /\ Goto(Loop, l)
           /\ pc[Loop] \notin {"none", "setup", "opened"}
           /\ Loop \notin stopping
  <2>1. ASSUME NEW d \in Dev,
               \/ Drop(d) \/ Matched(d) \/ Removed(d) \/ RemovedNull(d)
               \/ RemovedUnknown(d) \/ Input(d)
        PROVE  <1>3!:
    BY <1>2, <2>1
    DEF Drop, Matched, Allocate, Removed, RemovedNull, RemovedUnknown, Input,
        Announced, Departed, Goto, Places, CalledBack
  <2>2. CASE Sweep \/ Swept
    BY <1>2, <2>2 DEF Sweep, Swept, Goto, Places, CalledBack
  <2>3. CASE PluggedReturn \/ UnpluggedReturn \/ InputReturn
    BY <2>3 DEF PluggedReturn, UnpluggedReturn, InputReturn, Goto, Places
  <2>4. CASE SweptReturn
    BY <2>4 DEF SweptReturn, Goto, Places
  <2>5. CASE Reenumerated(Loop)
    BY <2>5 DEF Reenumerated
  <2>6. QED BY <2>1, <2>2, <2>3, <2>4, <2>5 DEF Handlers, Callbacks
<1>4. QED BY <1>1, <1>3, HandMoves

LEMMA HandRest ==
  ASSUME HandInv,
         \/ System
         \/ Reenumerated(Owner)
         \/ \E t \in Thread :
              \/ \E n \in told : RegisterAdd(t, n) \/ RegisterDel(t, n)
              \/ Reenumerate(t)
  PROVE  HandInv'
<1>1. UNCHANGED <<thread, running, stopping, pc>>
  BY DEF System, Plug, Unplug, Expire, Reenumerated, RegisterAdd, RegisterDel,
     Reenumerate, handshake
<1>2. QED BY <1>1, HandMoves

\* The handshake keeps the invariant in every step.
LEMMA HandStep == HandInv /\ [Next]_vars => HandInv'
<1> SUFFICES ASSUME HandInv, [Next]_vars PROVE HandInv'
  OBVIOUS
<1>1. CASE Next
  BY <1>1, HandStart, HandLoop, HandStop, HandOwner, HandHandlers, HandRest
  DEF Next, Lifecycle, Calls
<1>2. CASE UNCHANGED vars
  BY <1>2, HandMoves DEF vars, handshake
<1>3. QED BY <1>1, <1>2

\* Who may be where of the two threads, and what the condition's flag says.
THEOREM HandshakeInvariant == Spec => []HandInv
<1>1. QED BY HandInit, HandStep, PTL DEF Spec

\* When stop has returned, the thread of the run loop is past its last callback
\* (helpers.m:164), whatever its callbacks and the system did in the meantime.
THEOREM StopIsQuiet == Spec => []Quiet
<1>1. HandInv => Quiet BY DEF HandInv, NoThread, Quiet
<1>2. QED BY <1>1, HandshakeInvariant, PTL

-----------------------------------------------------------------------------
(* The list, for any devices and any bounds                                *)

\* Nodes that were allocated and are not freed.
Known == 1 .. allocated
Alive == Known \ freed

\* The pointers lead through the nodes alive, the newest first.
Shape ==
    LET s == From(devices) IN
    /\ Chain(next, devices, s, Node)
    /\ Elements(s) = Alive
    /\ \A i, j \in 1 .. Len(s) : i < j => s[j] < s[i]

\* The node the unplugging branch comes to next, the successor of the one it
\* reports, and device_prev before it.
Ahead == IF pc[Loop] = "swept" THEN next[cur] ELSE cur

Sweeping ==
    pc[Loop] \in {"sweep", "swept"} =>
      /\ Ahead \in Alive \cup {Null}
      /\ \/ prev = devices /\ Ahead = devices
         \/ prev \in Alive /\ next[prev] = Ahead

\* The node reported as unplugged by the branch is one that was allocated.
Reporting == pc[Loop] = "swept" => cur \in Known

\* The run loop's thread re-enumerates in its callbacks, where it changes no
\* list; another thread may be at a node freed in the meantime.
Walking ==
    /\ walk[Loop] # Null => CalledBack /\ walk[Loop] \in Alive
    /\ walk[Owner] # Null => walk[Owner] \in Known
    /\ freed \cup told \subseteq Known

\* A freed node leads to a node that was allocated, if not to one alive.
Pointing == \A n \in Known : next[n] \in Known \cup {Null}

ListInv ==
    Shape /\ Sweeping /\ Reporting /\ Walking /\ Pointing /\ FreedIsReported

\* Nodes date from the starts in the order they are numbered in.
Dated ==
    /\ \A n \in Known : session[n] <= starts
    /\ \A m, n \in Known : m < n => session[m] <= session[n]
    /\ pc[Loop] = "setup" => \A n \in Known : ~Current(n)

\* A device gets one node in a session, once it is there, and the node is freed
\* when it has gone.
Single ==
    /\ \A m, n \in Known :
         Current(m) /\ Current(n) /\ dev[m] = dev[n] => m = n
    /\ \A n \in Known : entry[dev[n]] # "new"
    /\ \A n \in freed : dev[n] \in Gone

\* What the manager has still to announce.
Announcing ==
    /\ ~Open => matching \cup removal \cup hooked = {}
    /\ \A d \in matching :
         /\ entry[d] # "new"
         /\ d \in Gone => d \in removal
         /\ \A n \in Known : Current(n) => dev[n] # d

\* A device that is there is announced or has its node, and the node of one
\* that has gone will be found.
Following ==
    Open =>
      /\ \A d \in Present \ (dropped \cup matching) :
           \E n \in Known : Current(n) /\ dev[n] = d
      /\ \A n \in Alive :
           Current(n) /\ dev[n] \in Gone \ dropped =>
             \/ dev[n] \in removal
             \/ /\ pc[Loop] \in {"sweep", "swept"}
                /\ entry[dev[n]] = "failed"
                /\ n <= Ahead

\* Inputs are called back for nodes that are registered.
Hooked ==
    \A d \in hooked : \E n \in Known \cap registered : Current(n) /\ dev[n] = d

NodeInv == Dated /\ Single /\ Announcing /\ Following /\ Hooked

MacInv ==
    /\ HandInv
    /\ TypeOK
    /\ LoopWalksLive
    /\ pc[Owner] # "cleaned" => ListInv /\ NodeInv

-----------------------------------------------------------------------------
(* What the shape of the list says of its nodes                            *)

LEMMA AliveFacts ==
  ASSUME TypeOK
  PROVE  /\ Known \subseteq Node /\ Alive \subseteq Known
         /\ allocated \in Nat /\ MaxNodes \in Nat /\ starts \in Nat
         /\ \A n \in Known : n \in Nat /\ n > 0 /\ n # Null
         /\ \A n \in Id : n \in Nat
  BY MacAssumption DEF TypeOK, Known, Alive, Node, Id, Null

\* Neighbours in a list whose numbers decrease.
LEMMA ShapeFacts ==
  ASSUME TypeOK, Shape
  PROVE  /\ devices # Null => devices \in Alive
         /\ devices = Null => Alive = {}
         /\ \A n \in Alive : n <= devices
         /\ \A n \in Alive : next[n] \in Alive \cup {Null} /\ next[n] < n
         /\ \A m, n \in Alive : m < n => m <= next[n]
         /\ Nodes(devices) = Alive
<1> DEFINE s == From(devices)
<1>1. /\ Chain(next, devices, s, Node)
      /\ Elements(s) = Alive
      /\ \A i, j \in 1 .. Len(s) : i < j => s[j] < s[i]
  BY DEF Shape
<1> HIDE DEF s
<1>2. /\ s \in Seq(Node) /\ Len(s) \in Nat
      /\ devices = Place(s, 1)
      /\ \A k \in 1 .. Len(s) : next[s[k]] = Place(s, k + 1)
  BY <1>1 DEF Chain
<1>3. \A k \in 1 .. Len(s) : s[k] \in Alive /\ s[k] \in Nat /\ s[k] > 0
  BY <1>1, AliveFacts DEF Elements
<1>4. \A n \in Alive : \E k \in 1 .. Len(s) : n = s[k]
  BY <1>1 DEF Elements
<1>5. \A k \in 1 .. Len(s) :
        /\ k < Len(s) => k + 1 \in 1 .. Len(s) /\ next[s[k]] = s[k + 1]
        /\ ~(k < Len(s)) => next[s[k]] = 0
  BY <1>2 DEF Place
<1>6. devices # Null => devices \in Alive
  BY <1>2, <1>3 DEF Place, Null
<1>7. \A k \in 1 .. Len(s) : 1 \in 1 .. Len(s) /\ devices = s[1]
  BY <1>2 DEF Place
<1>8. devices = Null => Alive = {}
  BY <1>3, <1>4, <1>7 DEF Null
<1>9. ASSUME NEW n \in Alive
      PROVE  n <= devices
  <2>1. PICK k \in 1 .. Len(s) : n = s[k]
    BY <1>4
  <2>2. devices = s[1] /\ 1 \in 1 .. Len(s)
    BY <1>7
  <2>3. k = 1 \/ s[k] < s[1]
    BY <1>1, <2>2
  <2>4. s[k] \in Nat /\ s[1] \in Nat
    BY <1>3, <2>2
  <2>5. QED BY <2>1, <2>2, <2>3, <2>4
<1>10. ASSUME NEW n \in Alive
       PROVE  next[n] \in Alive \cup {Null} /\ next[n] < n
  <2>1. PICK k \in 1 .. Len(s) : n = s[k]
    BY <1>4
  <2>2. CASE k < Len(s)
    <3>1. k + 1 \in 1 .. Len(s) /\ next[n] = s[k + 1] /\ k < k + 1
      BY <1>5, <2>1, <2>2
    <3>2. s[k + 1] < s[k] /\ s[k + 1] \in Alive
      BY <1>1, <1>3, <3>1
    <3>3. QED BY <2>1, <3>1, <3>2
  <2>3. CASE ~(k < Len(s))
    BY <1>3, <1>5, <2>1, <2>3 DEF Null
  <2>4. QED BY <2>2, <2>3
<1>11. ASSUME NEW m \in Alive, NEW n \in Alive, m < n
       PROVE  m <= next[n]
  <2>1. PICK k \in 1 .. Len(s) : n = s[k]
    BY <1>4
  <2>2. PICK l \in 1 .. Len(s) : m = s[l]
    BY <1>4
  <2>3. m \in Nat /\ n \in Nat
    BY AliveFacts
  <2>4. k < l
    <3>1. l < k \/ l = k \/ k < l
      BY <1>2
    <3>2. ~(l < k)
      BY <1>1, <1>11, <2>1, <2>2, <2>3
    <3>3. QED BY <1>11, <2>1, <2>2, <2>3, <3>1, <3>2
  <2>5. k + 1 \in 1 .. Len(s) /\ next[n] = s[k + 1] /\ (k + 1 < l \/ k + 1 = l)
    BY <1>2, <1>5, <2>1, <2>4
  <2>6. k + 1 = l \/ s[l] < s[k + 1]
    BY <1>1, <2>5
  <2>7. s[k + 1] \in Nat
    BY <1>3, <2>5
  <2>8. QED BY <2>2, <2>3, <2>5, <2>6, <2>7
<1>12. Nodes(devices) = Alive
  <2>1. DOMAIN s = 1 .. Len(s)
    BY <1>2
  <2>2. Nodes(devices) = {s[k] : k \in DOMAIN s}
    BY DEF Nodes, s
  <2>3. QED BY <1>1, <2>1, <2>2 DEF Elements
<1>13. QED BY <1>6, <1>8, <1>9, <1>10, <1>11, <1>12

\* The walk from a node on finds it and the older ones.
LEMMA NodesFrom ==
  ASSUME TypeOK, Shape, NEW n \in Alive \cup {Null}
  PROVE  Nodes(n) = {m \in Alive : m <= n}
<1> DEFINE s == From(devices)
<1>1. /\ Chain(next, devices, s, Node)
      /\ Elements(s) = Alive
      /\ \A i, j \in 1 .. Len(s) : i < j => s[j] < s[i]
  BY DEF Shape
<1> HIDE DEF s
<1>2. s \in Seq(Node) /\ Len(s) \in Nat
  BY <1>1 DEF Chain
<1>3. PICK i \in 1 .. Len(s) + 1 : n = Place(s, i)
  <2>1. CASE n = Null
    <3>1. Len(s) + 1 \in 1 .. Len(s) + 1 /\ n = Place(s, Len(s) + 1)
      BY <1>2, <2>1 DEF Place, Null
    <3>2. QED BY <3>1
  <2>2. CASE n \in Alive
    <3>1. PICK k \in 1 .. Len(s) : n = s[k]
      BY <1>1, <2>2 DEF Elements
    <3>2. k \in 1 .. Len(s) + 1 /\ n = Place(s, k)
      BY <1>2, <3>1 DEF Place
    <3>3. QED BY <3>2
  <2>3. QED BY <2>1, <2>2
<1> DEFINE w == Rest(s, i)
<1>4. /\ Chain(next, n, w, Node)
      /\ Len(w) = Len(s) - i + 1
      /\ \A q \in 1 .. Len(s) - i + 1 : w[q] = s[q + i - 1]
  <2>1. Chain(next, Place(s, i), Rest(s, i), Node)
    BY <1>1, <1>3, ChainRest
  <2>2. /\ Len(Rest(s, i)) = Len(s) - i + 1
        /\ \A q \in 1 .. Len(s) - i + 1 : Rest(s, i)[q] = s[q + i - 1]
    BY <1>2, <1>3 DEF Rest
  <2>3. QED BY <1>3, <2>1, <2>2
<1> HIDE DEF w
<1>5. From(n) = w
  <2>1. MaxNodes \in Nat
    BY AliveFacts
  <2>2. Chain(next, n, w, 1 .. MaxNodes)
    BY <1>4 DEF Node
  <2>3. QED BY <2>1, <2>2, LinkedIs DEF From
<1>6. DOMAIN w = 1 .. Len(s) - i + 1
  BY <1>2, <1>4 DEF Chain
<1>7. Nodes(n) = {w[q] : q \in 1 .. Len(s) - i + 1}
  BY <1>5, <1>6 DEF Nodes
<1>8. \A k \in 1 .. Len(s) : s[k] \in Nat /\ s[k] > 0 /\ s[k] \in Alive
  BY <1>1, AliveFacts DEF Elements
<1>9. \A k \in 1 .. Len(s) : s[k] <= n <=> i <= k
  <2> SUFFICES ASSUME NEW k \in 1 .. Len(s)
               PROVE  s[k] <= n <=> i <= k
    OBVIOUS
  <2>1. CASE i = Len(s) + 1
    BY <1>2, <1>3, <1>8, <2>1 DEF Place
  <2>2. CASE i \in 1 .. Len(s)
    <3>1. n = s[i] /\ s[i] \in Nat /\ s[k] \in Nat
      BY <1>3, <1>8, <2>2 DEF Place
    <3>2. /\ k < i => s[i] < s[k]
          /\ i < k => s[k] < s[i]
      BY <1>1, <2>2
    <3>3. QED BY <1>2, <2>2, <3>1, <3>2
  <2>3. QED BY <1>2, <2>1, <2>2
<1>10. ASSUME NEW m \in Nodes(n)
       PROVE  m \in Alive /\ m <= n
  <2>1. PICK q \in 1 .. Len(s) - i + 1 : m = w[q]
    BY <1>7
  <2>2. q + i - 1 \in 1 .. Len(s) /\ i <= q + i - 1 /\ m = s[q + i - 1]
    BY <1>2, <1>4, <2>1
  <2>3. QED BY <1>8, <1>9, <2>2
<1>11. ASSUME NEW m \in Alive, m <= n
       PROVE  m \in Nodes(n)
  <2>1. PICK k \in 1 .. Len(s) : m = s[k]
    BY <1>1 DEF Elements
  <2>2. i <= k
    BY <1>9, <1>11, <2>1
  <2>3. k - i + 1 \in 1 .. Len(s) - i + 1 /\ s[(k - i + 1) + i - 1] = s[k]
    BY <1>2, <2>2
  <2>4. m = w[k - i + 1]
    BY <1>4, <2>1, <2>3
  <2>5. QED BY <1>7, <2>3, <2>4
<1>12. QED BY <1>10, <1>11

\* Nothing but the list changes the list.
LEMMA ShapeStill ==
  ASSUME UNCHANGED <<heap, devices>>
  PROVE  /\ Known' = Known /\ Alive' = Alive /\ From(devices)' = From(devices)
         /\ Shape => Shape'
  BY DEF heap, Known, Alive, From, Shape

\* A node linked in front.
LEMMA ShapePrepended ==
  ASSUME TypeOK, Shape, freed \subseteq Known, allocated < MaxNodes,
         allocated' = allocated + 1, UNCHANGED freed,
         next' = [next EXCEPT ![allocated'] = devices],
         devices' = allocated'
  PROVE  /\ Shape'
         /\ Known' = Known \cup {allocated'} /\ Alive' = Alive \cup {allocated'}
         /\ allocated' \in Node /\ allocated' \notin Known
<1> DEFINE s == From(devices)
           m == allocated'
           w == Prepended(m, s)
<1>1. /\ Chain(next, devices, s, Node)
      /\ Elements(s) = Alive
      /\ \A i, j \in 1 .. Len(s) : i < j => s[j] < s[i]
  BY DEF Shape
<1>2. /\ m \in Node /\ m \notin Known /\ Known' = Known \cup {m}
      /\ \A n \in Known : n < m
  <2>1. allocated \in Nat /\ MaxNodes \in Nat /\ m = allocated + 1
    BY AliveFacts
  <2>2. m \in Node /\ m \notin Known /\ \A n \in Known : n < m
    BY <2>1 DEF Known, Node
  <2>3. 1 .. m = (1 .. allocated) \cup {m}
    BY <2>1
  <2>4. QED BY <2>2, <2>3 DEF Known
<1>3. Alive' = Alive \cup {m}
  BY <1>2 DEF Alive
<1>4. next \in [Node -> Id]
  BY DEF TypeOK
<1> HIDE DEF s, m
<1>5. s \in Seq(Node) /\ Len(s) \in Nat
  BY <1>1 DEF Chain
<1>6. m \notin Elements(s)
  BY <1>1, <1>2 DEF Alive
<1>7. Chain([next EXCEPT ![m] = devices], m, w, Node)
  BY <1>1, <1>2, <1>4, <1>6, ChainPrepended
<1>8. Chain(next', devices', w, Node)
  BY <1>7 DEF m
<1>9. /\ Len(w) = Len(s) + 1 /\ w[1] = m
      /\ \A q \in 2 .. Len(s) + 1 : w[q] = s[q - 1] /\ q - 1 \in 1 .. Len(s)
  BY <1>5 DEF Prepended
<1> HIDE DEF w
<1>10. From(devices)' = w
  <2>1. MaxNodes \in Nat
    BY AliveFacts
  <2>2. Chain(next', devices', w, 1 .. MaxNodes)
    BY <1>8 DEF Node
  <2>3. Linked(next', devices', MaxNodes) = w
    BY <2>1, <2>2, LinkedIs
  <2>4. QED BY <2>3 DEF From
<1>11. \A k \in 1 .. Len(s) : s[k] \in Alive /\ s[k] < m
  BY <1>1, <1>2 DEF Elements, Alive
<1>12. Elements(w) = Alive \cup {m}
  <2>1. ASSUME NEW q \in 1 .. Len(w) PROVE w[q] \in Alive \cup {m}
    BY <1>5, <1>9, <1>11
  <2>2. m \in Elements(w)
    BY <1>5, <1>9 DEF Elements
  <2>3. ASSUME NEW n \in Alive PROVE n \in Elements(w)
    <3>1. PICK k \in 1 .. Len(s) : n = s[k]
      BY <1>1 DEF Elements
    <3>2. k + 1 \in 2 .. Len(s) + 1 /\ k + 1 \in 1 .. Len(w) /\ (k + 1) - 1 = k
      BY <1>5, <1>9
    <3>3. n = w[k + 1]
      BY <1>9, <3>1, <3>2
    <3>4. QED BY <3>2, <3>3 DEF Elements
  <2>4. QED BY <2>1, <2>2, <2>3 DEF Elements
<1>13. ASSUME NEW i \in 1 .. Len(w), NEW j \in 1 .. Len(w), i < j
       PROVE  w[j] < w[i]
  <2>1. j \in 2 .. Len(s) + 1 /\ w[j] = s[j - 1] /\ j - 1 \in 1 .. Len(s)
    BY <1>5, <1>9, <1>13
  <2>2. CASE i = 1
    BY <1>9, <1>11, <2>1, <2>2
  <2>3. CASE i # 1
    <3>1. i \in 2 .. Len(s) + 1 /\ i - 1 < j - 1
      BY <1>5, <1>9, <1>13, <2>3
    <3>2. w[i] = s[i - 1] /\ i - 1 \in 1 .. Len(s)
      BY <1>9, <3>1
    <3>3. QED BY <1>1, <2>1, <3>1, <3>2
  <2>4. QED BY <2>2, <2>3
<1>14. Shape'
  BY <1>3, <1>8, <1>10, <1>12, <1>13 DEF Shape, m, Node
<1>15. QED BY <1>2, <1>3, <1>14 DEF m

\* A node unlinked, given the one before it.
LEMMA ShapeUnlinked ==
  ASSUME TypeOK, Shape, NEW n \in Alive, NEW p,
         \/ p = n /\ n = devices
         \/ p \in Alive /\ next[p] = n,
         Unlink(n, p)
  PROVE  /\ Shape'
         /\ Known' = Known /\ Alive' = Alive \ {n}
         /\ devices' = IF p = n THEN next[n] ELSE devices
         /\ p # n => next'[p] = next[n]
         /\ \A m \in Node : m # p => next'[m] = next[m]
         /\ next'[n] = next[n] /\ next' \in [Node -> Id]
         /\ freed' = freed \cup {n} /\ UNCHANGED allocated
<1> DEFINE s == From(devices)
<1>1. /\ Chain(next, devices, s, Node)
      /\ Elements(s) = Alive
      /\ \A i, j \in 1 .. Len(s) : i < j => s[j] < s[i]
  BY DEF Shape
<1>2. /\ next \in [Node -> Id] /\ n \in Node /\ n \in Nat /\ n # Null
      /\ next[n] \in Id
  BY AliveFacts DEF TypeOK
<1>3. /\ Known' = Known /\ Alive' = Alive \ {n}
      /\ freed' = freed \cup {n} /\ UNCHANGED allocated
  BY DEF Unlink, Known, Alive
<1> HIDE DEF s
<1>4. /\ s \in Seq(Node) /\ Len(s) \in Nat /\ Distinct(s)
      /\ \A k \in 1 .. Len(s) : next[s[k]] = Place(s, k + 1)
      /\ devices = Place(s, 1)
  BY <1>1 DEF Chain
<1>5. \A m \in Alive : next[m] < m /\ m \in Nat
  BY ShapeFacts, AliveFacts
<1>6. /\ devices' = IF p = n THEN next[n] ELSE devices
      /\ p # n => next'[p] = next[n]
      /\ \A m \in Node : m # p => next'[m] = next[m]
      /\ next'[n] = next[n] /\ next' \in [Node -> Id]
  <2>1. CASE p = n
    BY <1>2, <2>1 DEF Unlink
  <2>2. CASE p # n
    <3>1. next' = [next EXCEPT ![p] = next[n]] /\ UNCHANGED devices
      BY <2>2 DEF Unlink
    <3>2. p \in Node
      BY <2>2, AliveFacts
    <3>3. QED BY <1>2, <2>2, <3>1, <3>2
  <2>3. QED BY <2>1, <2>2
<1>7. PICK k \in 1 .. Len(s) :
        n = s[k] /\ Chain(next', devices', Unlinked(s, k), Node)
  <2>1. CASE p = n /\ n = devices
    <3>1. Len(s) > 0 /\ s[1] = n /\ 1 \in 1 .. Len(s)
      BY <1>2, <1>4, <2>1 DEF Place, Null
    <3>2. Chain(next, next[s[1]], Unlinked(s, 1), Node)
      BY <1>1, <3>1, ChainBehead
    <3>3. next' = next /\ devices' = next[n]
      BY <2>1 DEF Unlink
    <3>4. QED BY <3>1, <3>2, <3>3
  <2>2. CASE p \in Alive /\ next[p] = n
    <3>1. p # n
      BY <1>5, <2>2
    <3>2. next' = [next EXCEPT ![p] = next[n]] /\ UNCHANGED devices
      BY <3>1 DEF Unlink
    <3>3. PICK j \in 1 .. Len(s) : p = s[j]
      BY <1>1, <2>2 DEF Elements
    <3>4. Place(s, j + 1) = n
      BY <1>4, <2>2, <3>3
    <3>5. j + 1 \in 2 .. Len(s) /\ s[j + 1] = n
      BY <1>2, <1>4, <3>4 DEF Place, Null
    <3>6. (j + 1) - 1 = j /\ j + 1 \in 1 .. Len(s)
      BY <1>4, <3>5
    <3>7. Chain([next EXCEPT ![s[(j + 1) - 1]] = next[s[j + 1]]], devices,
                Unlinked(s, j + 1), Node)
      BY <1>1, <1>2, <3>5, ChainUnlinked
    <3>8. Chain(next', devices', Unlinked(s, j + 1), Node)
      BY <3>2, <3>3, <3>5, <3>6, <3>7
    <3>9. QED BY <3>5, <3>6, <3>8
  <2>3. QED BY <2>1, <2>2
<1> DEFINE w == Unlinked(s, k)
<1>8. /\ Chain(next', devices', w, Node)
      /\ Len(w) = Len(s) - 1
      /\ Elements(w) = Elements(s) \ {s[k]}
      /\ \A q \in 1 .. Len(s) - 1 : w[q] = IF q < k THEN s[q] ELSE s[q + 1]
  BY <1>4, <1>7, UnlinkedSeq
<1> HIDE DEF w
<1>9. From(devices)' = w
  <2>1. MaxNodes \in Nat
    BY AliveFacts
  <2>2. Chain(next', devices', w, 1 .. MaxNodes)
    BY <1>8 DEF Node
  <2>3. Linked(next', devices', MaxNodes) = w
    BY <2>1, <2>2, LinkedIs
  <2>4. QED BY <2>3 DEF From
<1>10. ASSUME NEW i \in 1 .. Len(w), NEW j \in 1 .. Len(w), i < j
       PROVE  w[j] < w[i]
  <2> DEFINE Old(q) == IF q < k THEN q ELSE q + 1
  <2>1. /\ Old(i) \in 1 .. Len(s) /\ Old(j) \in 1 .. Len(s) /\ Old(i) < Old(j)
        /\ i \in 1 .. Len(s) - 1 /\ j \in 1 .. Len(s) - 1
    BY <1>4, <1>7, <1>8, <1>10
  <2>2. w[i] = s[Old(i)] /\ w[j] = s[Old(j)]
    BY <1>8, <2>1
  <2> HIDE DEF Old
  <2>3. QED BY <1>1, <2>1, <2>2
<1>11. Shape'
  BY <1>1, <1>3, <1>7, <1>8, <1>9, <1>10 DEF Shape, Node
<1>12. QED BY <1>3, <1>6, <1>11

\* Where the search for a device ends, and the node before.
LEMMA EndsAt ==
  ASSUME TypeOK, Shape, NEW d \in Dev
  PROVE  LET s == From(devices)
             k == Ends(d)
             p == IF k = 1 THEN s[k] ELSE s[k - 1]
         IN
         /\ k \in Nat
         /\ k = 0 => \A n \in Alive : dev[n] # d
         /\ k > 0 =>
              /\ s[k] \in Alive
              /\ dev[s[k]] = d \/ entry[dev[s[k]]] = "null"
              /\ \A n \in Alive : dev[n] = d => n <= s[k]
              /\ \/ p = s[k] /\ s[k] = devices
                 \/ p \in Alive /\ next[p] = s[k]
<1> DEFINE s == From(devices)
           stops == {k \in DOMAIN s : dev[s[k]] = d \/ entry[dev[s[k]]] = "null"}
<1>1. /\ Chain(next, devices, s, Node)
      /\ Elements(s) = Alive
      /\ \A i, j \in 1 .. Len(s) : i < j => s[j] < s[i]
  BY DEF Shape
<1>2. Ends(d) = IF stops = {} THEN 0
                ELSE CHOOSE k \in stops : \A l \in stops : k <= l
  BY DEF Ends
<1> HIDE DEF s
<1>3. /\ s \in Seq(Node) /\ Len(s) \in Nat /\ DOMAIN s = 1 .. Len(s)
      /\ \A k \in 1 .. Len(s) : next[s[k]] = Place(s, k + 1)
      /\ devices = Place(s, 1)
  BY <1>1 DEF Chain
<1>4. \A k \in 1 .. Len(s) : s[k] \in Alive /\ s[k] \in Nat
  BY <1>1, AliveFacts DEF Elements
<1>5. \A n \in Alive : \E k \in 1 .. Len(s) : n = s[k]
  BY <1>1 DEF Elements
<1>6. CASE stops = {}
  <2>1. Ends(d) = 0
    BY <1>2, <1>6
  <2>2. \A n \in Alive : dev[n] # d
    BY <1>3, <1>5, <1>6
  <2>3. QED BY <2>1, <2>2
<1>7. CASE stops # {}
  <2>1. stops \subseteq Nat
    BY <1>3
  <2>2. \E k \in stops : \A l \in stops : k <= l
    BY <1>7, <2>1, Smallest
  <2> DEFINE k == Ends(d)
  <2>3. k \in stops /\ \A l \in stops : k <= l
    BY <1>2, <1>7, <2>2
  <2> HIDE DEF k
  <2>4. k \in 1 .. Len(s) /\ (dev[s[k]] = d \/ entry[dev[s[k]]] = "null")
    BY <1>3, <2>3
  <2>5. ASSUME NEW n \in Alive, dev[n] = d
        PROVE  n <= s[k]
    <3>1. PICK l \in 1 .. Len(s) : n = s[l]
      BY <1>5
    <3>2. k <= l
      BY <1>3, <2>3, <2>5, <3>1
    <3>3. s[k] \in Nat /\ s[l] \in Nat
      BY <1>4, <2>4
    <3>4. k = l \/ s[l] < s[k]
      BY <1>1, <2>4, <3>1, <3>2
    <3>5. QED BY <3>1, <3>3, <3>4
  <2>6. CASE k = 1
    <3>1. s[k] = devices
      BY <1>3, <2>4, <2>6 DEF Place
    <3>2. QED BY <1>4, <2>4, <2>5, <2>6, <3>1 DEF k, s
  <2>7. CASE k # 1
    <3>1. k - 1 \in 1 .. Len(s) /\ (k - 1) + 1 = k /\ k > 0
      BY <1>3, <2>4, <2>7
    <3>2. s[k - 1] \in Alive /\ next[s[k - 1]] = s[k]
      BY <1>3, <1>4, <2>4, <3>1 DEF Place
    <3>3. QED BY <1>4, <2>4, <2>5, <2>7, <3>1, <3>2 DEF k, s
  <2>8. QED BY <2>6, <2>7
<1>8. QED BY <1>6, <1>7

-----------------------------------------------------------------------------
(* Types, and what the run loop's thread reads                             *)

Working == MacInv /\ pc[Owner] # "cleaned"

LEMMA WorkingParts ==
  ASSUME Working
  PROVE  /\ HandInv /\ TypeOK /\ LoopWalksLive /\ pc[Owner] # "cleaned"
         /\ Shape /\ Sweeping /\ Reporting /\ Walking /\ Pointing
         /\ FreedIsReported
         /\ Dated /\ Single /\ Announcing /\ Following /\ Hooked
         /\ pc \in [Thread -> Places] /\ Owner # Loop
         /\ Owner \in Thread /\ Loop \in Thread
  BY MacAssumption
  DEF Working, MacInv, ListInv, NodeInv, HandInv, HandTypeOK, Thread

\* What the threads' places may become.
PcTypeOK ==
    /\ pc[Owner] \in {"idle", "starting", "cleaned"}
    /\ pc[Loop] \in {"none", "setup", "opened", "run", "plugged", "unplugged",
                     "sweep", "swept", "inputs", "ending", "exiting"}

LEMMA PcMoves ==
  ASSUME Working,
         \/ UNCHANGED pc
         \/ \E l \in Places \ {"idle", "starting", "cleaned"} : Goto(Loop, l)
         \/ \E l \in {"idle", "starting", "cleaned"} : Goto(Owner, l)
         \/ pc' = [pc EXCEPT ![Owner] = "starting", ![Loop] = "setup"]
  PROVE  PcTypeOK'
<1>1. /\ pc \in [Thread -> Places] /\ Owner # Loop
      /\ Owner \in Thread /\ Loop \in Thread /\ PcTypeOK
  BY WorkingParts DEF TypeOK, PcTypeOK
<1>2. QED BY <1>1 DEF PcTypeOK, Goto, Places

\* The parts of the state the system and the manager change.
RegistryTypeOK ==
    /\ entry \in [Dev -> {"new", "present", "id", "failed", "null"}]
    /\ matching \cup removal \cup hooked \cup dropped \subseteq Dev

\* The nodes and the pointers to them.
NodesTypeOK ==
    /\ allocated \in 0 .. MaxNodes
    /\ dev \in [Node -> Dev]
    /\ session \in [Node -> 0 .. MaxStarts]
    /\ next \in [Node -> Id]
    /\ {devices, cur, prev} \subseteq Id
    /\ registered \cup told \cup freed \subseteq Node
    /\ walk \in [Thread -> Id]

OthersTypeOK ==
    /\ {thread, running, request, observed} \subseteq BOOLEAN
    /\ stopping \subseteq Thread
    /\ stray \subseteq Thread \X {"list", "id"}
    /\ starts \in 0 .. MaxStarts
    /\ calls \in 0 .. MaxCalls

LEMMA TypeParts ==
  /\ TypeOK <=> RegistryTypeOK /\ NodesTypeOK /\ PcTypeOK /\ OthersTypeOK
  /\ TypeOK' <=> RegistryTypeOK' /\ NodesTypeOK' /\ PcTypeOK' /\ OthersTypeOK'
  BY DEF TypeOK, RegistryTypeOK, NodesTypeOK, PcTypeOK, OthersTypeOK

LEMMA TypeSystem ==
  ASSUME Working, System
  PROVE  TypeOK' /\ LoopWalksLive'
<1>1. RegistryTypeOK /\ NodesTypeOK /\ OthersTypeOK /\ LoopWalksLive
  BY WorkingParts, TypeParts
<1>2. UNCHANGED <<heap, list, handshake, pc, cur, prev, walk, told, stray,
                  dropped, counts>>
  BY DEF System, Plug, Unplug, Expire
<1>3. NodesTypeOK' /\ OthersTypeOK' /\ LoopWalksLive'
  BY <1>1, <1>2
  DEF NodesTypeOK, OthersTypeOK, LoopWalksLive, heap, list, handshake, counts
<1>4. PcTypeOK' BY <1>2, PcMoves
<1>5. RegistryTypeOK'
  BY <1>1, <1>2, MacAssumption
  DEF RegistryTypeOK, System, Plug, Unplug, Expire, Present, list
<1>6. QED BY <1>3, <1>4, <1>5, TypeParts

LEMMA TypeRunLoop ==
  ASSUME Working, RunLoop \/ LoopStop
  PROVE  TypeOK' /\ LoopWalksLive'
<1>1. RegistryTypeOK /\ NodesTypeOK /\ OthersTypeOK /\ LoopWalksLive
  BY WorkingParts, TypeParts
<1>2. UNCHANGED <<entry, heap, devices, registered, thread, observed, stopping,
                  cur, prev, walk, told, stray, dropped, counts>>
  BY DEF RunLoop, LoopOpen, LoopConfirm, LoopClose, LoopExit, LoopStop, list,
         registry, handshake
<1>3. NodesTypeOK' /\ LoopWalksLive'
  BY <1>1, <1>2 DEF NodesTypeOK, LoopWalksLive, heap
<1>4. running' \in BOOLEAN /\ request' \in BOOLEAN
  BY <1>1
  DEF OthersTypeOK, RunLoop, LoopOpen, LoopConfirm, LoopClose, LoopExit,
      LoopStop, handshake
<1>5. OthersTypeOK'
  BY <1>1, <1>2, <1>4 DEF OthersTypeOK, counts
<1>6. PcTypeOK'
  BY PcMoves
  DEF RunLoop, LoopOpen, LoopConfirm, LoopClose, LoopExit, LoopStop, Places
<1>7. RegistryTypeOK'
  BY <1>1, <1>2
  DEF RegistryTypeOK, RunLoop, LoopOpen, LoopConfirm, LoopClose, LoopExit,
      LoopStop, Present, list, registry
<1>8. QED BY <1>3, <1>5, <1>6, <1>7, TypeParts

LEMMA TypeLifecycle ==
  ASSUME Working, Lifecycle
  PROVE  TypeOK' /\ LoopWalksLive'
<1>1. RegistryTypeOK /\ NodesTypeOK /\ OthersTypeOK /\ LoopWalksLive
  BY WorkingParts, TypeParts
<1>2. UNCHANGED <<registry, allocated, dev, session, next, registered, hooked,
                  cur, prev, walk, told, stray, dropped, calls>>
  BY DEF Lifecycle, Start, StartReturn, Clean, StopReturn, heap, list, counts
<1>3. RegistryTypeOK' /\ LoopWalksLive'
  BY <1>1, <1>2 DEF RegistryTypeOK, LoopWalksLive, registry
<1>4. OthersTypeOK'
  <2>1. /\ thread' \in BOOLEAN /\ observed' \in BOOLEAN
        /\ running' \in BOOLEAN /\ request' \in BOOLEAN
    BY <1>1
    DEF OthersTypeOK, Lifecycle, Start, StartReturn, Clean, StopReturn,
        handshake
  <2>2. stopping' \subseteq Thread
    BY <1>1
    DEF OthersTypeOK, Lifecycle, Start, StartReturn, Clean, StopReturn,
        handshake
  <2>3. starts' \in 0 .. MaxStarts
    BY <1>1, MacAssumption
    DEF OthersTypeOK, Lifecycle, Start, StartReturn, Clean, StopReturn,
        counts
  <2>4. QED BY <1>1, <1>2, <2>1, <2>2, <2>3 DEF OthersTypeOK
<1>5. NodesTypeOK'
  <2>1. Nodes(devices) \subseteq Node
    BY WorkingParts, ShapeFacts, AliveFacts
  <2>2. devices' \in Id /\ freed' \subseteq Node
    BY <1>1, <2>1
    DEF NodesTypeOK, Lifecycle, Start, StartReturn, Clean, StopReturn, heap,
        list, Id
  <2>3. QED BY <1>1, <1>2, <2>2 DEF NodesTypeOK
<1>6. PcTypeOK'
  BY PcMoves
  DEF Lifecycle, Start, StartReturn, Clean, StopReturn
<1>7. QED BY <1>3, <1>4, <1>5, <1>6, TypeParts

LEMMA TypeReturns ==
  ASSUME Working, PluggedReturn \/ UnpluggedReturn \/ SweptReturn \/ InputReturn
  PROVE  TypeOK' /\ LoopWalksLive'
<1>1. RegistryTypeOK /\ NodesTypeOK /\ OthersTypeOK /\ LoopWalksLive
  BY WorkingParts, TypeParts
<1>2. UNCHANGED <<registry, heap, list, handshake, prev, walk, stray, counts>>
  BY DEF PluggedReturn, UnpluggedReturn, SweptReturn, InputReturn
<1>3. OthersTypeOK' /\ LoopWalksLive'
  BY <1>1, <1>2 DEF OthersTypeOK, LoopWalksLive, handshake, counts
<1>4. PcTypeOK'
  BY PcMoves
  DEF PluggedReturn, UnpluggedReturn, SweptReturn, InputReturn, Places
<1>5. told' \subseteq told
  BY DEF PluggedReturn, UnpluggedReturn, SweptReturn, InputReturn
<1>6. cur' \in Id /\ (SweptReturn => cur' \in Alive \cup {Null})
  <2>1. CASE SweptReturn
    BY <2>1, WorkingParts, AliveFacts DEF SweptReturn, Sweeping, Ahead, Id
  <2>2. CASE PluggedReturn \/ UnpluggedReturn \/ InputReturn
    <3>1. UNCHANGED cur /\ pc[Loop] # "swept"
      BY <2>2 DEF PluggedReturn, UnpluggedReturn, InputReturn
    <3>2. QED BY <1>1, <3>1 DEF NodesTypeOK, SweptReturn
  <2>3. QED BY <2>1, <2>2
<1>7. dropped' \subseteq Dev
  <2>1. CASE SweptReturn
    <3>1. Nodes(cur') \subseteq Node
      BY <1>6, <2>1, WorkingParts, NodesFrom, AliveFacts
    <3>2. Devices(Nodes(cur'))  \subseteq Dev
      BY <1>1, <3>1 DEF Devices, NodesTypeOK
    <3>3. dropped' = dropped \/ dropped' = dropped \cup Devices(Nodes(cur'))
      BY <2>1 DEF SweptReturn
    <3>4. QED BY <1>1, <3>2, <3>3 DEF RegistryTypeOK
  <2>2. CASE PluggedReturn \/ UnpluggedReturn \/ InputReturn
    BY <1>1, <2>2
    DEF RegistryTypeOK, PluggedReturn, UnpluggedReturn, InputReturn
  <2>3. QED BY <2>1, <2>2
<1>8. RegistryTypeOK' /\ NodesTypeOK'
  BY <1>1, <1>2, <1>5, <1>6, <1>7
  DEF RegistryTypeOK, NodesTypeOK, registry, heap, list
<1>9. QED BY <1>3, <1>4, <1>8, TypeParts

-----------------------------------------------------------------------------
(* What the handlers do to the list                                        *)

\* Node n is taken out.
Unlinks(n) ==
    \E p \in Node :
      /\ \/ p = n /\ n = devices
         \/ p \in Alive /\ next[p] = n
      /\ Unlink(n, p)

\* A removal known to the registry frees the device's newest node, if there is
\* any and the search reaches it.
LEMMA RemovedParts ==
  ASSUME Working, NEW d \in Dev, Removed(d)
  PROVE  /\ pc[Loop] = "run" /\ d \in removal \ matching /\ entry[d] = "id"
         /\ removal' = removal \ {d}
         /\ UNCHANGED <<entry, matching, handshake, prev, walk, told, counts,
                        stray, allocated, dev, session, registered, hooked>>
         /\ \/ /\ UNCHANGED <<heap, list, cur, pc>>
               /\ \/ dropped' = dropped \cup {d}
                  \/ UNCHANGED dropped /\ \A n \in Alive : dev[n] # d
            \/ \E n \in Alive :
                 /\ dev[n] = d /\ \A m \in Alive : dev[m] = d => m <= n
                 /\ Unlinks(n)
                 /\ cur' = n
                 /\ Goto(Loop, "unplugged")
                 /\ UNCHANGED dropped
<1> DEFINE s == From(devices)
           k == Ends(d)
           p == IF k = 1 THEN s[k] ELSE s[k - 1]
<1>1. TypeOK /\ Shape
  BY WorkingParts
<1>2. /\ k \in Nat
      /\ k = 0 => \A n \in Alive : dev[n] # d
      /\ k > 0 =>
           /\ s[k] \in Alive
           /\ dev[s[k]] = d \/ entry[dev[s[k]]] = "null"
           /\ \A n \in Alive : dev[n] = d => n <= s[k]
           /\ \/ p = s[k] /\ s[k] = devices
              \/ p \in Alive /\ next[p] = s[k]
  BY <1>1, EndsAt
<1>3. Nodes(devices) = Alive /\ Alive \subseteq Node
  BY <1>1, ShapeFacts, AliveFacts
<1>4. /\ pc[Loop] = "run" /\ d \in removal \ matching /\ entry[d] = "id"
      /\ removal' = removal \ {d}
      /\ UNCHANGED <<entry, matching, handshake, prev, walk, told, counts>>
      /\ Touch(Loop, "list", Nodes(devices))
      /\ IF k > 0 /\ dev[s[k]] = d
           THEN /\ Unlink(s[k], p)
                /\ cur' = s[k]
                /\ Goto(Loop, "unplugged")
                /\ UNCHANGED dropped
           ELSE /\ dropped' = IF k > 0 THEN dropped \cup {d} ELSE dropped
                /\ UNCHANGED <<heap, list, cur, pc>>
  BY DEF Removed, Departed
<1> HIDE DEF s, k, p
<1>5. UNCHANGED stray
  BY <1>3, <1>4 DEF Touch, Alive
<1>6. CASE k > 0 /\ dev[s[k]] = d
  <2>1. Unlinks(s[k])
    BY <1>2, <1>3, <1>4, <1>6 DEF Unlinks
  <2>2. UNCHANGED <<allocated, dev, session, registered, hooked>>
    BY <1>4, <1>6 DEF Unlink
  <2>3. QED BY <1>2, <1>4, <1>5, <1>6, <2>1, <2>2
<1>7. CASE ~(k > 0 /\ dev[s[k]] = d)
  <2>1. UNCHANGED <<allocated, dev, session, registered, hooked>>
    BY <1>4, <1>7 DEF heap, list
  <2>2. \/ dropped' = dropped \cup {d}
        \/ UNCHANGED dropped /\ \A n \in Alive : dev[n] # d
    BY <1>2, <1>4, <1>7
  <2>3. QED BY <1>4, <1>5, <1>7, <2>1, <2>2
<1>8. QED BY <1>6, <1>7

\* The unplugging branch reads nodes alive only.
LEMMA SweepParts ==
  ASSUME Working, Sweep \/ Swept
  PROVE  /\ UNCHANGED stray
         /\ cur = Null \/ cur \in Alive
         /\ Swept => Unlinks(cur) /\ cur \in Alive
<1>1. /\ TypeOK /\ pc[Loop] = "sweep" /\ cur \in Alive \cup {Null}
      /\ \/ prev = devices /\ cur = devices
         \/ prev \in Alive /\ next[prev] = cur
  BY WorkingParts DEF Sweeping, Ahead, Sweep, Swept
<1>2. Alive \subseteq Node /\ \A n \in Alive : n # Null /\ n \notin freed
  BY <1>1, AliveFacts DEF Alive
<1>3. cur # Null => prev \in Alive
  BY <1>1
<1>4. UNCHANGED stray
  BY <1>1, <1>2, <1>3 DEF Sweep, Swept, Touch
<1>5. ASSUME Swept
      PROVE  Unlinks(cur) /\ cur \in Alive
  <2>1. Unlink(cur, prev) /\ cur \in Alive
    BY <1>1, <1>5 DEF Swept
  <2>2. QED BY <1>1, <1>2, <1>3, <2>1 DEF Unlinks
<1>6. QED BY <1>1, <1>4, <1>5

\* A node taken out is freed, and the others stay as they are.
LEMMA UnlinksParts ==
  ASSUME TypeOK, Shape, NEW n \in Alive, Unlinks(n)
  PROVE  /\ Shape' /\ Known' = Known /\ Alive' = Alive \ {n}
         /\ freed' = freed \cup {n} /\ next'[n] = next[n]
         /\ next' \in [Node -> Id] /\ devices' \in Id
         /\ UNCHANGED <<allocated, dev, session, registered, hooked>>
         /\ \A m \in Node : next'[m] = next[m] \/ next'[m] = next[n]
<1>1. PICK p \in Node : /\ \/ p = n /\ n = devices
                           \/ p \in Alive /\ next[p] = n
                        /\ Unlink(n, p)
  BY DEF Unlinks
<1>2. next[n] \in Id /\ devices \in Id
  BY AliveFacts DEF TypeOK
<1>3. /\ Shape' /\ Known' = Known /\ Alive' = Alive \ {n}
      /\ devices' = IF p = n THEN next[n] ELSE devices
      /\ p # n => next'[p] = next[n]
      /\ \A m \in Node : m # p => next'[m] = next[m]
      /\ next'[n] = next[n] /\ next' \in [Node -> Id]
      /\ freed' = freed \cup {n} /\ UNCHANGED allocated
  BY <1>1, ShapeUnlinked
<1>4. UNCHANGED <<dev, session, registered, hooked>>
  BY <1>1 DEF Unlink
<1>5. QED BY <1>2, <1>3, <1>4

\* An input comes with the newest node of its device, if the search reaches it.
LEMMA InputParts ==
  ASSUME Working, NEW d \in Dev, Input(d)
  PROVE  /\ pc[Loop] = "run" /\ d \in hooked \cap Present /\ Goto(Loop, "inputs")
         /\ UNCHANGED <<registry, heap, list, handshake, prev, walk, told,
                        dropped, counts, stray>>
         /\ \/ cur' \in Alive /\ dev[cur'] = d
               /\ \A m \in Alive : dev[m] = d => m <= cur'
            \/ /\ cur' = Null
               /\ \/ \A n \in Alive : dev[n] # d
                  \/ \E n \in Alive : entry[dev[n]] = "null"
<1> DEFINE s == From(devices)
           k == Ends(d)
<1>1. TypeOK /\ Shape
  BY WorkingParts
<1>2. /\ k \in Nat
      /\ k = 0 => \A n \in Alive : dev[n] # d
      /\ k > 0 =>
           /\ s[k] \in Alive
           /\ dev[s[k]] = d \/ entry[dev[s[k]]] = "null"
           /\ \A n \in Alive : dev[n] = d => n <= s[k]
  BY <1>1, EndsAt
<1>3. Nodes(devices) = Alive
  BY <1>1, ShapeFacts
<1>4. /\ pc[Loop] = "run" /\ d \in hooked \cap Present /\ Goto(Loop, "inputs")
      /\ Touch(Loop, "list", Nodes(devices))
      /\ cur' = IF k > 0 /\ dev[s[k]] = d THEN s[k] ELSE Null
      /\ UNCHANGED <<registry, heap, list, handshake, prev, walk, told,
                     dropped, counts>>
  BY DEF Input
<1> HIDE DEF s, k
<1>5. UNCHANGED stray
  BY <1>3, <1>4 DEF Touch, Alive
<1>6. QED BY <1>2, <1>4, <1>5

\* The run loop's thread re-enumerates nodes alive only.
LEMMA WalkParts ==
  ASSUME Working, Reenumerate(Loop) \/ Reenumerated(Loop)
  PROVE  /\ UNCHANGED stray
         /\ walk' = [walk EXCEPT ![Loop] = walk'[Loop]]
         /\ walk'[Loop] \in Alive \cup {Null}
         /\ told' \subseteq told \cup Alive
<1>1. /\ TypeOK /\ Shape /\ Walking /\ Loop \in Thread
      /\ walk \in [Thread -> Id]
  BY WorkingParts DEF TypeOK
<1>2. \A n \in Alive : n # Null /\ n \notin freed /\ next[n] \in Alive \cup {Null}
  BY <1>1, ShapeFacts, AliveFacts DEF Alive
<1>3. Null \notin freed
  BY <1>1, AliveFacts DEF Walking
<1>4. CASE Reenumerate(Loop)
  <2>1. devices \in Alive
    BY <1>1, <1>4, ShapeFacts DEF Reenumerate
  <2>2. QED BY <1>1, <1>2, <1>4, <2>1 DEF Reenumerate, Touch
<1>5. CASE Reenumerated(Loop)
  <2>1. walk[Loop] \in Alive
    BY <1>1, <1>5 DEF Walking, Reenumerated
  <2>2. next[walk[Loop]] \in Alive \cup {Null}
    BY <1>2, <2>1
  <2>3. UNCHANGED stray
    BY <1>2, <1>3, <1>5, <2>1, <2>2 DEF Reenumerated, Touch
  <2>4. QED BY <1>1, <1>5, <2>2, <2>3 DEF Reenumerated
<1>6. QED BY <1>4, <1>5

\* A match allocates a node and puts it in front.
LEMMA MatchedParts ==
  ASSUME Working, NEW d \in Dev, Matched(d)
  PROVE  /\ pc[Loop] = "run" /\ d \in matching /\ allocated' = allocated + 1
         /\ dev' = [dev EXCEPT ![allocated'] = d]
         /\ session' = [session EXCEPT ![allocated'] = starts]
         /\ matching' = matching \ {d}
         /\ told' = told \cup {allocated'}
         /\ next' = [next EXCEPT ![allocated'] = devices]
         /\ devices' = allocated'
         /\ Goto(Loop, "plugged")
         /\ UNCHANGED <<entry, removal, freed, registered, hooked, handshake,
                        cur, prev, walk, stray, dropped, counts>>
         /\ Shape' /\ allocated' \in Node /\ allocated' \notin Known
         /\ Known' = Known \cup {allocated'}
         /\ Alive' = Alive \cup {allocated'}
<1>1. /\ pc[Loop] = "run" /\ d \in matching /\ allocated' = allocated + 1
      /\ allocated < MaxNodes
      /\ dev' = [dev EXCEPT ![allocated'] = d]
      /\ session' = [session EXCEPT ![allocated'] = starts]
      /\ matching' = matching \ {d}
      /\ told' = told \cup {allocated'}
      /\ next' = [next EXCEPT ![allocated'] = devices]
      /\ devices' = allocated'
      /\ Goto(Loop, "plugged")
      /\ UNCHANGED <<entry, removal, freed, registered, hooked, handshake,
                     cur, prev, walk, stray, dropped, counts>>
  BY DEF Matched, Allocate, Announced
<1>2. TypeOK /\ Shape /\ freed \subseteq Known
  BY WorkingParts DEF Walking
<1>3. /\ Shape' /\ allocated' \in Node /\ allocated' \notin Known
      /\ Known' = Known \cup {allocated'}
      /\ Alive' = Alive \cup {allocated'}
  BY <1>1, <1>2, ShapePrepended
<1>4. QED BY <1>1, <1>3

LEMMA TypeMatched ==
  ASSUME Working, NEW d \in Dev, Matched(d)
  PROVE  TypeOK' /\ LoopWalksLive'
<1>1. /\ RegistryTypeOK /\ NodesTypeOK /\ OthersTypeOK /\ LoopWalksLive
      /\ MaxNodes \in Nat
  BY WorkingParts, TypeParts, AliveFacts
<1>2. /\ dev' = [dev EXCEPT ![allocated'] = d]
      /\ session' = [session EXCEPT ![allocated'] = starts]
      /\ next' = [next EXCEPT ![allocated'] = devices]
      /\ told' = told \cup {allocated'}
      /\ devices' = allocated' /\ allocated' \in Node
      /\ UNCHANGED <<freed, registered, cur, prev, walk>>
      /\ matching' = matching \ {d}
      /\ UNCHANGED <<entry, removal, hooked, dropped, handshake, stray, counts>>
      /\ Goto(Loop, "plugged")
  BY MatchedParts
<1>3. NodesTypeOK'
  BY <1>1, <1>2 DEF NodesTypeOK, Node, Id, OthersTypeOK
<1>4. RegistryTypeOK' /\ OthersTypeOK' /\ LoopWalksLive'
  BY <1>1, <1>2
  DEF RegistryTypeOK, OthersTypeOK, LoopWalksLive, handshake, counts
<1>5. PcTypeOK'
  BY <1>2, PcMoves DEF Places
<1>6. QED BY <1>3, <1>4, <1>5, TypeParts

LEMMA TypeHandlers ==
  ASSUME Working,
         \/ Sweep \/ Swept
         \/ \E d \in Dev : \/ Drop(d) \/ Removed(d) \/ RemovedNull(d)
                           \/ RemovedUnknown(d) \/ Input(d)
  PROVE  TypeOK' /\ LoopWalksLive'
<1>1. /\ RegistryTypeOK /\ NodesTypeOK /\ OthersTypeOK /\ LoopWalksLive
      /\ TypeOK /\ Shape
      /\ \A n \in Alive : n \in Node
      /\ \A n \in Node : n \in Id /\ next[n] \in Id /\ dev[n] \in Dev
  BY WorkingParts, TypeParts, AliveFacts DEF NodesTypeOK, Id
<1>2. /\ UNCHANGED <<entry, registered, hooked, handshake, walk, told, counts,
                     stray, allocated, dev, session>>
      /\ next' \in [Node -> Id] /\ devices' \in Id /\ freed' \subseteq Node
      /\ cur' \in Id /\ prev' \in Id
      /\ matching' \subseteq matching /\ removal' \subseteq removal
      /\ dropped' \subseteq Dev
      /\ PcTypeOK'
  <2>1. ASSUME NEW d \in Dev, Removed(d)
        PROVE  <1>2!:
    <3>1. /\ UNCHANGED <<entry, registered, hooked, handshake, walk, told,
                         counts, stray, allocated, dev, session, prev, matching>>
          /\ removal' = removal \ {d}
      BY <2>1, RemovedParts
    <3>2. \/ /\ UNCHANGED <<heap, list, cur, pc>>
             /\ dropped' = dropped \cup {d} \/ UNCHANGED dropped
          \/ \E n \in Alive : /\ Unlinks(n) /\ cur' = n
                              /\ Goto(Loop, "unplugged") /\ UNCHANGED dropped
      BY <2>1, RemovedParts
    <3>3. CASE /\ UNCHANGED <<heap, list, cur, pc>>
               /\ dropped' = dropped \cup {d} \/ UNCHANGED dropped
      <4>1. PcTypeOK' BY <3>3, PcMoves
      <4>2. QED
        BY <1>1, <3>1, <3>3, <4>1
        DEF NodesTypeOK, RegistryTypeOK, heap, list
    <3>4. CASE \E n \in Alive : /\ Unlinks(n) /\ cur' = n
                                /\ Goto(Loop, "unplugged") /\ UNCHANGED dropped
      <4>1. PICK n \in Alive : /\ Unlinks(n) /\ cur' = n
                               /\ Goto(Loop, "unplugged") /\ UNCHANGED dropped
        BY <3>4
      <4>2. PcTypeOK' BY <4>1, PcMoves DEF Places
      <4>3. /\ next' \in [Node -> Id] /\ devices' \in Id
            /\ freed' = freed \cup {n}
        BY <1>1, <4>1, UnlinksParts
      <4>4. QED
        BY <1>1, <3>1, <4>1, <4>2, <4>3 DEF NodesTypeOK, RegistryTypeOK
    <3>5. QED BY <3>2, <3>3, <3>4
  <2>2. ASSUME NEW d \in Dev, Input(d)
        PROVE  <1>2!:
    <3>1. /\ UNCHANGED <<registry, heap, list, handshake, prev, walk, told,
                         dropped, counts, stray>>
          /\ cur' \in Id /\ Goto(Loop, "inputs")
      BY <1>1, <2>2, InputParts DEF Id
    <3>2. PcTypeOK' BY <3>1, PcMoves DEF Places
    <3>3. QED
      BY <1>1, <3>1, <3>2
      DEF NodesTypeOK, RegistryTypeOK, registry, heap, list
  <2>3. ASSUME NEW d \in Dev, Drop(d) \/ RemovedNull(d) \/ RemovedUnknown(d)
        PROVE  <1>2!:
    <3>1. PcTypeOK'
      BY <2>3, PcMoves DEF Drop, RemovedNull, RemovedUnknown, Places
    <3>2. QED
      BY <1>1, <2>3, <3>1
      DEF Drop, RemovedNull, RemovedUnknown, NodesTypeOK, RegistryTypeOK,
          heap, list
  <2>4. CASE Sweep
    <3>1. PcTypeOK'
      BY <2>4, PcMoves DEF Sweep, Places
    <3>2. cur = Null \/ cur \in Alive
      BY <2>4, SweepParts
    <3>3. UNCHANGED stray
      BY <2>4, SweepParts
    <3>4. Devices(Nodes(cur)) \subseteq Dev
      <4>1. Nodes(cur) \subseteq Node
        BY <1>1, <3>2, NodesFrom
      <4>2. QED BY <1>1, <4>1 DEF Devices
    <3>5. dropped' \subseteq Dev
      BY <1>1, <2>4, <3>4 DEF Sweep, RegistryTypeOK
    <3>6. cur' \in Id /\ prev' \in Id
      BY <1>1, <2>4, <3>2 DEF Sweep, NodesTypeOK
    <3>7. QED
      BY <1>1, <2>4, <3>1, <3>3, <3>5, <3>6
      DEF Sweep, NodesTypeOK, registry, heap, list
  <2>5. CASE Swept
    <3>1. PcTypeOK'
      BY <2>5, PcMoves DEF Swept, Places
    <3>2. Unlinks(cur) /\ cur \in Alive /\ UNCHANGED stray
      BY <2>5, SweepParts
    <3>3. /\ next' \in [Node -> Id] /\ devices' \in Id
          /\ freed' = freed \cup {cur}
          /\ UNCHANGED <<allocated, dev, session, registered, hooked>>
      BY <1>1, <3>2, UnlinksParts
    <3>4. /\ UNCHANGED <<registry, handshake, cur, walk, told, dropped, counts>>
          /\ prev' \in {prev, next[cur]}
      BY <2>5 DEF Swept
    <3>5. QED
      BY <1>1, <3>1, <3>2, <3>3, <3>4
      DEF NodesTypeOK, RegistryTypeOK, registry
  <2>6. QED BY <2>1, <2>2, <2>3, <2>4, <2>5
<1>3. NodesTypeOK'
  BY <1>1, <1>2 DEF NodesTypeOK
<1>4. RegistryTypeOK' /\ OthersTypeOK' /\ LoopWalksLive'
  BY <1>1, <1>2
  DEF RegistryTypeOK, OthersTypeOK, LoopWalksLive, handshake, counts
<1>5. QED BY <1>2, <1>3, <1>4, TypeParts

LEMMA TypeCalls ==
  ASSUME Working, NEW t \in Thread, Calls(t) \/ Reenumerated(t)
  PROVE  TypeOK' /\ LoopWalksLive'
<1>1. /\ RegistryTypeOK /\ NodesTypeOK /\ OthersTypeOK /\ LoopWalksLive
      /\ TypeOK /\ Shape /\ Owner # Loop
      /\ \A n \in Node : n \in Id /\ next[n] \in Id /\ dev[n] \in Dev
      /\ told \subseteq Node
  BY WorkingParts, TypeParts, AliveFacts DEF NodesTypeOK, Id
<1>2. /\ UNCHANGED <<registry, heap, devices, pc, cur, prev, dropped, starts>>
      /\ UNCHANGED <<thread, running>>
  BY DEF Calls, RegisterAdd, RegisterDel, Reenumerate, Reenumerated, Stop,
         list, handshake, counts
<1>3. PcTypeOK'
  BY <1>2, PcMoves
<1>4. registered' \subseteq Node /\ hooked' \subseteq Dev
  <2>1. ASSUME NEW n \in told, RegisterAdd(t, n)
        PROVE  <1>4!:
    <3>1. hooked' \subseteq hooked \cup {dev[n]} /\ registered' = registered \cup {n}
      BY <2>1 DEF RegisterAdd, Hook
    <3>2. QED BY <1>1, <3>1 DEF NodesTypeOK, RegistryTypeOK
  <2>2. ASSUME NEW n \in told, RegisterDel(t, n)
        PROVE  <1>4!:
    BY <1>1, <2>2 DEF RegisterDel, NodesTypeOK, RegistryTypeOK
  <2>3. CASE Reenumerate(t) \/ Reenumerated(t) \/ Stop(t)
    BY <1>1, <2>3
    DEF Reenumerate, Reenumerated, Stop, NodesTypeOK, RegistryTypeOK, list
  <2>4. QED BY <2>1, <2>2, <2>3 DEF Calls
<1>5. walk' \in [Thread -> Id] /\ told' \subseteq Node
  <2>1. CASE Reenumerate(t)
    <3>1. devices \in Node
      BY <1>1, <2>1 DEF Reenumerate, NodesTypeOK, Id
    <3>2. QED BY <1>1, <2>1, <3>1 DEF Reenumerate, NodesTypeOK
  <2>2. CASE Reenumerated(t)
    <3>1. walk[t] \in Node
      BY <1>1, <2>2 DEF Reenumerated, NodesTypeOK, Id
    <3>2. next[walk[t]] \in Id /\ {next[walk[t]]} \ {Null} \subseteq Node
      BY <1>1, <3>1 DEF Id
    <3>3. QED BY <1>1, <2>2, <3>2 DEF Reenumerated, NodesTypeOK, Id
  <2>3. CASE UNCHANGED <<walk, told>>
    BY <1>1, <2>3 DEF NodesTypeOK
  <2>4. QED
    BY <2>1, <2>2, <2>3 DEF Calls, RegisterAdd, RegisterDel, Stop
<1>6. stray' \subseteq Thread \X {"list", "id"} /\ <<Loop, "list">> \notin stray'
  <2>1. CASE (Reenumerate(t) \/ Reenumerated(t)) /\ t = Loop
    BY <1>1, <2>1, WalkParts DEF OthersTypeOK, LoopWalksLive
  <2>2. CASE (Reenumerate(t) \/ Reenumerated(t)) /\ t # Loop
    <3>1. stray' \subseteq stray \cup {<<t, "list">>}
      BY <2>2 DEF Reenumerate, Reenumerated, Touch
    <3>2. QED BY <1>1, <2>2, <3>1 DEF OthersTypeOK, LoopWalksLive
  <2>3. CASE Stop(t) \/ \E n \in told : RegisterAdd(t, n) \/ RegisterDel(t, n)
    <3>1. stray' \subseteq stray \cup {<<t, "id">>}
      BY <2>3 DEF Stop, RegisterAdd, RegisterDel, Touch
    <3>2. QED BY <1>1, <3>1 DEF OthersTypeOK, LoopWalksLive
  <2>4. QED BY <2>1, <2>2, <2>3 DEF Calls
<1>7. /\ request' \in BOOLEAN /\ observed' \in BOOLEAN
      /\ stopping' \subseteq Thread
  BY <1>1
  DEF Calls, RegisterAdd, RegisterDel, Reenumerate, Reenumerated, Stop,
      OthersTypeOK, handshake
<1>8. calls' \in 0 .. MaxCalls
  <2>1. calls' = calls \/ (calls' = calls + 1 /\ calls < MaxCalls)
    BY DEF Calls, RegisterAdd, RegisterDel, Reenumerate, Reenumerated, Stop,
           Calling, counts
  <2>2. calls \in 0 .. MaxCalls /\ MaxCalls \in Nat
    BY <1>1, MacAssumption DEF OthersTypeOK
  <2>3. QED BY <2>1, <2>2
<1>9. RegistryTypeOK'
  BY <1>1, <1>2, <1>4 DEF RegistryTypeOK, registry
<1>10. NodesTypeOK'
  BY <1>1, <1>2, <1>4, <1>5 DEF NodesTypeOK, heap
<1>11. OthersTypeOK'
  BY <1>1, <1>2, <1>6, <1>7, <1>8 DEF OthersTypeOK
<1>12. QED BY <1>3, <1>6, <1>9, <1>10, <1>11, TypeParts DEF LoopWalksLive

-----------------------------------------------------------------------------
(* Steps keep the list                                                     *)

\* The run loop's thread is in none of its callbacks, or in one that does not
\* re-enumerate.
LEMMA NotWalking ==
  ASSUME Working, ~CalledBack
  PROVE  walk[Loop] = Null
  BY WorkingParts DEF Walking

\* A step that leaves the list, and the unplugging branch unless it is done.
LEMMA ListStays ==
  ASSUME Working, UNCHANGED <<heap, devices, walk, told>>, stray \subseteq stray',
         \/ UNCHANGED <<cur, prev>> /\ pc'[Loop] = pc[Loop]
         \/ /\ pc[Loop] \notin {"unplugged", "swept"}
            /\ pc'[Loop] \notin {"sweep", "swept"}
            /\ walk[Loop] = Null
  PROVE  ListInv'
<1>1. /\ Shape /\ Sweeping /\ Reporting /\ Walking /\ Pointing
      /\ FreedIsReported /\ pc[Owner] # "cleaned"
  BY WorkingParts
<1>2. Shape' /\ Known' = Known /\ Alive' = Alive
  BY <1>1, ShapeStill
<1>3. UNCHANGED <<next, freed>>
  BY DEF heap
<1>4. Sweeping'
  BY <1>1, <1>2, <1>3 DEF Sweeping, Ahead
<1>5. Reporting'
  BY <1>1, <1>2 DEF Reporting
<1>6. Walking' /\ Pointing'
  BY <1>1, <1>2, <1>3 DEF Walking, Pointing, CalledBack
<1>7. FreedIsReported'
  BY <1>1, <1>3 DEF FreedIsReported
<1>8. QED BY <1>2, <1>4, <1>5, <1>6, <1>7 DEF ListInv

LEMMA ListQuiet ==
  ASSUME Working,
         \/ System \/ RunLoop \/ LoopStop \/ PluggedReturn \/ InputReturn
         \/ Start \/ StartReturn \/ \E t \in Thread : Stop(t) \/ StopReturn(t)
         \/ \E d \in Dev : Drop(d) \/ RemovedNull(d) \/ Input(d)
  PROVE  ListInv'
<1>1. pc \in [Thread -> Places] /\ Owner # Loop
      /\ Owner \in Thread /\ Loop \in Thread /\ (~thread => pc[Loop] = "none")
  BY WorkingParts DEF HandInv, NoThread
<1>2. UNCHANGED <<heap, devices, walk, told>>
  BY DEF System, Plug, Unplug, Expire, RunLoop, LoopOpen, LoopConfirm, LoopClose,
     LoopExit, LoopStop, PluggedReturn, InputReturn, Start, StartReturn, Stop,
     StopReturn, Drop, RemovedNull, Input, list
<1>3. stray \subseteq stray'
  BY InputParts
  DEF System, Plug, Unplug, Expire, RunLoop, LoopOpen, LoopConfirm, LoopClose,
      LoopExit, LoopStop, PluggedReturn, InputReturn, Start, StartReturn, Stop,
      StopReturn, Drop, RemovedNull
<1>4. CASE \/ System \/ StartReturn
           \/ \E t \in Thread : Stop(t) \/ StopReturn(t)
           \/ \E d \in Dev : Drop(d) \/ RemovedNull(d)
  <2>1. UNCHANGED <<cur, prev>> /\ pc'[Loop] = pc[Loop]
    BY <1>1, <1>4
    DEF System, Plug, Unplug, Expire, StartReturn, Stop, StopReturn, Drop,
        RemovedNull, Goto
  <2>2. QED BY <1>2, <1>3, <2>1, ListStays
<1>5. CASE RunLoop \/ LoopStop \/ Start \/ \E d \in Dev : Input(d)
  <2>1. ~CalledBack /\ pc[Loop] \notin {"unplugged", "swept"}
        /\ pc'[Loop] \notin {"sweep", "swept"}
    BY <1>1, <1>5
    DEF RunLoop, LoopOpen, LoopConfirm, LoopClose, LoopExit, LoopStop, Start,
        Input, Goto, CalledBack
  <2>2. QED BY <1>2, <1>3, <2>1, ListStays, NotWalking
<1>6. CASE PluggedReturn \/ InputReturn
  <2>1. /\ pc[Loop] \notin {"unplugged", "swept"} /\ walk[Loop] = Null
        /\ pc'[Loop] \notin {"sweep", "swept"}
    BY <1>1, <1>6 DEF PluggedReturn, InputReturn, Goto
  <2>2. QED BY <1>2, <1>3, <2>1, ListStays
<1>7. QED BY <1>4, <1>5, <1>6

LEMMA ListMatched ==
  ASSUME Working, NEW d \in Dev, Matched(d)
  PROVE  ListInv'
<1> DEFINE m == allocated'
<1>1. /\ pc \in [Thread -> Places] /\ Loop \in Thread /\ Owner # Loop
      /\ Shape /\ Walking /\ Pointing /\ FreedIsReported
      /\ pc[Owner] # "cleaned" /\ TypeOK
  BY WorkingParts
<1>2. /\ pc[Loop] = "run" /\ told' = told \cup {m}
      /\ next' = [next EXCEPT ![m] = devices]
      /\ Goto(Loop, "plugged") /\ UNCHANGED <<freed, walk, stray>>
      /\ Shape' /\ m \in Node /\ m \notin Known
      /\ Known' = Known \cup {m} /\ Alive' = Alive \cup {m}
  BY MatchedParts
<1> HIDE DEF m
<1>3. walk[Loop] = Null
  BY <1>2, NotWalking DEF CalledBack
<1>4. pc'[Loop] = "plugged"
  BY <1>1, <1>2 DEF Goto
<1>5. Sweeping' /\ Reporting'
  BY <1>4 DEF Sweeping, Reporting
<1>6. Walking'
  BY <1>1, <1>2, <1>3 DEF Walking
<1>7. Pointing'
  <2>1. next \in [Node -> Id] /\ Known \subseteq Node
    BY <1>1, AliveFacts DEF TypeOK
  <2>2. devices \in Known \cup {Null}
    BY <1>1, ShapeFacts DEF Alive
  <2>3. QED BY <1>1, <1>2, <2>1, <2>2 DEF Pointing
<1>8. FreedIsReported'
  <2>1. m \notin freed
    BY <1>1, <1>2 DEF Walking
  <2>2. \/ <<Owner, "list">> \in stray
        \/ told \cap freed = {}
    BY <1>1, <1>2 DEF FreedIsReported
  <2>3. QED BY <1>2, <1>4, <2>1, <2>2 DEF FreedIsReported
<1>9. QED BY <1>2, <1>5, <1>6, <1>7, <1>8 DEF ListInv

\* A node taken out by the run loop's thread, to be reported as unplugged.
LEMMA ListUnlinked ==
  ASSUME Working, NEW n \in Alive, Unlinks(n), ~CalledBack,
         cur' = n, pc'[Loop] \in {"unplugged", "swept"},
         UNCHANGED <<walk, told, stray>>
  PROVE  Shape' /\ Reporting' /\ Walking' /\ Pointing' /\ FreedIsReported'
<1>1. /\ Shape /\ Walking /\ Pointing /\ FreedIsReported
      /\ pc[Owner] # "cleaned" /\ TypeOK
  BY WorkingParts
<1>2. /\ Shape' /\ Known' = Known /\ Alive' = Alive \ {n}
      /\ freed' = freed \cup {n}
      /\ \A m \in Node : next'[m] = next[m] \/ next'[m] = next[n]
  BY <1>1, UnlinksParts
<1>3. n \in Known /\ Known \subseteq Node
  BY <1>1, AliveFacts
<1>4. Reporting'
  BY <1>2, <1>3 DEF Reporting
<1>5. walk[Loop] = Null
  BY NotWalking
<1>6. Walking'
  BY <1>1, <1>2, <1>3, <1>5 DEF Walking
<1>7. Pointing'
  BY <1>1, <1>2, <1>3 DEF Pointing
<1>8. FreedIsReported'
  <2>1. \/ <<Owner, "list">> \in stray
        \/ told \cap freed = {}
    BY <1>1 DEF FreedIsReported, CalledBack
  <2>2. QED BY <1>2, <2>1 DEF FreedIsReported
<1>9. QED BY <1>2, <1>4, <1>6, <1>7, <1>8

LEMMA ListRemoved ==
  ASSUME Working, NEW d \in Dev, Removed(d)
  PROVE  ListInv'
<1>1. /\ pc \in [Thread -> Places] /\ Loop \in Thread
  BY WorkingParts
<1>2. pc[Loop] = "run" /\ UNCHANGED <<walk, told, stray, prev>>
  BY RemovedParts
<1>3. CASE UNCHANGED <<heap, list, cur, pc>>
  BY <1>2, <1>3, ListStays DEF list
<1>4. CASE \E n \in Alive : Unlinks(n) /\ cur' = n /\ Goto(Loop, "unplugged")
  <2>1. PICK n \in Alive : Unlinks(n) /\ cur' = n /\ Goto(Loop, "unplugged")
    BY <1>4
  <2>2. ~CalledBack /\ pc'[Loop] = "unplugged"
    BY <1>1, <1>2, <2>1 DEF CalledBack, Goto
  <2>3. Shape' /\ Reporting' /\ Walking' /\ Pointing' /\ FreedIsReported'
    BY <1>2, <2>1, <2>2, ListUnlinked
  <2>4. Sweeping'
    BY <2>2 DEF Sweeping
  <2>5. QED BY <2>3, <2>4 DEF ListInv
<1>5. QED BY <1>3, <1>4, RemovedParts

LEMMA ListRemovedUnknown ==
  ASSUME Working, NEW d \in Dev, RemovedUnknown(d)
  PROVE  ListInv'
<1>1. /\ pc \in [Thread -> Places] /\ Loop \in Thread /\ TypeOK
      /\ Shape /\ Walking /\ Pointing /\ FreedIsReported
      /\ pc[Owner] # "cleaned"
  BY WorkingParts
<1>2. /\ pc[Loop] = "run" /\ pc'[Loop] = "sweep"
      /\ cur' = devices /\ prev' = devices
      /\ UNCHANGED <<heap, list, walk, told, stray>>
  BY <1>1 DEF RemovedUnknown, Departed, Goto
<1>3. Shape' /\ Known' = Known /\ Alive' = Alive /\ UNCHANGED <<next, freed, devices>>
  BY <1>1, <1>2, ShapeStill DEF heap, list
<1>4. walk[Loop] = Null
  BY <1>2, NotWalking DEF CalledBack
<1>5. devices \in Alive \cup {Null}
  BY <1>1, ShapeFacts
<1>6. Sweeping' /\ Reporting'
  BY <1>2, <1>3, <1>5 DEF Sweeping, Reporting, Ahead
<1>7. Walking' /\ Pointing' /\ FreedIsReported'
  BY <1>1, <1>2, <1>3, <1>4 DEF Walking, Pointing, FreedIsReported
<1>8. QED BY <1>3, <1>6, <1>7 DEF ListInv

LEMMA ListSweep ==
  ASSUME Working, Sweep
  PROVE  ListInv'
<1>1. /\ pc \in [Thread -> Places] /\ Loop \in Thread /\ TypeOK
      /\ Shape /\ Walking /\ Pointing /\ FreedIsReported
      /\ pc[Owner] # "cleaned"
  BY WorkingParts
<1>2. /\ pc[Loop] = "sweep" /\ UNCHANGED <<heap, list, walk, told, stray>>
      /\ cur = Null \/ cur \in Alive
  BY SweepParts DEF Sweep
<1>3. walk[Loop] = Null
  BY <1>2, NotWalking DEF CalledBack
<1>4. CASE Goto(Loop, "run")
  <2>1. pc'[Loop] = "run"
    BY <1>1, <1>4 DEF Goto
  <2>2. QED BY <1>2, <1>3, <2>1, ListStays DEF list
<1>5. CASE cur # Null /\ prev' = cur /\ cur' = next[cur] /\ UNCHANGED pc
  <2>1. Shape' /\ Known' = Known /\ Alive' = Alive /\ UNCHANGED <<next, freed>>
    BY <1>1, <1>2, ShapeStill DEF heap, list
  <2>2. cur \in Alive /\ next[cur] \in Alive \cup {Null}
    BY <1>1, <1>2, <1>5, ShapeFacts
  <2>3. Sweeping' /\ Reporting'
    BY <1>2, <1>5, <2>1, <2>2 DEF Sweeping, Reporting, Ahead
  <2>4. Walking' /\ Pointing' /\ FreedIsReported'
    BY <1>1, <1>2, <1>3, <1>5, <2>1 DEF Walking, Pointing, FreedIsReported
  <2>5. QED BY <2>1, <2>3, <2>4 DEF ListInv
<1>6. QED BY <1>4, <1>5 DEF Sweep

LEMMA ListSwept ==
  ASSUME Working, Swept
  PROVE  ListInv'
<1>1. /\ pc \in [Thread -> Places] /\ Loop \in Thread /\ TypeOK
      /\ Shape /\ Sweeping /\ pc[Loop] = "sweep"
  BY WorkingParts DEF Swept
<1>2. /\ pc'[Loop] = "swept" /\ UNCHANGED <<walk, told, stray, cur>>
      /\ cur \in Alive /\ Unlinks(cur) /\ Unlink(cur, prev)
      /\ prev' = IF prev = cur THEN next[cur] ELSE prev
  BY <1>1, SweepParts DEF Swept, Goto
<1>3. \/ prev = devices /\ cur = devices
      \/ prev \in Alive /\ next[prev] = cur
  BY <1>1 DEF Sweeping, Ahead
<1>4. ~CalledBack
  BY <1>1 DEF CalledBack
<1>5. Shape' /\ Reporting' /\ Walking' /\ Pointing' /\ FreedIsReported'
  BY <1>2, <1>4, ListUnlinked
<1>6. /\ Alive' = Alive \ {cur}
      /\ devices' = IF prev = cur THEN next[cur] ELSE devices
      /\ prev # cur => next'[prev] = next[cur]
      /\ next'[cur] = next[cur]
  <2>1. \/ prev = cur /\ cur = devices
        \/ prev \in Alive /\ next[prev] = cur
    BY <1>3
  <2>2. QED BY <1>1, <1>2, <2>1, ShapeUnlinked
<1>7. next[cur] \in Alive \cup {Null} /\ next[cur] # cur
  BY <1>1, <1>2, ShapeFacts, AliveFacts
<1>8. Ahead' = next[cur]
  BY <1>2, <1>6 DEF Ahead
<1>9. Sweeping'
  <2>1. next[cur] \in Alive' \cup {Null}
    BY <1>6, <1>7
  <2>2. CASE prev = cur
    BY <1>2, <1>6, <1>8, <2>1, <2>2 DEF Sweeping
  <2>3. CASE prev # cur
    <3>1. prev \in Alive
      BY <1>3, <2>3
    <3>2. prev' \in Alive' /\ next'[prev'] = next[cur]
      BY <1>2, <1>6, <2>3, <3>1
    <3>3. QED BY <1>8, <2>1, <3>2 DEF Sweeping
  <2>4. QED BY <2>2, <2>3
<1>10. QED BY <1>5, <1>9 DEF ListInv

\* The callback that reports a device as unplugged returns.
LEMMA ListReported ==
  ASSUME Working, UnpluggedReturn \/ SweptReturn
  PROVE  ListInv'
<1>1. /\ pc \in [Thread -> Places] /\ Loop \in Thread /\ TypeOK
      /\ Shape /\ Sweeping /\ Walking /\ Pointing /\ FreedIsReported
      /\ pc[Owner] # "cleaned"
  BY WorkingParts
<1>2. /\ UNCHANGED <<heap, list, walk, stray, prev>> /\ walk[Loop] = Null
      /\ told' = told \ {cur}
      /\ pc[Loop] \in {"unplugged", "swept"}
  BY DEF UnpluggedReturn, SweptReturn
<1>3. /\ Shape' /\ Known' = Known /\ Alive' = Alive
      /\ UNCHANGED <<next, freed, devices>>
  BY <1>1, <1>2, ShapeStill DEF heap, list
<1>4. Walking' /\ Pointing'
  BY <1>1, <1>2, <1>3 DEF Walking, Pointing
<1>5. FreedIsReported'
  BY <1>1, <1>2, <1>3 DEF FreedIsReported
<1>6. /\ pc'[Loop] \in {"run", "sweep"}
      /\ pc'[Loop] = "sweep" =>
           pc[Loop] = "swept" /\ cur' = next[cur] /\ UNCHANGED prev
  BY <1>1 DEF UnpluggedReturn, SweptReturn, Goto
<1>7. Sweeping' /\ Reporting'
  BY <1>1, <1>3, <1>6 DEF Sweeping, Reporting, Ahead
<1>8. QED BY <1>3, <1>4, <1>5, <1>7 DEF ListInv

LEMMA ListCalls ==
  ASSUME Working, NEW t \in Thread, Calls(t) \/ Reenumerated(t)
  PROVE  ListInv'
<1>1. /\ pc \in [Thread -> Places] /\ Owner # Loop /\ TypeOK
      /\ Shape /\ Sweeping /\ Reporting /\ Walking /\ Pointing
      /\ FreedIsReported /\ pc[Owner] # "cleaned"
      /\ walk \in [Thread -> Id] /\ Owner \in Thread /\ Loop \in Thread
  BY WorkingParts DEF TypeOK
<1>2. UNCHANGED <<heap, devices, cur, prev, pc>> /\ stray \subseteq stray'
  BY DEF Calls, RegisterAdd, RegisterDel, Reenumerate, Reenumerated, Stop,
         list, Touch
<1>3. CASE UNCHANGED <<walk, told>>
  BY <1>2, <1>3, ListStays
<1>4. CASE Reenumerate(t) \/ Reenumerated(t)
  <2>1. /\ Shape' /\ Known' = Known /\ Alive' = Alive
        /\ UNCHANGED <<next, freed>>
    BY <1>1, <1>2, ShapeStill DEF heap
  <2>2. Sweeping' /\ Reporting' /\ Pointing'
    BY <1>1, <1>2, <2>1 DEF Sweeping, Reporting, Pointing, Ahead
  <2>3. \A n \in Alive : n \in Known /\ n \notin freed
    BY DEF Alive
  <2>4. CASE t = Loop
    <3>1. /\ UNCHANGED stray
          /\ walk' = [walk EXCEPT ![Loop] = walk'[Loop]]
          /\ walk'[Loop] \in Alive \cup {Null}
          /\ told' \subseteq told \cup Alive
      BY <1>4, <2>4, WalkParts
    <3>2. CalledBack
      BY <1>1, <1>4, <2>4
      DEF Walking, Reenumerate, Reenumerated, Calling
    <3>3. walk'[Owner] = walk[Owner]
      BY <1>1, <3>1
    <3>4. Walking'
      BY <1>1, <1>2, <2>1, <2>3, <3>1, <3>2, <3>3 DEF Walking, CalledBack
    <3>5. FreedIsReported'
      BY <1>1, <1>2, <2>1, <2>3, <3>1 DEF FreedIsReported
    <3>6. QED BY <2>1, <2>2, <3>4, <3>5 DEF ListInv
  <2>5. CASE t = Owner
    <3>1. walk'[Loop] = walk[Loop]
      BY <1>1, <1>4, <2>5 DEF Reenumerate, Reenumerated
    <3>2. /\ walk'[Owner] \in Known \cup {Null} /\ told' \subseteq told \cup Known
          /\ told' \cap freed \subseteq told \/ <<Owner, "list">> \in stray'
      <4>1. CASE Reenumerate(t)
        <5>1. devices \in Alive
          BY <1>1, <4>1, ShapeFacts DEF Reenumerate
        <5>2. QED BY <1>1, <2>3, <2>5, <4>1, <5>1 DEF Reenumerate
      <4>2. CASE Reenumerated(t)
        <5>1. walk[Owner] \in Known /\ next[walk[Owner]] \in Known \cup {Null}
          BY <1>1, <2>5, <4>2 DEF Reenumerated, Walking, Pointing
        <5>2. CASE walk' = [walk EXCEPT ![t] = Null] /\ UNCHANGED <<stray, told>>
          BY <1>1, <2>5, <5>2
        <5>3. CASE /\ walk' = [walk EXCEPT ![t] = next[walk[t]]]
                   /\ Touch(t, "list", {walk[t], next[walk[t]]})
                   /\ told' = told \cup ({next[walk[t]]} \ {Null})
          <6>1. walk'[Owner] = next[walk[Owner]]
            BY <1>1, <2>5, <5>3
          <6>2. told' \subseteq told \cup Known
            BY <2>5, <5>1, <5>3
          <6>3. next[walk[Owner]] \in freed => <<Owner, "list">> \in stray'
            BY <2>5, <5>3 DEF Touch
          <6>4. QED BY <2>5, <5>1, <5>3, <6>1, <6>2, <6>3
        <5>4. QED BY <4>2, <5>2, <5>3 DEF Reenumerated
      <4>3. QED BY <1>4, <4>1, <4>2
    <3>3. Walking'
      BY <1>1, <1>2, <2>1, <3>1, <3>2 DEF Walking, CalledBack
    <3>4. FreedIsReported'
      BY <1>1, <1>2, <2>1, <3>2 DEF FreedIsReported
    <3>5. QED BY <2>1, <2>2, <3>3, <3>4 DEF ListInv
  <2>6. QED BY <2>4, <2>5 DEF Thread
<1>5. QED
  BY <1>3, <1>4 DEF Calls, RegisterAdd, RegisterDel, Stop

-----------------------------------------------------------------------------
(* Steps keep what is known of the nodes                                   *)

LEMMA NodeParts ==
  ASSUME Working
  PROVE  /\ Dated /\ Single /\ Announcing /\ Following /\ Hooked
         /\ \A n \in Known : dev[n] \in Dev /\ session[n] \in Nat /\ n \in Nat
         /\ \A n \in Alive : n \in Known /\ n \notin freed
         /\ \A n \in freed : n \in Known
         /\ starts \in Nat /\ Alive = Known \ freed
  BY WorkingParts, AliveFacts, MacAssumption DEF TypeOK, Alive, Walking

\* Nodes are only freed, and only those of devices that have gone.
LEMMA NodesKept ==
  ASSUME Working, Known' = Known, freed \subseteq freed', freed' \subseteq Known,
         UNCHANGED <<dev, session, starts, entry, hooked, registered>>,
         \A n \in freed' \ freed : dev[n] \in Gone,
         pc'[Loop] = "setup" => pc[Loop] = "setup"
  PROVE  Dated' /\ Single' /\ Hooked'
<1>1. Dated /\ Single /\ Hooked
  BY NodeParts
<1>2. Dated'
  BY <1>1 DEF Dated, Current
<1>3. Gone' = Gone
  BY DEF Gone
<1>4. Single'
  BY <1>1, <1>3 DEF Single, Current
<1>5. Hooked'
  BY <1>1 DEF Hooked, Current
<1>6. QED BY <1>2, <1>4, <1>5

\* What the manager has to announce becomes less, a match before its removal.
LEMMA AnnouncingKept ==
  ASSUME Working, Known' = Known, UNCHANGED <<dev, session, starts, entry, hooked>>,
         Open' <=> Open, matching' \subseteq matching, removal' \subseteq removal,
         \A d \in matching' : d \in removal => d \in removal'
  PROVE  Announcing'
<1>1. Announcing
  BY NodeParts
<1>2. Gone' = Gone
  BY DEF Gone
<1>3. ~Open' => matching' \cup removal' \cup hooked' = {}
  BY <1>1 DEF Announcing
<1>4. ASSUME NEW d \in matching'
      PROVE  /\ entry'[d] # "new"
             /\ d \in Gone' => d \in removal'
             /\ \A n \in Known' : Current(n)' => dev'[n] # d
  BY <1>1, <1>2, <1>4 DEF Announcing, Current
<1>5. QED BY <1>3, <1>4 DEF Announcing

\* A step that leaves the nodes, the announcements and the unplugging branch.
LEMMA NodesStay ==
  ASSUME Working,
         UNCHANGED <<heap, registry, hooked, registered, starts>>,
         dropped \subseteq dropped',
         Open' <=> Open,
         pc'[Loop] = "setup" => pc[Loop] = "setup",
         \/ pc[Loop] \notin {"sweep", "swept"}
         \/ pc'[Loop] \in {"sweep", "swept"} /\ Ahead' = Ahead
  PROVE  NodeInv'
<1>1. /\ Known' = Known /\ Alive' = Alive /\ freed' = freed /\ freed \subseteq Known
      /\ UNCHANGED <<dev, session, next, entry, matching, removal>>
  BY NodeParts DEF heap, registry, Known, Alive
<1>2. Dated' /\ Single' /\ Hooked'
  BY <1>1, NodesKept
<1>3. Announcing'
  BY <1>1, AnnouncingKept
<1>4. Following'
  <2>1. Following /\ Present' = Present /\ Gone' = Gone
    BY <1>1, NodeParts DEF Present, Gone
  <2>2. QED BY <1>1, <2>1 DEF Following, Current
<1>5. QED BY <1>2, <1>3, <1>4 DEF NodeInv

LEMMA NodesQuiet ==
  ASSUME Working,
         \/ LoopConfirm \/ LoopStop \/ LoopExit \/ StartReturn
         \/ PluggedReturn \/ UnpluggedReturn \/ InputReturn
         \/ \E d \in Dev : Input(d)
         \/ \E t \in Thread :
              Reenumerate(t) \/ Reenumerated(t) \/ Stop(t) \/ StopReturn(t)
  PROVE  NodeInv'
<1>1. pc \in [Thread -> Places] /\ Owner # Loop
      /\ Owner \in Thread /\ Loop \in Thread
  BY WorkingParts
<1>2. UNCHANGED <<heap, registry, hooked, registered, starts, dropped>>
  BY DEF LoopConfirm, LoopStop, LoopExit, StartReturn, PluggedReturn,
     UnpluggedReturn, InputReturn, Input, Reenumerate, Reenumerated, Stop,
     StopReturn, list, counts
<1>3. CASE \/ LoopConfirm \/ LoopStop \/ LoopExit
           \/ PluggedReturn \/ UnpluggedReturn \/ InputReturn
           \/ \E d \in Dev : Input(d)
  <2>1. /\ pc[Loop] \notin {"sweep", "swept"} /\ pc'[Loop] # "setup"
        /\ Open' <=> Open
    BY <1>1, <1>3
    DEF LoopConfirm, LoopStop, LoopExit, PluggedReturn, UnpluggedReturn,
        InputReturn, Input, Goto, Open
  <2>2. QED BY <1>2, <2>1, NodesStay
<1>4. CASE \/ StartReturn
           \/ \E t \in Thread :
                Reenumerate(t) \/ Reenumerated(t) \/ Stop(t) \/ StopReturn(t)
  <2>1. pc'[Loop] = pc[Loop] /\ UNCHANGED cur
    BY <1>1, <1>4
    DEF StartReturn, Reenumerate, Reenumerated, Stop, StopReturn, Goto
  <2>2. (Open' <=> Open) /\ Ahead' = Ahead
    BY <1>2, <2>1 DEF Open, Ahead, heap
  <2>3. QED BY <1>2, <2>1, <2>2, NodesStay
<1>5. QED BY <1>3, <1>4

LEMMA NodesSystem ==
  ASSUME Working, NEW d \in Dev, Plug(d) \/ Unplug(d) \/ Expire(d)
  PROVE  NodeInv'
<1>1. /\ Dated /\ Single /\ Announcing /\ Following /\ Hooked
      /\ \A n \in Known : dev[n] \in Dev
      /\ \A n \in Alive : n \in Known
      /\ \A n \in freed : n \in Known
      /\ TypeOK /\ entry \in [Dev -> {"new", "present", "id", "failed", "null"}]
      /\ matching \subseteq Dev
  BY NodeParts, WorkingParts DEF TypeOK
<1>2. UNCHANGED <<heap, list, pc, cur, starts, dropped>>
  BY DEF Plug, Unplug, Expire, counts
<1>3. /\ Known' = Known /\ Alive' = Alive /\ (Open' <=> Open) /\ Ahead' = Ahead
      /\ UNCHANGED <<dev, session, freed, hooked, registered, next>>
      /\ \A n \in Known : Current(n)' <=> Current(n)
  BY <1>2 DEF heap, list, Known, Alive, Open, Ahead, Current
<1>4. Dated' /\ Hooked'
  BY <1>1, <1>2, <1>3 DEF Dated, Hooked
<1>5. /\ \A e \in Dev : e # d => entry'[e] = entry[e]
      /\ entry'[d] # "new"
      /\ d \in Gone => d \in Gone'
  BY <1>1, MacAssumption DEF Plug, Unplug, Expire, Present, Gone
<1>6. Single'
  BY <1>1, <1>3, <1>5 DEF Single, Gone
<1>7. CASE Plug(d)
  <2>1. /\ entry[d] = "new" /\ entry'[d] = "present" /\ removal' = removal
        /\ matching' = IF Open THEN matching \cup {d} ELSE matching
    BY <1>1, <1>7 DEF Plug
  <2>2. Gone' = Gone /\ Present' = Present \cup {d}
    BY <1>1, <1>5, <2>1 DEF Gone, Present
  <2>3. \A n \in Known : dev[n] # d
    BY <1>1, <2>1 DEF Single
  <2>4. Announcing'
    <3>1. ~Open' => matching' \cup removal' \cup hooked' = {}
      BY <1>1, <1>3, <2>1 DEF Announcing
    <3>2. ASSUME NEW e \in matching'
          PROVE  /\ entry'[e] # "new"
                 /\ e \in Gone' => e \in removal'
                 /\ \A n \in Known : Current(n) => dev[n] # e
      <4>1. CASE e = d
        BY <1>5, <2>1, <2>2, <2>3, <4>1 DEF Gone
      <4>2. CASE e # d
        <5>1. e \in matching /\ e \in Dev
          BY <1>1, <2>1, <3>2, <4>2
        <5>2. QED BY <1>1, <1>5, <2>1, <2>2, <4>2, <5>1 DEF Announcing
      <4>3. QED BY <4>1, <4>2
    <3>3. QED BY <1>3, <3>1, <3>2 DEF Announcing
  <2>5. Following'
    BY <1>1, <1>2, <1>3, <1>5, <2>1, <2>2, <2>3 DEF Following
  <2>6. QED BY <1>4, <1>6, <2>4, <2>5 DEF NodeInv
<1>8. CASE Unplug(d)
  <2>1. /\ entry[d] = "present" /\ matching' = matching
        /\ entry'[d] \in {"id", "failed", "null"}
        /\ removal' = IF Open THEN removal \cup {d} ELSE removal
    BY <1>1, <1>8, MacAssumption DEF Unplug, Present
  <2>2. Gone' = Gone \cup {d} /\ Present' = Present \ {d}
    BY <1>1, <1>5, <2>1 DEF Gone, Present
  <2>3. Announcing'
    BY <1>1, <1>3, <1>5, <2>1, <2>2 DEF Announcing
  <2>4. Following'
    BY <1>1, <1>2, <1>3, <1>5, <2>1, <2>2 DEF Following
  <2>5. QED BY <1>4, <1>6, <2>3, <2>4 DEF NodeInv
<1>9. CASE Expire(d)
  <2>1. /\ entry[d] = "id" /\ entry'[d] = "failed"
        /\ UNCHANGED <<matching, removal>>
    BY <1>1, <1>9 DEF Expire
  <2>2. Gone' = Gone /\ Present' = Present
    BY <1>1, <1>5, <2>1 DEF Gone, Present
  <2>3. Announcing'
    BY <1>1, <1>3, <1>5, <2>1, <2>2 DEF Announcing
  <2>4. Following'
    BY <1>1, <1>2, <1>3, <1>5, <2>1, <2>2 DEF Following
  <2>5. QED BY <1>4, <1>6, <2>3, <2>4 DEF NodeInv
<1>10. QED BY <1>7, <1>8, <1>9

\* After a start the nodes there are, are those of earlier sessions.
LEMMA NodesStart ==
  ASSUME Working, Start
  PROVE  NodeInv'
<1>1. /\ Dated /\ Single /\ Announcing /\ TypeOK
      /\ \A n \in Known : session[n] \in Nat
      /\ \A n \in freed : n \in Known
      /\ starts \in Nat
      /\ pc \in [Thread -> Places] /\ Owner # Loop
      /\ Owner \in Thread /\ Loop \in Thread
  BY NodeParts, WorkingParts
<1>2. /\ pc[Loop] = "none" /\ pc'[Loop] = "setup" /\ starts' = starts + 1
      /\ UNCHANGED <<registry, heap, list>>
  BY <1>1, WorkingParts DEF Start, HandInv, NoThread
<1>3. /\ Known' = Known /\ ~Open /\ ~Open' /\ Gone' = Gone
      /\ UNCHANGED <<dev, session, freed, entry, matching, removal, hooked>>
  BY <1>2 DEF registry, heap, list, Known, Open, Gone
<1>4. \A n \in Known : ~Current(n)'
  BY <1>1, <1>2, <1>3 DEF Dated, Current
<1>5. Dated'
  BY <1>1, <1>2, <1>3, <1>4 DEF Dated
<1>6. Single'
  BY <1>1, <1>3, <1>4 DEF Single
<1>7. matching' \cup removal' \cup hooked' = {}
  BY <1>1, <1>3 DEF Announcing
<1>8. Announcing' /\ Hooked' /\ Following'
  BY <1>3, <1>7 DEF Announcing, Hooked, Following
<1>9. QED BY <1>5, <1>6, <1>8 DEF NodeInv

\* The manager opens, and announces every device that is there.
LEMMA NodesOpen ==
  ASSUME Working, LoopOpen
  PROVE  NodeInv'
<1>1. /\ Dated /\ Single /\ Announcing
      /\ \A n \in Known : dev[n] \in Dev
      /\ \A n \in Alive : n \in Known
      /\ pc \in [Thread -> Places] /\ Loop \in Thread
      /\ \A n \in freed : n \in Known
  BY NodeParts, WorkingParts
<1>2. /\ pc[Loop] = "setup" /\ pc'[Loop] = "opened" /\ matching' = Present
      /\ UNCHANGED <<entry, removal, heap, list, starts, dropped>>
  BY <1>1 DEF LoopOpen, Goto, counts
<1>3. /\ Known' = Known /\ Alive' = Alive /\ Open' /\ ~Open
      /\ Gone' = Gone /\ Present' = Present
      /\ UNCHANGED <<dev, session, freed, registered, hooked>>
      /\ \A n \in Known : Current(n)' <=> Current(n)
  BY <1>2 DEF heap, list, Known, Alive, Open, Gone, Present, Current
<1>4. \A n \in Known : ~Current(n)
  BY <1>1, <1>2 DEF Dated
<1>5. Dated' /\ Single' /\ Hooked'
  <2>1. hooked = {}
    BY <1>1, <1>3 DEF Announcing
  <2>2. QED
    BY <1>1, <1>2, <1>3, <1>4, <2>1 DEF Dated, Single, Hooked
<1>6. Announcing'
  BY <1>2, <1>3, <1>4 DEF Announcing, Present, Gone
<1>7. Following'
  BY <1>1, <1>2, <1>3, <1>4 DEF Following
<1>8. QED BY <1>5, <1>6, <1>7 DEF NodeInv

\* The manager closes, and announces nothing any more.
LEMMA NodesClose ==
  ASSUME Working, LoopClose
  PROVE  NodeInv'
<1>1. /\ Dated /\ Single
      /\ pc \in [Thread -> Places] /\ Loop \in Thread
  BY NodeParts, WorkingParts
<1>2. /\ pc'[Loop] = "exiting"
      /\ matching' = {} /\ removal' = {} /\ hooked' = {}
      /\ UNCHANGED <<entry, heap, starts>>
  BY <1>1 DEF LoopClose, Goto, counts
<1>3. /\ Known' = Known /\ ~Open' /\ Gone' = Gone
      /\ UNCHANGED <<dev, session, freed>>
  BY <1>2 DEF heap, Known, Open, Gone
<1>4. Dated' /\ Single'
  BY <1>1, <1>2, <1>3 DEF Dated, Single, Current
<1>5. Announcing' /\ Hooked' /\ Following'
  BY <1>2, <1>3 DEF Announcing, Hooked, Following
<1>6. QED BY <1>4, <1>5 DEF NodeInv

\* A notification is taken without a node.
LEMMA NodesTaken ==
  ASSUME Working, NEW d \in Dev,
         Drop(d) \/ RemovedNull(d) \/ RemovedUnknown(d)
  PROVE  NodeInv'
<1>1. /\ Following /\ Shape /\ TypeOK
      /\ \A n \in Alive : n \in Known /\ n <= devices
      /\ \A n \in freed : n \in Known
      /\ pc \in [Thread -> Places] /\ Loop \in Thread
  BY NodeParts, WorkingParts, ShapeFacts
<1>2. /\ pc[Loop] = "run" /\ UNCHANGED <<entry, heap, list, starts>>
      /\ \/ /\ matching' = matching \ {d} /\ UNCHANGED removal
            /\ dropped' = dropped \cup {d} /\ UNCHANGED pc
         \/ /\ removal' = removal \ {d} /\ d \notin matching /\ UNCHANGED matching
            /\ dropped' = dropped \cup {d} /\ UNCHANGED pc
         \/ /\ removal' = removal \ {d} /\ d \notin matching /\ UNCHANGED matching
            /\ entry[d] = "failed" /\ UNCHANGED dropped
            /\ cur' = devices /\ Goto(Loop, "sweep")
  BY DEF Drop, RemovedNull, RemovedUnknown, Announced, Departed, counts
<1>3. /\ pc'[Loop] \in {"run", "sweep"} /\ Open /\ Open'
      /\ pc'[Loop] = "sweep" => cur' = devices
  BY <1>1, <1>2 DEF Open, Goto
<1>4. /\ Known' = Known /\ Alive' = Alive /\ Gone' = Gone /\ Present' = Present
      /\ UNCHANGED <<dev, session, freed, registered, hooked>>
  BY <1>2 DEF heap, list, Known, Alive, Gone, Present
<1>5. Dated' /\ Single' /\ Hooked'
  <2>1. freed' \subseteq Known
    BY <1>1, <1>4
  <2>2. pc'[Loop] # "setup"
    BY <1>3
  <2>3. QED BY <1>2, <1>4, <2>1, <2>2, NodesKept
<1>6. Announcing'
  <2>1. \A e \in matching' : e \in removal => e \in removal'
    BY <1>2
  <2>2. matching' \subseteq matching /\ removal' \subseteq removal
    BY <1>2
  <2>3. QED BY <1>2, <1>3, <1>4, <2>1, <2>2, AnnouncingKept
<1>7. Following'
  <2>1. \A n \in Known : Current(n)' <=> Current(n)
    BY <1>2, <1>4 DEF Current
  <2>2. \A e \in Present \ (dropped \cup matching) :
          \E n \in Known : Current(n) /\ dev[n] = e
    BY <1>1, <1>3 DEF Following
  <2>3. \A n \in Alive : Current(n) /\ dev[n] \in Gone \ dropped => dev[n] \in removal
    BY <1>1, <1>2, <1>3 DEF Following
  <2>4. \A e \in Present' \ (dropped' \cup matching') :
          \E n \in Known' : Current(n)' /\ dev'[n] = e
    BY <1>2, <1>4, <2>1, <2>2
  <2>5. ASSUME NEW n \in Alive', Current(n)', dev'[n] \in Gone' \ dropped'
        PROVE  \/ dev'[n] \in removal'
               \/ /\ pc'[Loop] \in {"sweep", "swept"}
                  /\ entry'[dev'[n]] = "failed"
                  /\ n <= Ahead'
    <3>1. dev[n] \in removal /\ n \in Known
      <4>1. n \in Alive /\ n \in Known /\ Current(n) /\ dev[n] \in Gone \ dropped
        BY <1>1, <1>2, <1>4, <2>1, <2>5
      <4>2. QED BY <2>3, <4>1
    <3>2. CASE dev[n] # d
      BY <1>2, <1>4, <3>1, <3>2
    <3>3. CASE dev[n] = d
      <4>1. d \notin dropped'
        BY <1>4, <2>5, <3>3
      <4>2. CASE matching' = matching \ {d} /\ UNCHANGED removal
        BY <1>4, <3>1, <4>2
      <4>3. CASE entry[d] = "failed" /\ cur' = devices /\ Goto(Loop, "sweep")
        <5>1. pc'[Loop] = "sweep"
          BY <1>1, <4>3 DEF Goto
        <5>2. n <= Ahead'
          BY <1>1, <1>4, <4>3, <5>1, <2>5 DEF Ahead
        <5>3. QED BY <1>2, <1>4, <3>3, <4>3, <5>1, <5>2
      <4>4. QED BY <1>2, <4>1, <4>2, <4>3
    <3>4. QED BY <3>2, <3>3
  <2>6. QED BY <2>4, <2>5 DEF Following
<1>8. QED BY <1>5, <1>6, <1>7 DEF NodeInv

\* A device announced has no node of the session yet, and is given one.
LEMMA NodesMatched ==
  ASSUME Working, NEW d \in Dev, Matched(d)
  PROVE  NodeInv'
<1> DEFINE m == allocated'
<1>1. /\ Dated /\ Single /\ Announcing /\ Following /\ Hooked /\ TypeOK
      /\ \A n \in Known : n \in Node /\ session[n] \in Nat /\ n \in Nat /\ n < m
      /\ \A n \in Alive : n \in Known
      /\ \A n \in freed : n \in Known
      /\ starts \in Nat /\ m \in Nat
      /\ pc \in [Thread -> Places] /\ Loop \in Thread
  <2>1. allocated \in Nat /\ m = allocated + 1
    BY WorkingParts, AliveFacts, MatchedParts
  <2>2. m \in Nat /\ \A n \in Known : n < m
    BY <2>1 DEF Known
  <2>3. QED BY <2>2, NodeParts, WorkingParts, AliveFacts
<1>2. /\ pc[Loop] = "run" /\ d \in matching
      /\ dev' = [dev EXCEPT ![m] = d]
      /\ session' = [session EXCEPT ![m] = starts]
      /\ matching' = matching \ {d}
      /\ Goto(Loop, "plugged")
      /\ UNCHANGED <<entry, removal, freed, registered, hooked, dropped, starts>>
      /\ m \in Node /\ m \notin Known
      /\ Known' = Known \cup {m} /\ Alive' = Alive \cup {m}
  BY MatchedParts DEF counts
<1> HIDE DEF m
<1>3. dev \in [Node -> Dev] /\ session \in [Node -> 0 .. MaxStarts]
  BY <1>1 DEF TypeOK
<1>4. /\ pc'[Loop] = "plugged" /\ Open /\ Open'
      /\ Gone' = Gone /\ Present' = Present
      /\ dev'[m] = d /\ session'[m] = starts
      /\ \A n \in Known : n # m /\ dev'[n] = dev[n] /\ session'[n] = session[n]
  BY <1>1, <1>2, <1>3 DEF Goto, Open, Gone, Present
<1>5. /\ \A n \in Known : Current(n)' <=> Current(n)
      /\ \A n \in Known : Current(n) => dev[n] # d
      /\ entry[d] # "new" /\ (d \in Gone => d \in removal)
  BY <1>1, <1>2, <1>4 DEF Current, Announcing
<1>6. Dated'
  <2>1. \A n \in Known' : session'[n] <= starts'
    BY <1>1, <1>2, <1>4 DEF Dated
  <2>2. ASSUME NEW k \in Known', NEW n \in Known', k < n
        PROVE  session'[k] <= session'[n]
    <3>1. k \in Known
      BY <1>1, <1>2, <2>2
    <3>2. CASE n \in Known
      BY <1>1, <1>4, <2>2, <3>1, <3>2 DEF Dated
    <3>3. CASE n = m
      BY <1>1, <1>4, <3>1, <3>3 DEF Dated
    <3>4. QED BY <1>2, <3>2, <3>3
  <2>3. QED BY <1>4, <2>1, <2>2 DEF Dated
<1>7. Single'
  <2>1. ASSUME NEW k \in Known', NEW n \in Known', Current(k)', Current(n)',
               dev'[k] = dev'[n]
        PROVE  k = n
    <3>1. CASE k \in Known /\ n \in Known
      BY <1>1, <1>4, <1>5, <2>1, <3>1 DEF Single
    <3>2. CASE k = m /\ n \in Known
      BY <1>4, <1>5, <2>1, <3>2
    <3>3. CASE n = m /\ k \in Known
      BY <1>4, <1>5, <2>1, <3>3
    <3>4. QED BY <1>2, <3>1, <3>2, <3>3
  <2>2. \A n \in Known' : entry'[dev'[n]] # "new"
    BY <1>1, <1>2, <1>4, <1>5 DEF Single
  <2>3. \A n \in freed' : dev'[n] \in Gone'
    BY <1>1, <1>2, <1>4 DEF Single
  <2>4. QED BY <2>1, <2>2, <2>3 DEF Single
<1>8. Announcing'
  <2>1. ASSUME NEW e \in matching'
        PROVE  /\ entry'[e] # "new"
               /\ e \in Gone' => e \in removal'
               /\ \A n \in Known' : Current(n)' => dev'[n] # e
    <3>1. e \in matching /\ e # d
      BY <1>2, <2>1
    <3>2. QED BY <1>1, <1>2, <1>4, <1>5, <3>1 DEF Announcing
  <2>2. QED BY <1>4, <2>1 DEF Announcing
<1>9. Following'
  <2>1. ASSUME NEW e \in Present' \ (dropped' \cup matching')
        PROVE  \E n \in Known' : Current(n)' /\ dev'[n] = e
    <3>1. CASE e = d
      <4>1. m \in Known' /\ dev'[m] = e
        BY <1>2, <1>4, <3>1
      <4>2. session'[m] = starts'
        BY <1>2, <1>4
      <4>3. QED BY <4>1, <4>2 DEF Current
    <3>2. CASE e # d
      <4>1. PICK n \in Known : Current(n) /\ dev[n] = e
        BY <1>1, <1>2, <1>4, <2>1, <3>2 DEF Following
      <4>2. QED BY <1>2, <1>4, <1>5, <4>1
    <3>3. QED BY <3>1, <3>2
  <2>2. ASSUME NEW n \in Alive', Current(n)', dev'[n] \in Gone' \ dropped'
        PROVE  dev'[n] \in removal'
    <3>1. CASE n = m
      BY <1>2, <1>4, <1>5, <2>2, <3>1
    <3>2. CASE n # m
      <4>1. n \in Alive /\ n \in Known
        BY <1>1, <1>2, <2>2, <3>2
      <4>2. Current(n) /\ dev[n] \in Gone \ dropped
        BY <1>2, <1>4, <1>5, <2>2, <4>1
      <4>3. QED BY <1>1, <1>2, <1>4, <4>1, <4>2 DEF Following
    <3>3. QED BY <3>1, <3>2
  <2>3. QED BY <2>1, <2>2 DEF Following
<1>10. Hooked'
  BY <1>1, <1>2, <1>4, <1>5 DEF Hooked
<1>11. QED BY <1>6, <1>7, <1>8, <1>9, <1>10 DEF NodeInv

\* Of a device's nodes, that of the session is the newest one.
LEMMA NewestCurrent ==
  ASSUME Working, NEW n \in Alive, NEW m \in Alive, Current(m), dev[n] = dev[m],
         m <= n
  PROVE  n = m /\ Current(n)
<1>1. /\ Dated /\ Single /\ n \in Known /\ m \in Known
      /\ session[n] \in Nat /\ session[m] \in Nat /\ starts \in Nat
      /\ n \in Nat /\ m \in Nat
  BY NodeParts
<1>2. m = n \/ m < n
  BY <1>1
<1>3. session[m] <= session[n] /\ session[n] <= starts
  BY <1>1, <1>2 DEF Dated
<1>4. Current(n)
  BY <1>1, <1>3 DEF Current
<1>5. QED BY <1>1, <1>4 DEF Single

LEMMA NodesRemoved ==
  ASSUME Working, NEW d \in Dev, Removed(d)
  PROVE  NodeInv'
<1>1. /\ Following /\ Shape /\ TypeOK
      /\ \A n \in Alive : n \in Known
      /\ \A n \in freed : n \in Known
      /\ pc \in [Thread -> Places] /\ Loop \in Thread
  BY NodeParts, WorkingParts
<1>2. /\ pc[Loop] = "run" /\ d \in removal \ matching /\ entry[d] = "id"
      /\ removal' = removal \ {d}
      /\ UNCHANGED <<entry, matching, allocated, dev, session, registered,
                     hooked, starts>>
  BY RemovedParts DEF counts
<1>3. \/ /\ UNCHANGED <<heap, pc>>
         /\ \/ dropped' = dropped \cup {d}
            \/ UNCHANGED dropped /\ \A n \in Alive : dev[n] # d
      \/ \E n \in Alive :
           /\ dev[n] = d /\ \A m \in Alive : dev[m] = d => m <= n
           /\ Unlinks(n)
           /\ Goto(Loop, "unplugged")
           /\ UNCHANGED dropped
  BY RemovedParts
<1>4. /\ Known' = Known /\ Gone' = Gone /\ Present' = Present
      /\ \A n \in Known : Current(n)' <=> Current(n)
  BY <1>2 DEF Known, Gone, Present, Current
<1>5. pc'[Loop] \in {"run", "unplugged"} /\ Open /\ Open'
  BY <1>1, <1>2, <1>3 DEF Goto, Open
<1>6. Announcing'
  <2>1. \A e \in matching' : e \in removal => e \in removal'
    BY <1>2
  <2>2. QED BY <1>2, <1>4, <1>5, <2>1, AnnouncingKept
<1>7. \A e \in Present \ (dropped \cup matching) :
        \E n \in Known : Current(n) /\ dev[n] = e
  BY <1>1, <1>5 DEF Following
<1>8. \A n \in Alive : Current(n) /\ dev[n] \in Gone \ dropped => dev[n] \in removal
  BY <1>1, <1>2, <1>5 DEF Following
<1>9. CASE /\ UNCHANGED <<heap, pc>>
           /\ \/ dropped' = dropped \cup {d}
              \/ UNCHANGED dropped /\ \A n \in Alive : dev[n] # d
  <2>1. freed' = freed /\ Alive' = Alive
    BY <1>9 DEF heap, Alive, Known
  <2>2. Dated' /\ Single' /\ Hooked'
    BY <1>1, <1>2, <1>4, <1>5, <2>1, NodesKept
  <2>3. ASSUME NEW n \in Alive', Current(n)', dev'[n] \in Gone' \ dropped'
        PROVE  dev'[n] \in removal'
    <3>1. n \in Alive /\ Current(n) /\ dev[n] \in Gone \ dropped
      BY <1>1, <1>2, <1>4, <1>9, <2>1, <2>3
    <3>2. dev[n] # d
      BY <1>2, <1>4, <1>9, <2>3, <3>1
    <3>3. QED BY <1>2, <1>8, <3>1, <3>2
  <2>4. \A e \in Present' \ (dropped' \cup matching') :
          \E n \in Known' : Current(n)' /\ dev'[n] = e
    BY <1>2, <1>4, <1>7, <1>9
  <2>5. Following'
    BY <2>3, <2>4 DEF Following
  <2>6. QED BY <1>6, <2>2, <2>5 DEF NodeInv
<1>10. CASE \E n \in Alive :
              /\ dev[n] = d /\ \A m \in Alive : dev[m] = d => m <= n
              /\ Unlinks(n)
              /\ Goto(Loop, "unplugged")
              /\ UNCHANGED dropped
  <2>1. PICK n \in Alive :
              /\ dev[n] = d /\ \A m \in Alive : dev[m] = d => m <= n
              /\ Unlinks(n)
              /\ UNCHANGED dropped
    BY <1>10
  <2>2. Alive' = Alive \ {n} /\ freed' = freed \cup {n}
    BY <1>1, <2>1, UnlinksParts
  <2>3. d \in Gone
    BY <1>2 DEF Gone
  <2>4. Dated' /\ Single' /\ Hooked'
    BY <1>1, <1>2, <1>4, <1>5, <2>1, <2>2, <2>3, NodesKept
  <2>5. ASSUME NEW m \in Alive', Current(m)', dev'[m] \in Gone' \ dropped'
        PROVE  dev'[m] \in removal'
    <3>1. m \in Alive /\ m # n /\ Current(m) /\ dev[m] \in Gone \ dropped
      BY <1>1, <1>2, <1>4, <2>1, <2>2, <2>5
    <3>2. dev[m] # d
      BY <2>1, <3>1, NewestCurrent
    <3>3. QED BY <1>2, <1>8, <3>1, <3>2
  <2>6. \A e \in Present' \ (dropped' \cup matching') :
          \E m \in Known' : Current(m)' /\ dev'[m] = e
    BY <1>2, <1>4, <1>7, <2>1
  <2>7. Following'
    BY <2>5, <2>6 DEF Following
  <2>8. QED BY <1>6, <2>4, <2>7 DEF NodeInv
<1>11. QED BY <1>3, <1>9, <1>10

\* The branch goes on, past a node whose device is known to the registry.
LEMMA NodesSweep ==
  ASSUME Working, Sweep
  PROVE  NodeInv'
<1>1. /\ Following /\ Shape /\ TypeOK
      /\ \A n \in Alive : n \in Known /\ n \in Nat /\ n > 0
      /\ \A n \in freed : n \in Known
      /\ pc \in [Thread -> Places] /\ Loop \in Thread
  BY NodeParts, WorkingParts, AliveFacts
<1>2. /\ pc[Loop] = "sweep" /\ UNCHANGED <<registry, heap, list, starts>>
      /\ cur = Null \/ cur \in Alive
  BY SweepParts DEF Sweep, counts
<1>3. /\ Known' = Known /\ Alive' = Alive /\ Gone' = Gone /\ Present' = Present
      /\ UNCHANGED <<dev, session, freed, registered, hooked, entry, matching,
                     removal>>
      /\ \A n \in Known : Current(n)' <=> Current(n)
  BY <1>2 DEF heap, list, registry, Known, Alive, Gone, Present, Current
<1>4. pc'[Loop] \in {"run", "sweep"} /\ Open /\ Open'
  BY <1>1, <1>2 DEF Sweep, Goto, Open
<1>5. Dated' /\ Single' /\ Hooked'
  BY <1>1, <1>2, <1>3, <1>4, NodesKept
<1>6. Announcing'
  BY <1>2, <1>3, <1>4, AnnouncingKept
<1>7. dropped \subseteq dropped'
  BY DEF Sweep
<1>8. \A e \in Present' \ (dropped' \cup matching') :
        \E n \in Known' : Current(n)' /\ dev'[n] = e
  BY <1>1, <1>3, <1>4, <1>7 DEF Following
<1>9. ASSUME NEW n \in Alive', Current(n)', dev'[n] \in Gone' \ dropped'
      PROVE  \/ dev'[n] \in removal'
             \/ /\ pc'[Loop] \in {"sweep", "swept"}
                /\ entry'[dev'[n]] = "failed"
                /\ n <= Ahead'
  <2>1. n \in Alive /\ n \in Nat /\ n > 0
    BY <1>1, <1>3
  <2>2. dev[n] \notin removal => entry[dev[n]] = "failed" /\ n <= cur
    BY <1>1, <1>2, <1>3, <1>4, <1>7, <1>9, <2>1 DEF Following, Ahead
  <2>3. SUFFICES ASSUME dev[n] \notin removal
                 PROVE  /\ pc'[Loop] \in {"sweep", "swept"}
                        /\ entry'[dev'[n]] = "failed"
                        /\ n <= Ahead'
    BY <1>3
  <2>4. entry[dev[n]] = "failed" /\ n <= cur /\ cur # Null /\ cur \in Alive
    BY <1>2, <2>1, <2>2, <2>3 DEF Null
  <2>5. entry[dev[cur]] # "failed"
    BY <2>4 DEF Sweep
  <2>6. entry[dev[cur]] # "null"
    <3>1. SUFFICES ASSUME entry[dev[cur]] = "null"
                   PROVE  FALSE
      OBVIOUS
    <3>2. dropped' = dropped \cup Devices(Nodes(cur))
      BY <2>4, <3>1 DEF Sweep
    <3>3. n \in Nodes(cur)
      BY <1>1, <2>1, <2>4, NodesFrom
    <3>4. QED BY <1>3, <1>9, <3>2, <3>3 DEF Devices
  <2>7. /\ prev' = cur /\ cur' = next[cur] /\ UNCHANGED pc
    BY <2>4, <2>6 DEF Sweep
  <2>8. Ahead' = next[cur]
    BY <1>2, <2>7 DEF Ahead
  <2>9. n # cur
    BY <2>4, <2>5
  <2>10. n < cur
    BY <1>1, <2>1, <2>4, <2>9
  <2>11. n <= next[cur]
    BY <1>1, <2>1, <2>4, <2>10, ShapeFacts
  <2>12. QED BY <1>2, <1>3, <2>4, <2>7, <2>8, <2>11
<1>10. Following'
  BY <1>8, <1>9 DEF Following
<1>11. QED BY <1>5, <1>6, <1>10 DEF NodeInv

\* The node of a device that has gone is freed.
LEMMA NodesSwept ==
  ASSUME Working, Swept
  PROVE  NodeInv'
<1>1. /\ Following /\ Shape /\ TypeOK
      /\ \A n \in Alive : n \in Known /\ n \in Nat
      /\ \A n \in freed : n \in Known
      /\ pc \in [Thread -> Places] /\ Loop \in Thread
  BY NodeParts, WorkingParts
<1>2. /\ pc[Loop] = "sweep" /\ pc'[Loop] = "swept"
      /\ UNCHANGED <<registry, starts, cur, dropped>>
      /\ cur \in Alive /\ Unlinks(cur) /\ entry[dev[cur]] = "failed"
  BY <1>1, SweepParts DEF Swept, Goto, counts
<1>3. /\ Known' = Known /\ Alive' = Alive \ {cur} /\ freed' = freed \cup {cur}
      /\ next'[cur] = next[cur]
      /\ UNCHANGED <<dev, session, registered, hooked>>
  BY <1>1, <1>2, UnlinksParts
<1>4. /\ Gone' = Gone /\ Present' = Present
      /\ UNCHANGED <<entry, matching, removal>>
      /\ \A n \in Known : Current(n)' <=> Current(n)
  BY <1>2, <1>3 DEF registry, Gone, Present, Current
<1>5. Open /\ Open'
  BY <1>2 DEF Open
<1>6. dev[cur] \in Gone
  BY <1>1, <1>2, NodeParts DEF Gone
<1>7. Dated' /\ Single' /\ Hooked'
  BY <1>1, <1>2, <1>3, <1>4, <1>6, NodesKept
<1>8. Announcing'
  BY <1>3, <1>4, <1>5, <1>2, AnnouncingKept
<1>9. ASSUME NEW n \in Alive', Current(n)', dev'[n] \in Gone' \ dropped'
      PROVE  \/ dev'[n] \in removal'
             \/ /\ pc'[Loop] \in {"sweep", "swept"}
                /\ entry'[dev'[n]] = "failed"
                /\ n <= Ahead'
  <2>1. n \in Alive /\ n # cur /\ n \in Nat /\ cur \in Nat
    BY <1>1, <1>2, <1>3
  <2>2. \/ dev[n] \in removal
        \/ entry[dev[n]] = "failed" /\ n <= cur
    BY <1>1, <1>2, <1>3, <1>4, <1>5, <1>9, <2>1 DEF Following, Ahead
  <2>3. n <= cur => n <= next[cur]
    BY <1>1, <1>2, <2>1, ShapeFacts
  <2>4. Ahead' = next[cur]
    BY <1>2, <1>3 DEF Ahead
  <2>5. QED BY <1>2, <1>3, <1>4, <2>2, <2>3, <2>4
<1>10. \A e \in Present' \ (dropped' \cup matching') :
         \E n \in Known' : Current(n)' /\ dev'[n] = e
  BY <1>1, <1>2, <1>3, <1>4, <1>5 DEF Following
<1>11. Following'
  BY <1>9, <1>10 DEF Following
<1>12. QED BY <1>7, <1>8, <1>11 DEF NodeInv

\* The callback that reports it returns, and may end the branch with an error.
LEMMA NodesSweptReturn ==
  ASSUME Working, SweptReturn
  PROVE  NodeInv'
<1>1. /\ Following /\ Shape /\ TypeOK /\ Sweeping
      /\ \A n \in Alive : n \in Known
      /\ \A n \in freed : n \in Known
      /\ pc \in [Thread -> Places] /\ Loop \in Thread
  BY NodeParts, WorkingParts
<1>2. /\ pc[Loop] = "swept" /\ cur' = next[cur]
      /\ UNCHANGED <<registry, heap, list, starts>>
      /\ \/ Goto(Loop, "sweep") /\ UNCHANGED dropped
         \/ Goto(Loop, "run") /\ dropped' = dropped \cup Devices(Nodes(cur'))
  BY DEF SweptReturn, counts
<1>3. CASE Goto(Loop, "sweep") /\ UNCHANGED dropped
  <2>1. pc'[Loop] = "sweep" /\ Open /\ Open'
    BY <1>1, <1>2, <1>3 DEF Goto, Open
  <2>2. Ahead' = Ahead
    BY <1>2, <2>1 DEF Ahead
  <2>3. QED BY <1>2, <1>3, <2>1, <2>2, NodesStay DEF list
<1>4. CASE Goto(Loop, "run") /\ dropped' = dropped \cup Devices(Nodes(cur'))
  <2>1. pc'[Loop] = "run" /\ Open /\ Open'
    BY <1>1, <1>2, <1>4 DEF Goto, Open
  <2>2. /\ Known' = Known /\ Alive' = Alive /\ Gone' = Gone /\ Present' = Present
        /\ UNCHANGED <<dev, session, freed, registered, hooked, entry, matching,
                       removal>>
        /\ \A n \in Known : Current(n)' <=> Current(n)
    BY <1>2 DEF heap, list, registry, Known, Alive, Gone, Present, Current
  <2>3. Dated' /\ Single' /\ Hooked'
    BY <1>1, <1>2, <2>1, <2>2, NodesKept
  <2>4. Announcing'
    BY <1>2, <2>1, <2>2, AnnouncingKept
  <2>5. ASSUME NEW n \in Alive', Current(n)', dev'[n] \in Gone' \ dropped'
        PROVE  dev'[n] \in removal'
    <3>1. n \in Alive /\ dev[n] \in Gone \ dropped /\ Current(n)
      BY <1>1, <1>4, <2>2, <2>5
    <3>2. dev[n] \in removal \/ n <= Ahead
      BY <1>1, <2>1, <3>1 DEF Following
    <3>3. Ahead = next[cur] /\ next[cur] \in Alive \cup {Null}
      BY <1>1, <1>2 DEF Sweeping, Ahead
    <3>4. n <= next[cur] => n \in Nodes(next[cur])
      BY <1>1, <3>1, <3>3, NodesFrom
    <3>5. n \notin Nodes(next[cur])
      BY <1>2, <1>4, <2>2, <2>5 DEF Devices
    <3>6. QED BY <2>2, <3>2, <3>3, <3>4, <3>5
  <2>6. \A e \in Present' \ (dropped' \cup matching') :
          \E n \in Known' : Current(n)' /\ dev'[n] = e
    BY <1>1, <1>2, <1>4, <2>1, <2>2 DEF Following
  <2>7. Following'
    BY <2>5, <2>6 DEF Following
  <2>8. QED BY <2>3, <2>4, <2>7 DEF NodeInv
<1>5. QED BY <1>2, <1>3, <1>4

\* Inputs are called back for as long as a node of the device is registered.
LEMMA NodesRegister ==
  ASSUME Working, NEW t \in Thread, NEW n \in told,
         RegisterAdd(t, n) \/ RegisterDel(t, n)
  PROVE  NodeInv'
<1>1. /\ Dated /\ Single /\ Announcing /\ Following /\ Hooked
      /\ n \in Known
  BY NodeParts, WorkingParts DEF Walking
<1>2. UNCHANGED <<registry, heap, pc, cur, starts, dropped>>
  BY DEF RegisterAdd, RegisterDel
<1>3. /\ Known' = Known /\ Alive' = Alive /\ Gone' = Gone /\ Present' = Present
      /\ UNCHANGED <<dev, session, freed, entry, matching, removal, next>>
      /\ \A m \in Known : Current(m)' <=> Current(m)
      /\ Open' <=> Open
      /\ Ahead' = Ahead
  BY <1>2
  DEF heap, registry, Known, Alive, Gone, Present, Current, Open, Ahead
<1>4. Dated' /\ Single' /\ Following'
  <2>1. Dated'
    BY <1>1, <1>2, <1>3 DEF Dated
  <2>2. Single'
    BY <1>1, <1>3 DEF Single
  <2>3. Open' => \A d \in Present' \ (dropped' \cup matching') :
                   \E m \in Known' : Current(m)' /\ dev'[m] = d
    BY <1>1, <1>2, <1>3 DEF Following
  <2>4. ASSUME NEW m \in Alive', Open', Current(m)',
               dev'[m] \in Gone' \ dropped'
        PROVE  \/ dev'[m] \in removal'
               \/ /\ pc'[Loop] \in {"sweep", "swept"}
                  /\ entry'[dev'[m]] = "failed"
                  /\ m <= Ahead'
    <3>1. m \in Alive /\ m \in Known /\ Current(m) /\ Open
          /\ dev[m] \in Gone \ dropped
      BY <1>2, <1>3, <2>4, NodeParts
    <3>2. QED BY <1>1, <1>2, <1>3, <3>1 DEF Following
  <2>5. Following'
    BY <2>3, <2>4 DEF Following
  <2>6. QED BY <2>1, <2>2, <2>5
<1>5. ~Open => hooked' = {}
  BY <1>1 DEF RegisterAdd, RegisterDel, Hook, Announcing
<1>6. Announcing'
  BY <1>1, <1>3, <1>5 DEF Announcing
<1>7. Hooked'
  <2>1. CASE RegisterAdd(t, n)
    <3>1. /\ registered' = registered \cup {n}
          /\ hooked' \subseteq hooked \cup Hook(n, {dev[n]})
      BY <2>1 DEF RegisterAdd
    <3>2. \A d \in Hook(n, {dev[n]}) : d = dev[n] /\ Current(n)
      BY DEF Hook, Current
    <3>3. QED BY <1>1, <1>3, <3>1, <3>2 DEF Hooked
  <2>2. CASE RegisterDel(t, n)
    <3>1. /\ registered' = registered \ {n}
          /\ hooked' = hooked \ (Hook(n, {dev[n]}) \cap Devices(registered \cap {n}))
      BY <2>2 DEF RegisterDel
    <3>2. ASSUME NEW d \in hooked'
          PROVE  \E m \in Known' \cap registered' : Current(m)' /\ dev'[m] = d
      <4>1. PICK m \in Known \cap registered : Current(m) /\ dev[m] = d
        BY <1>1, <3>1, <3>2 DEF Hooked
      <4>2. m # n
        <5>1. SUFFICES ASSUME m = n PROVE FALSE
          OBVIOUS
        <5>2. Open
          BY <1>5, <3>2
        <5>3. Hook(n, {dev[n]}) = {d} /\ d \in Devices(registered \cap {n})
          BY <4>1, <5>1, <5>2 DEF Hook, Current, Devices
        <5>4. QED BY <3>1, <3>2, <5>3
      <4>3. QED BY <1>3, <3>1, <4>1, <4>2
    <3>3. QED BY <3>2 DEF Hooked
  <2>3. QED BY <2>1, <2>2
<1>8. QED BY <1>4, <1>6, <1>7 DEF NodeInv

-----------------------------------------------------------------------------
(* The invariant, and what follows from it                                 *)

LEMMA MacInit == Init => MacInv
<1> SUFFICES ASSUME Init PROVE MacInv
  OBVIOUS
<1>1. HandInv
  BY HandInit
<1>2. (CHOOSE d \in Dev : TRUE) \in Dev
  BY MacAssumption
<1>3. TypeOK /\ LoopWalksLive
  <2>1. RegistryTypeOK
    BY DEF Init, RegistryTypeOK
  <2>2. NodesTypeOK
    BY <1>2, MacAssumption DEF Init, NodesTypeOK, Thread, Id, Null
  <2>3. PcTypeOK
    BY MacAssumption DEF Init, PcTypeOK, Thread
  <2>4. OthersTypeOK /\ LoopWalksLive
    <3>1. {thread, running, request, observed} \subseteq BOOLEAN
      BY DEF Init
    <3>2. starts \in 0 .. MaxStarts /\ calls \in 0 .. MaxCalls
      BY MacAssumption DEF Init
    <3>3. stopping = {} /\ stray = {}
      BY DEF Init
    <3>4. QED BY <3>1, <3>2, <3>3 DEF OthersTypeOK, LoopWalksLive
  <2>5. QED BY <2>1, <2>2, <2>3, <2>4, TypeParts
<1>4. Known = {} /\ Alive = {} /\ pc[Loop] = "none"
  BY MacAssumption DEF Init, Known, Alive, Thread
<1>5. Shape
  <2>1. Chain(next, devices, <<>>, Node)
    BY DEF Init, Chain, Distinct, Place, Null
  <2>2. MaxNodes \in Nat
    BY MacAssumption
  <2>3. Chain(next, devices, <<>>, 1 .. MaxNodes)
    BY <2>1 DEF Node
  <2>4. From(devices) = <<>>
    BY <2>2, <2>3, LinkedIs DEF From
  <2>5. QED BY <1>4, <2>1, <2>4 DEF Shape, Elements
<1>6. Sweeping /\ Reporting /\ Walking /\ Pointing /\ FreedIsReported
  BY <1>4, MacAssumption
  DEF Init, Sweeping, Reporting, Walking, Pointing, FreedIsReported, Thread
<1>7. NodeInv
  BY <1>4 DEF Init, NodeInv, Dated, Single, Announcing, Following, Hooked, Open
<1>8. QED BY <1>1, <1>3, <1>5, <1>6, <1>7 DEF MacInv, ListInv

\* Types, and what the run loop's thread reads, in every step.
LEMMA TypeStep == Working /\ Next => TypeOK' /\ LoopWalksLive'
<1> SUFFICES ASSUME Working, Next PROVE TypeOK' /\ LoopWalksLive'
  OBVIOUS
<1> USE MacAssumption DEF Thread
<1>1. CASE System \/ RunLoop \/ LoopStop \/ Lifecycle
  BY <1>1, TypeSystem, TypeRunLoop, TypeLifecycle
<1>2. CASE Handlers \/ \E d \in Dev : Input(d)
  BY <1>2, TypeMatched, TypeHandlers DEF Handlers
<1>3. CASE Callbacks
  BY <1>3, TypeReturns, TypeCalls DEF Callbacks
<1>4. CASE Reenumerated(Owner) \/ \E t \in Thread : Calls(t)
  BY <1>4, TypeCalls
<1>5. QED BY <1>1, <1>2, <1>3, <1>4 DEF Next

\* The list and its nodes, in every step but the last one.
LEMMA ListStep == Working /\ Next /\ ~Clean => ListInv'
<1> SUFFICES ASSUME Working, Next, ~Clean PROVE ListInv'
  OBVIOUS
<1> USE MacAssumption DEF Thread
<1>1. CASE System \/ RunLoop \/ LoopStop \/ Lifecycle
  BY <1>1, ListQuiet DEF Lifecycle
<1>2. CASE Handlers \/ \E d \in Dev : Input(d)
  BY <1>2, ListQuiet, ListMatched, ListRemoved, ListRemovedUnknown, ListSweep,
     ListSwept DEF Handlers
<1>3. CASE Callbacks
  BY <1>3, ListQuiet, ListReported, ListCalls DEF Callbacks
<1>4. CASE Reenumerated(Owner) \/ \E t \in Thread : Calls(t)
  BY <1>4, ListCalls
<1>5. QED BY <1>1, <1>2, <1>3, <1>4 DEF Next

LEMMA NodesStep == Working /\ Next /\ ~Clean => NodeInv'
<1> SUFFICES ASSUME Working, Next, ~Clean PROVE NodeInv'
  OBVIOUS
<1> USE MacAssumption DEF Thread
<1>1. CASE System
  BY <1>1, NodesSystem DEF System
<1>2. CASE RunLoop \/ LoopStop
  BY <1>2, NodesQuiet, NodesOpen, NodesClose DEF RunLoop
<1>3. CASE Lifecycle
  BY <1>3, NodesQuiet, NodesStart DEF Lifecycle
<1>4. CASE Handlers \/ \E d \in Dev : Input(d)
  BY <1>4, NodesQuiet, NodesTaken, NodesMatched, NodesRemoved, NodesSweep,
     NodesSwept DEF Handlers
<1>5. CASE Callbacks
  BY <1>5, NodesQuiet, NodesSweptReturn DEF Callbacks
<1>6. CASE Reenumerated(Owner)
  BY <1>6, NodesQuiet
<1>7. ASSUME NEW t \in Thread, Calls(t)
      PROVE  NodeInv'
  BY <1>7, NodesQuiet, NodesRegister DEF Calls
<1>8. QED BY <1>1, <1>2, <1>3, <1>4, <1>5, <1>6, <1>7 DEF Next

LEMMA MacStep == MacInv /\ [Next]_vars => MacInv'
<1> SUFFICES ASSUME MacInv, [Next]_vars PROVE MacInv'
  OBVIOUS
<1>1. HandInv'
  BY HandStep DEF MacInv
<1>2. CASE Next
  <2>1. Working
    BY <1>2 DEF Working, Next
  <2>2. TypeOK' /\ LoopWalksLive'
    BY <1>2, <2>1, TypeStep
  <2>3. Clean => pc'[Owner] = "cleaned"
    BY <2>1, WorkingParts DEF Clean, Goto
  <2>4. pc'[Owner] # "cleaned" => ListInv' /\ NodeInv'
    BY <1>2, <2>1, <2>3, ListStep, NodesStep
  <2>5. QED BY <1>1, <2>2, <2>4 DEF MacInv
<1>3. CASE UNCHANGED vars
  <2>1. /\ UNCHANGED <<registry, heap, list, handshake, pc, cur, prev, walk,
                       told, stray, dropped, counts>>
    BY <1>3 DEF vars
  <2>2. TypeOK' /\ LoopWalksLive'
    BY <2>1
    DEF MacInv, TypeOK, LoopWalksLive, registry, heap, list, handshake, counts
  <2>3. ASSUME Working
        PROVE  ListInv' /\ NodeInv'
    <3>1. ListInv'
      BY <2>1, <2>3, ListStays DEF list
    <3>2. (Open' <=> Open) /\ Ahead' = Ahead
      BY <2>1 DEF Open, Ahead, heap
    <3>3. NodeInv'
      BY <2>1, <2>3, <3>2, NodesStay DEF list, counts
    <3>4. QED BY <3>1, <3>3
  <2>4. QED BY <1>1, <2>1, <2>2, <2>3 DEF MacInv, Working
<1>4. QED BY <1>2, <1>3

\* The list is that of the nodes alive, newest first, and no cursor of the run
\* loop's thread leaves it, until clean frees it (helpers.m:438 to 628).
THEOREM MacInvariant == Spec => []MacInv
<1>1. QED BY MacInit, MacStep, PTL DEF Spec

\* The state keeps to its types, and no walk of the code leaves the nodes there
\* are.
THEOREM TypeCorrect == Spec => []TypeOK
<1>1. MacInv => TypeOK BY DEF MacInv
<1>2. QED BY <1>1, MacInvariant, PTL

\* The run loop's thread never comes to a freed node by walking the list, in
\* the unplugging branch (helpers.m:534 to 563, 600 to 607), for an input or in
\* a re-enumeration from a callback, however many devices go at a time.
THEOREM WalksLive == Spec => []LoopWalksLive
<1>1. MacInv => LoopWalksLive BY DEF MacInv
<1>2. QED BY <1>1, MacInvariant, PTL

\* The one freed id the application may have is that of the device being
\* reported as unplugged (helpers.m:609).
THEOREM OneFreed == Spec => []FreedIsReported
<1>1. MacInv => FreedIsReported
  BY DEF MacInv, ListInv, FreedIsReported
<1>2. QED BY <1>1, MacInvariant, PTL

\* At rest the list has one node for each device that is there and none for
\* one that has gone (helpers.m:438 to 628), whatever order matches and
\* removals came in and however many sessions there were.
THEOREM Settles == Spec => []ListSettles
<1>1. ASSUME MacInv, AtRest
      PROVE  /\ \A n \in Nodes(devices) :
                  Current(n) => dev[n] \in Present \cup dropped
             /\ \A d \in Present \ dropped :
                  Cardinality({n \in Nodes(devices) :
                                 dev[n] = d /\ Current(n)}) = 1
  <2>1. /\ Working /\ pc[Loop] = "run" /\ matching = {} /\ removal = {}
    BY <1>1 DEF AtRest, Working
  <2>2. /\ TypeOK /\ Shape /\ Single /\ Following /\ Open
        /\ \A n \in Known : dev[n] \in Dev
        /\ Alive = Known \ freed
    BY <2>1, NodeParts, WorkingParts DEF Open
  <2>3. Nodes(devices) = Alive
    BY <2>2, ShapeFacts
  <2>4. \A n \in Alive : dev[n] \in Present \cup Gone
    BY <2>2 DEF Single, Present, Gone, TypeOK
  <2>5. \A n \in Alive : Current(n) => dev[n] \in Present \cup dropped
    BY <2>1, <2>2, <2>4 DEF Following
  <2>6. ASSUME NEW d \in Present \ dropped
        PROVE  Cardinality({n \in Alive : dev[n] = d /\ Current(n)}) = 1
    <3>1. PICK n \in Known : Current(n) /\ dev[n] = d
      BY <2>1, <2>2, <2>6 DEF Following
    <3>2. n \in Alive
      BY <2>2, <2>6, <3>1 DEF Single, Present, Gone
    <3>3. {m \in Alive : dev[m] = d /\ Current(m)} = {n}
      BY <2>2, <3>1, <3>2 DEF Single
    <3>4. QED BY <3>3, FS_Singleton
  <2>7. QED BY <2>3, <2>5, <2>6
<1>2. MacInv => ListSettles
  BY <1>1 DEF ListSettles
<1>3. QED BY <1>2, MacInvariant, PTL

\* Only an input leads the run loop's thread to the input callback.
LEMMA InputOnly ==
  ASSUME MacInv, Next, pc[Loop] = "run", pc'[Loop] = "inputs"
  PROVE  \E d \in Dev : Input(d)
<1>1. /\ pc \in [Thread -> Places] /\ Owner # Loop
      /\ Owner \in Thread /\ Loop \in Thread /\ Working
      /\ ~thread => pc[Loop] = "none"
  BY WorkingParts DEF Working, Next, HandInv, NoThread
<1>2. ~(System \/ RunLoop \/ LoopStop \/ Lifecycle)
  BY <1>1
  DEF System, Plug, Unplug, Expire, RunLoop, LoopOpen, LoopConfirm, LoopClose,
      LoopExit, LoopStop, Lifecycle, Start, StartReturn, Clean, StopReturn, Goto
<1>3. ~Callbacks
  BY <1>1
  DEF Callbacks, PluggedReturn, UnpluggedReturn, SweptReturn, InputReturn,
      Reenumerated, Goto
<1>4. ~Handlers
  <2>1. \A d \in Dev : ~Removed(d)
    BY <1>1, RemovedParts DEF Goto
  <2>2. QED
    BY <1>1, <2>1
    DEF Handlers, Drop, Matched, Allocate, RemovedNull, RemovedUnknown, Sweep,
        Swept, Goto
<1>5. ~Reenumerated(Owner) /\ \A t \in Thread : ~Calls(t)
  BY <1>1
  DEF Reenumerated, Calls, RegisterAdd, RegisterDel, Reenumerate, Stop
<1>6. QED BY <1>2, <1>3, <1>4, <1>5 DEF Next

\* An input is reported with the id of the node registered for it, the newest
\* one of its device, even if nodes of earlier sessions are left on the list
\* (macos.m:1047 to 1083).
THEOREM InputsKnown == Spec => InputKnown
<1>1. ASSUME MacInv, Next, pc[Loop] = "run", pc'[Loop] = "inputs"
      PROVE  \/ cur' \in registered /\ Current(cur')
             \/ cur' = Null /\ \E d \in Dev : entry[d] = "null"
  <2>1. Working
    BY <1>1 DEF Working, Next
  <2>2. PICK d \in Dev : Input(d)
    BY <1>1, InputOnly
  <2>3. d \in hooked \cap Present
    BY <2>1, <2>2, InputParts
  <2>4. /\ Single /\ Hooked /\ Alive = Known \ freed
        /\ \A n \in Alive : n \in Known /\ dev[n] \in Dev
    BY <2>1, NodeParts
  <2>5. PICK n \in Known \cap registered : Current(n) /\ dev[n] = d
    BY <2>3, <2>4 DEF Hooked
  <2>6. n \in Alive
    BY <2>3, <2>4, <2>5 DEF Single, Present, Gone
  <2>7. \/ /\ cur' \in Alive /\ dev[cur'] = d
           /\ \A m \in Alive : dev[m] = d => m <= cur'
        \/ /\ cur' = Null
           /\ \/ \A m \in Alive : dev[m] # d
              \/ \E m \in Alive : entry[dev[m]] = "null"
    BY <2>1, <2>2, InputParts
  <2>8. CASE /\ cur' \in Alive /\ dev[cur'] = d
             /\ \A m \in Alive : dev[m] = d => m <= cur'
    <3>1. cur' = n
      BY <2>1, <2>5, <2>6, <2>8, NewestCurrent
    <3>2. QED BY <2>5, <3>1
  <2>9. CASE cur' = Null /\ \E m \in Alive : entry[dev[m]] = "null"
    BY <2>4, <2>9
  <2>10. QED BY <2>5, <2>6, <2>7, <2>8, <2>9
<1>2. MacInv /\ [Next]_vars =>
        [pc[Loop] = "run" /\ pc'[Loop] = "inputs" =>
           \/ cur' \in registered /\ Current(cur')
           \/ cur' = Null /\ \E d \in Dev : entry[d] = "null"]_vars
  BY <1>1
<1>3. QED BY <1>2, MacInvariant, PTL DEF Spec, InputKnown
=============================================================================
