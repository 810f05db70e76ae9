-------------------------- MODULE WinDevicesProofs --------------------------
(***************************************************************************)
(* Proofs about WinDevices, for any devices, any calls and any bounds: who *)
(* owns the two mutexes, that the pointers of the new list make one list   *)
(* whose matched nodes are in front, and what the registered nodes and     *)
(* the nodes of the two lists know of each other.                          *)
(***************************************************************************)
EXTENDS WinDevices, PointerListsProofs, TLAPS

\* The places where each thread can be.
Placed ==
    /\ DOMAIN pc = Thread
    /\ DOMAIN call = Thread
    /\ DOMAIN adding = Thread
    /\ pc[DeviceThread] \in DevicePc
    /\ pc[InputThread] \in InputPc

\* Calls are made where the application's code runs, and only register_add has
\* a node to link.
CallsPlaced ==
    \A t \in Thread :
      /\ call[t] # NoCall => pc[t] \in Calling
      /\ adding[t] # Null => call[t].op = "register_add"

\* The device thread has mutex_enum while a callback reports an unplugging, the
\* input thread has mutex_reg while it polls; nobody else has either, unless a
\* request of a thread failed and left it locked.
Owned ==
    /\ pc[DeviceThread] = "unplugged" => mutex_enum = DeviceThread
    /\ pc[InputThread] \in {"poll", "inputs"} => mutex_reg = InputThread
    /\ IF "enum" \in kept THEN mutex_enum \in Thread
       ELSE pc[DeviceThread] # "unplugged" => mutex_enum = NoThread
    /\ IF "reg" \in kept THEN mutex_reg \in Thread
       ELSE pc[InputThread] \notin {"poll", "inputs"} => mutex_reg = NoThread

LockInv == Placed /\ CallsPlaced /\ Owned

LEMMA Threads ==
  /\ DeviceThread \in Thread
  /\ InputThread \in Thread
  /\ DeviceThread # InputThread
  /\ NoThread \notin Thread
BY WinAssumption DEF Thread

LEMMA LockInit == Init => LockInv
  BY Threads
  DEF Init, LockInv, Placed, CallsPlaced, Owned, NoCall, DevicePc, InputPc,
      Null

\* A step that leaves mutexes, places and calls alone.
LEMMA LockStill ==
  ASSUME LockInv, UNCHANGED <<mutexes, pc, call, adding>>
  PROVE  LockInv'
  BY DEF LockInv, Placed, CallsPlaced, Owned, mutexes

\* The device thread goes on, in no call, and not to or from the callback that
\* runs with mutex_enum locked.
LEMMA LockGoes ==
  ASSUME LockInv, UNCHANGED <<mutexes, call, adding>>,
         NEW l \in DevicePc \ {"unplugged"},
         Goto(DeviceThread, l), call[DeviceThread] = NoCall,
         pc[DeviceThread] # "unplugged"
  PROVE  LockInv'
  BY Threads
  DEF LockInv, Placed, CallsPlaced, Owned, mutexes, Goto

LEMMA LockDevice == LockInv /\ Device => LockInv'
<1> SUFFICES ASSUME LockInv, Device PROVE LockInv'
  OBVIOUS
<1>1. CASE \E present \in SUBSET Dev : Refresh(present)
  <2>1. /\ UNCHANGED <<mutexes, call, adding>>
        /\ Goto(DeviceThread, "match") /\ At(DeviceThread, "sleep")
    BY <1>1 DEF Refresh
  <2>2. QED BY <2>1, LockGoes DEF DevicePc, At
<1>2. CASE Match \/ SkipUnplugged \/ ListCompatible
  BY <1>2, LockStill DEF Match, SkipUnplugged, ListCompatible, heap
<1>3. CASE ReportUnplugged
  <2>1. /\ pc[DeviceThread] = "match" /\ call[DeviceThread] = NoCall
        /\ mutex_enum' = DeviceThread /\ Goto(DeviceThread, "unplugged")
        /\ UNCHANGED <<mutex_reg, kept, call, adding>>
    BY <1>3 DEF ReportUnplugged, Missing, At
  <2>2. QED
    BY <2>1, Threads
    DEF LockInv, Placed, CallsPlaced, Owned, Goto, DevicePc
<1>4. CASE UnplugReported
  <2>1. /\ pc[DeviceThread] = "unplugged" /\ call[DeviceThread] = NoCall
        /\ mutex_enum' = IF "enum" \in kept THEN mutex_enum ELSE NoThread
        /\ Goto(DeviceThread, "match")
        /\ UNCHANGED <<mutex_reg, kept, call, adding>>
    BY <1>4 DEF UnplugReported, At
  <2>2. QED
    BY <2>1, Threads
    DEF LockInv, Placed, CallsPlaced, Owned, Goto, DevicePc
<1>5. CASE Matched
  <2>1. /\ UNCHANGED <<mutexes, call, adding>>
        /\ At(DeviceThread, "match")
        /\ \/ Goto(DeviceThread, "relist")
           \/ Goto(DeviceThread, "list")
    BY <1>5 DEF Matched
  <2>2. QED BY <2>1, LockGoes DEF DevicePc, At
<1>6. CASE Relist
  <2>1. /\ UNCHANGED <<mutexes, call, adding>>
        /\ At(DeviceThread, "relist")
        /\ \/ Goto(DeviceThread, "list")
           \/ Goto(DeviceThread, "relisted")
    BY <1>6 DEF Relist
  <2>2. QED BY <2>1, LockGoes DEF DevicePc, At
<1>7. CASE Reported("relisted", "relist")
  <2>1. /\ UNCHANGED <<mutexes, call, adding>>
        /\ At(DeviceThread, "relisted") /\ Goto(DeviceThread, "relist")
    BY <1>7 DEF Reported
  <2>2. QED BY <2>1, LockGoes DEF DevicePc, At
<1>8. CASE Reported("listed", "list")
  <2>1. /\ UNCHANGED <<mutexes, call, adding>>
        /\ At(DeviceThread, "listed") /\ Goto(DeviceThread, "list")
    BY <1>8 DEF Reported
  <2>2. QED BY <2>1, LockGoes DEF DevicePc, At
<1>9. CASE List
  <2>1. /\ UNCHANGED <<mutexes, call, adding>>
        /\ At(DeviceThread, "list") /\ Goto(DeviceThread, "listed")
    BY <1>9 DEF List
  <2>2. QED BY <2>1, LockGoes DEF DevicePc, At
<1>10. CASE Listed
  <2>1. /\ UNCHANGED <<mutexes, call, adding>>
        /\ At(DeviceThread, "list") /\ Goto(DeviceThread, "swap")
    BY <1>10 DEF Listed
  <2>2. QED BY <2>1, LockGoes DEF DevicePc, At
<1>11. CASE Swap
  <2>1. /\ UNCHANGED <<mutexes, call, adding>>
        /\ At(DeviceThread, "swap") /\ Goto(DeviceThread, "sleep")
    BY <1>11 DEF Swap
  <2>2. QED BY <2>1, LockGoes DEF DevicePc, At
<1>12. QED
  BY <1>1, <1>2, <1>3, <1>4, <1>5, <1>6, <1>7, <1>8, <1>9, <1>10, <1>11
  DEF Device

LEMMA LockInput == LockInv /\ Input => LockInv'
<1> SUFFICES ASSUME LockInv, Input PROVE LockInv'
  OBVIOUS
<1> USE Threads DEF LockInv, Placed, CallsPlaced, Owned, Goto, InputPc,
                    mutexes, At, Calling
<1>1. CASE InputLock BY <1>1 DEF InputLock
<1>2. CASE InputPoll
  <2>1. /\ pc[InputThread] = "poll"
        /\ UNCHANGED <<mutexes, call, adding>>
        /\ UNCHANGED pc \/ Goto(InputThread, "inputs")
    BY <1>2 DEF InputPoll
  <2>2. QED BY <2>1
<1>3. CASE InputReported BY <1>3 DEF InputReported
<1>4. CASE InputUnlock BY <1>4 DEF InputUnlock
<1>5. QED BY <1>1, <1>2, <1>3, <1>4 DEF Input

\* A call begins, or ends with nothing left to link.
LEMMA LockCall ==
  ASSUME LockInv, NEW t \in Thread, Calls(t)
  PROVE  LockInv'
<1>1. CASE Reenumerate(t)
  BY <1>1, LockStill DEF Reenumerate
<1>2. ASSUME NEW op \in Op, NEW id \in told, Call(t, op, id)
      PROVE  LockInv'
  <2>1. /\ pc[t] \in Calling /\ call[t] = NoCall
        /\ call' = [call EXCEPT
                      ![t] = [op |-> op, id |-> id, nr |-> calls + 1]]
        /\ UNCHANGED <<mutexes, pc, adding>>
    BY <1>2 DEF Call
  <2>2. adding[t] = Null
    BY <2>1 DEF LockInv, CallsPlaced, NoCall
  <2>3. QED
    BY <2>1, <2>2 DEF LockInv, Placed, CallsPlaced, Owned, mutexes
<1>3. QED BY <1>1, <1>2 DEF Calls

\* A request that fails leaves its mutex to the thread that made it.
LEMMA LockFailed ==
  ASSUME LockInv, NEW t \in Thread, Query(t) \/ Effect(t)
  PROVE  Owned'
<1>1. UNCHANGED pc BY DEF Query, Effect, Return
<1>2. CASE UNCHANGED mutexes
  BY <1>1, <1>2 DEF LockInv, Owned, mutexes
<1>3. CASE Query(t) /\ ~ UNCHANGED mutexes
  <2>1. /\ Locked(mutex_enum, t) /\ mutex_enum' = t
        /\ kept' = kept \cup {"enum"} /\ UNCHANGED mutex_reg
    BY <1>3 DEF Query, mutexes
  <2>2. pc[DeviceThread] = "unplugged" => t = DeviceThread
    BY <2>1, Threads DEF LockInv, Owned, Locked
  <2>3. QED BY <1>1, <2>1, <2>2 DEF LockInv, Owned
<1>4. CASE Effect(t) /\ ~ UNCHANGED mutexes
  <2>1. /\ Locked(mutex_reg, t) /\ mutex_reg' = t
        /\ kept' = kept \cup {"reg"} /\ UNCHANGED mutex_enum
    BY <1>4 DEF Effect, mutexes
  <2>2. pc[InputThread] \in {"poll", "inputs"} => t = InputThread
    BY <2>1, Threads DEF LockInv, Owned, Locked
  <2>3. QED BY <1>1, <2>1, <2>2 DEF LockInv, Owned
<1>5. QED BY <1>2, <1>3, <1>4

LEMMA LockAnswer ==
  ASSUME LockInv, NEW t \in Thread, Answer(t)
  PROVE  LockInv'
<1>1. UNCHANGED pc
  BY DEF Answer, RegisterAdd, RegisterAddLink, RegisterDel, Query, Effect,
     Return
<1>2. CASE RegisterAdd(t)
  <2>1. /\ call[t].op = "register_add" /\ adding[t] = Null
        /\ UNCHANGED mutexes
        /\ \/ UNCHANGED call /\ adding' = [adding EXCEPT ![t] = call[t].nr]
           \/ call' = [call EXCEPT ![t] = NoCall] /\ UNCHANGED adding
    BY <1>2 DEF RegisterAdd, Return
  <2>2. QED
    BY <1>1, <2>1 DEF LockInv, Placed, CallsPlaced, Owned, mutexes
<1>3. CASE RegisterAddLink(t)
  BY <1>1, <1>3
  DEF RegisterAddLink, Return, LockInv, Placed, CallsPlaced, Owned, mutexes
<1>4. CASE RegisterDel(t) \/ Query(t) \/ Effect(t)
  <2>1. /\ call[t].op # "register_add"
        /\ call' = [call EXCEPT ![t] = NoCall]
        /\ UNCHANGED adding
    BY <1>4 DEF RegisterDel, Query, Effect, Return
  <2>2. Placed' /\ CallsPlaced'
    BY <1>1, <2>1 DEF LockInv, Placed, CallsPlaced
  <2>3. Owned'
    <3>1. CASE RegisterDel(t)
      BY <1>1, <3>1 DEF RegisterDel, LockInv, Owned, mutexes
    <3>2. CASE Query(t) \/ Effect(t) BY <3>2, LockFailed
    <3>3. QED BY <1>4, <3>1, <3>2
  <2>4. QED BY <2>2, <2>3 DEF LockInv
<1>5. QED BY <1>2, <1>3, <1>4 DEF Answer

LEMMA LockStep == LockInv /\ [Next]_vars => LockInv'
<1> SUFFICES ASSUME LockInv, [Next]_vars PROVE LockInv'
  OBVIOUS
<1>1. CASE UNCHANGED vars BY <1>1, LockStill DEF vars
<1>2. CASE Next
  BY <1>2, LockDevice, LockInput, LockCall, LockAnswer DEF Next
<1>3. QED BY <1>1, <1>2

\* For any devices and calls: who has the mutexes, with the requests that fail
\* and do not give them back (win.c:986, 1002, 1696, 1710), and where calls are
\* made.
THEOREM LockInvariant == Spec => []LockInv
<1>1. QED BY LockInit, LockStep, PTL DEF Spec

\* For any devices and calls, while no request that failed has left a mutex
\* locked, the two loops block each other only when the device callback reports
\* an unplugging, and it and the inputs callback are both in a call
\* (win_helpers.c:363, win.c:954).
THEOREM LoopsDoNotCross == Spec => []OnlyCallsCross
<1>1. LockInv => OnlyCallsCross
  <2> SUFFICES ASSUME LockInv, Blocked(DeviceThread), Blocked(InputThread),
                      kept = {}
               PROVE  /\ pc[DeviceThread] = "unplugged"
                      /\ call[DeviceThread] # NoCall
                      /\ pc[InputThread] = "inputs"
                      /\ call[InputThread] # NoCall
    BY DEF OnlyCallsCross
  <2>1. /\ mutex_enum \in {DeviceThread, NoThread}
        /\ mutex_reg \in {InputThread, NoThread}
        /\ mutex_enum = DeviceThread <=> pc[DeviceThread] = "unplugged"
        /\ mutex_reg = InputThread <=> pc[InputThread] \in {"poll", "inputs"}
    BY Threads DEF LockInv, Owned
  <2>2. \A t \in Thread : Wants(t) \subseteq {mutex_enum, mutex_reg}
    BY DEF Wants
  <2>3. mutex_enum = DeviceThread /\ mutex_enum \in Wants(InputThread)
    BY <2>1, <2>2, Threads DEF Blocked, Locked
  <2>4. pc[DeviceThread] = "unplugged" BY <2>1, <2>3
  <2>5. mutex_reg = InputThread /\ mutex_reg \in Wants(DeviceThread)
    BY <2>1, <2>2, Threads DEF Blocked, Locked
  <2>6. call[DeviceThread] # NoCall
    <3> SUFFICES ASSUME call[DeviceThread] = NoCall PROVE FALSE
      OBVIOUS
    <3>1. Wants(DeviceThread) = {}
      BY <2>4, Threads DEF Wants, At, NoCall
    <3>2. QED BY <2>5, <3>1
  <2>7. call[InputThread] # NoCall
    <3> SUFFICES ASSUME call[InputThread] = NoCall PROVE FALSE
      OBVIOUS
    <3>1. Wants(InputThread) \subseteq {mutex_reg}
      BY Threads DEF Wants, At, NoCall
    <3>2. QED BY <2>3, <2>5, <3>1, Threads
  <2>8. pc[InputThread] = "inputs"
    BY <2>7, Threads DEF LockInv, Placed, CallsPlaced, Calling, InputPc
  <2>9. QED BY <2>4, <2>6, <2>7, <2>8
<1>2. QED BY <1>1, LockInvariant, PTL

\* For any devices and calls, nobody but the inputs callback changes the
\* registered nodes while the input loop works through them
\* (win_helpers.c:1195).
THEOREM InputIsAlone == Spec => InputWalksAlone
<1> DEFINE Alone ==
      mutex_reg = InputThread /\ registry' # registry =>
         call[InputThread] # NoCall /\ call'[InputThread] = NoCall
<1>1. LockInv /\ [Next]_vars => [Alone]_vars
  <2> SUFFICES ASSUME LockInv, Next, mutex_reg = InputThread,
                      registry' # registry
               PROVE  call[InputThread] # NoCall /\ call'[InputThread] = NoCall
    OBVIOUS
  <2>1. PICK t \in Thread : RegisterAddLink(t) \/ RegisterDel(t)
    BY DEF Next, Device, Refresh, Match, ReportUnplugged, Missing,
       SkipUnplugged, UnplugReported, Matched, Relist, List, ListCompatible,
       Reported, Listed, Swap, Input, InputLock, InputPoll, InputReported,
       InputUnlock, Calls, Call, Reenumerate, Answer, RegisterAdd, Query,
       Effect, lists
  <2>2. t = InputThread
    BY <2>1, Threads DEF RegisterAddLink, RegisterDel, Locked
  <2>3. call[t].op \in {"register_add", "register_del"}
    BY <2>1 DEF RegisterAddLink, RegisterDel, LockInv, CallsPlaced
  <2>4. call' = [call EXCEPT ![t] = NoCall]
    BY <2>1 DEF RegisterAddLink, RegisterDel, Return
  <2>5. QED BY <2>2, <2>3, <2>4 DEF LockInv, Placed, NoCall
<1>2. QED BY <1>1, LockInvariant, PTL DEF InputWalksAlone, Spec
-----------------------------------------------------------------------------
(* The lists: what holds between the steps of a refresh.                   *)

\* The new list, and how many of its nodes were matched and are in front.
NewList == Walk(new)
Seen == Len(NewList) - Len(Walk(part))

\* The new list is a chain of the nodes allocated last, the matched ones first;
\* part and prev are the nodes on either side of where it is split.
Shape ==
    /\ Chain(next, new, NewList, Node)
    /\ Seen \in 0 .. Len(NewList)
    /\ part = Place(NewList, Seen + 1)
    /\ prev = Place(NewList, IF Seen = 0 THEN 1 ELSE Seen)
    /\ Len(NewList) <= allocated
    /\ Elements(NewList) = allocated + 1 - Len(NewList) .. allocated

\* The nodes of the reference list and those that were freed are older.
Older ==
    /\ Elements(ref) \cup freed \subseteq 1 .. allocated - Len(NewList)
    /\ Elements(ref) \cap freed = {}

Comparing == {"match", "unplugged"}

Phases ==
    /\ refp \in 1 .. Len(ref) + 1
    /\ pc[DeviceThread] = "sleep" =>
         new = Null /\ part = Null /\ refp = 1 /\ \A n \in Node : next[n] = Null
    /\ pc[DeviceThread] = "unplugged" => refp <= Len(ref) /\ cur = ref[refp]
    /\ pc[DeviceThread] \notin {"sleep"} \cup Comparing => refp = Len(ref) + 1

\* The list is split by what the reference nodes compared so far are for.
Split ==
    /\ \A i, j \in 1 .. Len(NewList) :
         node[NewList[i]].dev = node[NewList[j]].dev => i = j
    /\ \A i \in 1 .. Seen :
         \E k \in 1 .. refp - 1 : node[ref[k]].dev = node[NewList[i]].dev
    /\ \A i \in Seen + 1 .. Len(NewList), k \in 1 .. refp - 1 :
         node[ref[k]].dev # node[NewList[i]].dev

\* Ids that the application was told, or that something it may be told of
\* holds.
Known == told \cup {node[n].id : n \in Node} \cup {entry[r] : r \in Reg}
              \cup {call[t].id : t \in Thread}

\* The first j nodes were matched or listed; of the others nobody knows.
\* A device reported has a reference node still to be compared, or one of those
\* j nodes.
Progress(j) ==
    /\ pc[DeviceThread] \in Comparing \cup {"sleep", "relist", "relisted"} =>
         j = Seen
    /\ pc[DeviceThread] = "relist" =>
         \E i \in 1 .. Seen + 1 : cur = Place(NewList, i)
    /\ pc[DeviceThread] = "relisted" => \E i \in 1 .. Seen : cur = NewList[i]
    /\ pc[DeviceThread] = "list" => cur = Place(NewList, j + 1)
    /\ pc[DeviceThread] = "listed" => j > Seen /\ cur = NewList[j]
    /\ pc[DeviceThread] = "swap" => j = Len(NewList)
    /\ \A i \in j + 1 .. Len(NewList) :
         NewList[i] \notin Known /\ node[NewList[i]].reg = Null
    /\ \A d \in reported \ skipped :
         \/ \E k \in refp .. Len(ref) : node[ref[k]].dev = d
         \/ \E i \in 1 .. j : node[NewList[i]].dev = d

Progressing == \E j \in Seen .. Len(NewList) : Progress(j)

\* While a device is reported as unplugged it is out of what was reported.
Unplugging ==
    pc[DeviceThread] = "unplugged" =>
      /\ node[ref[refp]].reg \in lost \cup {Null}
      /\ node[ref[refp]].dev \notin reported \ skipped
      /\ \A i \in Seen + 1 .. Len(NewList) :
           node[NewList[i]].dev # node[ref[refp]].dev

ListInv == Shape /\ Older /\ Phases /\ Split /\ Progressing /\ Unplugging

Knowing == Known \subseteq 0 .. allocated

-----------------------------------------------------------------------------
(* Registered nodes: what they and the nodes of the lists know of each     *)
(* other.                                                                  *)

\* Registered nodes that have been made and not freed.
Active == registry \cup ({adding[t] : t \in Thread} \ {Null})

\* The number of a call is new, and used up when the call has made its node.
Numbers ==
    /\ \A t \in Thread :
         /\ call[t] # NoCall => call[t].nr \in 1 .. calls
         /\ adding[t] # Null =>
              adding[t] = call[t].nr /\ adding[t] \notin registry \cup unregistered
         /\ call[t] # NoCall /\ adding[t] = Null =>
              /\ call[t].nr \notin registry \cup unregistered
              /\ \A n \in Node : node[n].reg # call[t].nr
    /\ \A t, u \in Thread :
         call[t] # NoCall /\ call[u] # NoCall /\ call[t].nr = call[u].nr => t = u
    /\ registry \cup unregistered \subseteq 1 .. calls
    /\ \A n \in Node : node[n].reg <= calls

Flagged == \A n \in Node : node[n].registered = "yes" <=> node[n].reg # Null

\* A node that holds a registered node is the one it points to, or took it over
\* from that one in this refresh.
Holders ==
    /\ \A k \in 1 .. Len(ref) :
         node[ref[k]].reg # Null => entry[node[ref[k]].reg] = ref[k]
    /\ \A i \in 1 .. Len(NewList) :
         node[NewList[i]].reg # Null =>
           \/ entry[node[NewList[i]].reg] = NewList[i]
           \/ i <= Seen /\ \E k \in 1 .. refp - 1 :
                /\ entry[node[NewList[i]].reg] = ref[k]
                /\ node[ref[k]].dev = node[NewList[i]].dev

\* The node that an active one points to holds it, if it is on a list, and it
\* is there unless its device was found missing; when that node was compared, a
\* new one has taken it over.
Held ==
    /\ \A r \in Active :
         entry[r] \in Elements(ref) \cup Elements(NewList) => node[entry[r]].reg = r
    /\ \A r \in Active \ lost :
         /\ entry[r] \in Elements(ref) \cup Elements(NewList)
         /\ \A k \in 1 .. refp - 1 :
              entry[r] = ref[k] => \E i \in 1 .. Seen : node[NewList[i]].reg = r

EntryOld == \A r \in Reg : entry[r] <= allocated

RegInv == Numbers /\ Flagged /\ Holders /\ Held /\ EntryOld /\ RegLive
-----------------------------------------------------------------------------
(* The new list as a sequence.                                             *)

LEMMA WalkIs ==
  ASSUME NEW nx, NEW hd, NEW s, Chain(nx, hd, s, Node),
         NEW c \in 0 .. Len(s), NEW pt, pt = Place(s, c + 1)
  PROVE  /\ Linked(nx, hd, MaxNodes) = s
         /\ Linked(nx, pt, MaxNodes) = Rest(s, c + 1)
         /\ Len(Rest(s, c + 1)) = Len(s) - c
         /\ \A q \in 1 .. Len(s) - c : Rest(s, c + 1)[q] = s[q + c]
         /\ s \in Seq(Node) /\ Len(s) \in Nat
<1>1. MaxNodes \in Nat BY WinAssumption
<1>2. s \in Seq(Node) /\ Len(s) \in Nat BY DEF Chain
<1>3. c + 1 \in 1 .. Len(s) + 1 BY <1>2
<1>4. Chain(nx, pt, Rest(s, c + 1), Node) BY <1>3, ChainRest
<1>5. Linked(nx, hd, MaxNodes) = s BY <1>1, LinkedIs DEF Node
<1>6. Linked(nx, pt, MaxNodes) = Rest(s, c + 1)
  BY <1>1, <1>4, LinkedIs DEF Node
<1>7. /\ Len(Rest(s, c + 1)) = Len(s) - c
      /\ \A q \in 1 .. Len(s) - c : Rest(s, c + 1)[q] = s[q + c]
  BY <1>2 DEF Rest
<1>8. QED BY <1>2, <1>5, <1>6, <1>7

\* The parts of the new list, when it has its shape.
LEMMA ListParts ==
  ASSUME Shape
  PROVE  /\ NewList \in Seq(Node) /\ Len(NewList) \in Nat /\ Seen \in Nat
         /\ Distinct(NewList)
         /\ Walk(part) = Rest(NewList, Seen + 1)
         /\ Len(Walk(part)) = Len(NewList) - Seen
         /\ \A q \in 1 .. Len(NewList) - Seen :
              Walk(part)[q] = NewList[q + Seen]
<1>1. /\ Chain(next, new, NewList, Node) /\ Seen \in 0 .. Len(NewList)
      /\ part = Place(NewList, Seen + 1)
  BY DEF Shape
<1>2. /\ Linked(next, part, MaxNodes) = Rest(NewList, Seen + 1)
      /\ Len(Rest(NewList, Seen + 1)) = Len(NewList) - Seen
      /\ \A q \in 1 .. Len(NewList) - Seen :
           Rest(NewList, Seen + 1)[q] = NewList[q + Seen]
      /\ NewList \in Seq(Node) /\ Len(NewList) \in Nat
  BY <1>1, WalkIs
<1>3. Distinct(NewList) BY <1>1 DEF Chain
<1>4. QED BY <1>1, <1>2, <1>3 DEF Walk

LEMMA FrontIs ==
  ASSUME Shape
  PROVE  /\ Front = {NewList[i] : i \in 1 .. Seen}
         /\ Nodes(Walk(part)) = {NewList[i] : i \in Seen + 1 .. Len(NewList)}
         /\ Nodes(NewList) = Elements(NewList)
<1>1. Nodes(NewList) = Elements(NewList)
  <2>1. NewList \in Seq(Node) BY ListParts
  <2>2. DOMAIN NewList = 1 .. Len(NewList) BY <2>1
  <2>3. QED BY <2>2, Zenon DEF Nodes, Elements
<1>2. Nodes(Walk(part)) = {NewList[i] : i \in Seen + 1 .. Len(NewList)}
  <2>1. Nodes(Walk(part)) = {NewList[q + Seen] : q \in 1 .. Len(NewList) - Seen}
    <3>1. DOMAIN Walk(part) = 1 .. Len(NewList) - Seen
      BY ListParts DEF Rest, Shape
    <3>2. QED BY <3>1, ListParts DEF Nodes
  <2>2. \A i \in Seen + 1 .. Len(NewList) :
          i - Seen \in 1 .. Len(NewList) - Seen /\ (i - Seen) + Seen = i
    BY ListParts DEF Shape
  <2>3. \A q \in 1 .. Len(NewList) - Seen :
          q + Seen \in Seen + 1 .. Len(NewList)
    BY ListParts DEF Shape
  <2>4. QED BY <2>1, <2>2, <2>3
<1>3. \A i \in 1 .. Len(NewList) :
        NewList[i] \in Nodes(Walk(part)) <=> i > Seen
  BY <1>2, ListParts DEF Distinct, Shape
<1>4. Front = {n \in Elements(NewList) : n \notin Nodes(Walk(part))}
  BY <1>1 DEF Front, NewList
<1>5. QED BY <1>1, <1>2, <1>3, <1>4, ListParts DEF Elements, Shape

\* Steps that leave the lists as they are.
LEMMA ListsKept ==
  ASSUME Shape, Older,
         UNCHANGED <<allocated, next, new, part, prev, ref, freed>>
  PROVE  NewList' = NewList /\ Seen' = Seen /\ Shape' /\ Older'
<1>1. NewList' = NewList /\ Seen' = Seen BY DEF NewList, Seen, Walk
<1>2. QED BY <1>1 DEF Shape, Older

\* Where the callbacks are on the new list.
LEMMA CursorIsNode ==
  ASSUME ListInv
  PROVE  /\ pc[DeviceThread] \in {"relisted", "listed"} => cur \in Node
         /\ pc[DeviceThread] = "relist" /\ cur # part => cur \in Node
         /\ pc[DeviceThread] = "list" /\ cur # Null => cur \in Node
<1> USE ListParts
<1>1. Shape BY DEF ListInv
<1>2. PICK j \in Seen .. Len(NewList) : Progress(j)
  BY DEF ListInv, Progressing
<1>3. j \in Nat /\ Seen <= j /\ j <= Len(NewList) BY <1>1, <1>2
<1>4. \A i \in 1 .. Len(NewList) : NewList[i] \in Node BY <1>1
<1>5. CASE pc[DeviceThread] = "relisted"
  <2>1. PICK i \in 1 .. Seen : cur = NewList[i] BY <1>2, <1>5 DEF Progress
  <2>2. i \in 1 .. Len(NewList) BY <1>1, <1>3, <2>1
  <2>3. QED BY <1>4, <1>5, <2>1, <2>2
<1>6. CASE pc[DeviceThread] = "listed"
  <2>1. j > Seen /\ cur = NewList[j] BY <1>2, <1>6 DEF Progress
  <2>2. QED BY <1>1, <1>3, <1>4, <1>6, <2>1
<1>7. CASE pc[DeviceThread] = "relist" /\ cur # part
  <2>1. PICK i \in 1 .. Seen + 1 : cur = Place(NewList, i)
    BY <1>2, <1>7 DEF Progress
  <2>2. i # Seen + 1 BY <1>1, <1>7, <2>1 DEF Shape
  <2>3. i \in 1 .. Len(NewList) BY <1>1, <1>3, <2>1, <2>2
  <2>4. QED BY <1>4, <1>7, <2>1, <2>3 DEF Place
<1>8. CASE pc[DeviceThread] = "list" /\ cur # Null
  <2>1. cur = Place(NewList, j + 1) BY <1>2, <1>8 DEF Progress
  <2>2. j + 1 \in 1 .. Len(NewList) BY <1>1, <1>3, <1>8, <2>1 DEF Place, Null
  <2>3. QED BY <1>4, <1>8, <2>1, <2>2 DEF Place
<1>9. QED BY <1>5, <1>6, <1>7, <1>8

-----------------------------------------------------------------------------
(* Types.                                                                  *)

\* What the search finds: the node at place k of the new list.
LEMMA MatchFacts ==
  ASSUME Shape, NEW n \in Node, Matching(n) # {}
  PROVE  /\ FoundAt(n) \in 1 .. Len(NewList) - Seen
         /\ Found(n) = NewList[Seen + FoundAt(n)]
         /\ node[Found(n)].dev = node[n].dev
         /\ Seen + FoundAt(n) \in Seen + 1 .. Len(NewList)
         /\ Found(n) \in Node
         /\ Found(n) = part <=> FoundAt(n) = 1
         /\ Found(n) = new <=> Seen + FoundAt(n) = 1
         /\ Seen + FoundAt(n) # 1 => Before(n) = NewList[Seen + FoundAt(n) - 1]
         /\ Before(n) \in Node
<1> USE ListParts
<1>1. /\ Candidates = Rest(NewList, Seen + 1)
      /\ DOMAIN Candidates = 1 .. Len(NewList) - Seen
      /\ \A q \in 1 .. Len(NewList) - Seen : Candidates[q] = NewList[q + Seen]
      /\ Seen <= Len(NewList)
  BY DEF Candidates, Rest, Shape
<1>2. Matching(n) \subseteq 1 .. Len(NewList) - Seen /\ Matching(n) \subseteq Nat
  BY <1>1 DEF Matching
<1>3. \E k \in Matching(n) : \A l \in Matching(n) : k <= l
  BY <1>2, Smallest
<1>4. FoundAt(n) \in Matching(n)
  BY <1>3 DEF FoundAt
<1> DEFINE f == FoundAt(n)
           k == Seen + f
<1>5. /\ f \in 1 .. Len(NewList) - Seen /\ Candidates[f] = NewList[k]
      /\ k \in Seen + 1 .. Len(NewList) /\ k \in 1 .. Len(NewList)
      /\ node[Candidates[f]].dev = node[n].dev
  BY <1>1, <1>2, <1>4 DEF Matching
<1> HIDE DEF f, k
<1>6. Found(n) = NewList[k] BY <1>5 DEF Found, f
<1>7. \A i, j \in 1 .. Len(NewList) : NewList[i] = NewList[j] <=> i = j
  BY DEF Distinct
<1>8. Found(n) = part <=> f = 1
  <2>1. Seen + 1 \in 1 .. Len(NewList) BY <1>1, <1>5
  <2>2. part = NewList[Seen + 1] BY <2>1 DEF Shape, Place
  <2>3. NewList[k] = NewList[Seen + 1] <=> k = Seen + 1 BY <1>5, <1>7, <2>1
  <2>4. k = Seen + 1 <=> f = 1 BY <1>5 DEF k
  <2>5. QED BY <1>6, <2>2, <2>3, <2>4
<1>9. Found(n) = new <=> k = 1
  <2>1. 1 \in 1 .. Len(NewList) BY <1>1, <1>5
  <2>2. new = NewList[1] BY <2>1 DEF Shape, Chain, Place
  <2>3. QED BY <1>5, <1>6, <1>7, <2>1, <2>2
<1>10. k # 1 => Before(n) = NewList[k - 1]
  <2>1. CASE f = 1 /\ k # 1
    <3>1. Seen # 0 /\ k - 1 = Seen /\ Seen \in 1 .. Len(NewList)
      BY <1>1, <1>5, <2>1 DEF k
    <3>2. prev = NewList[Seen] BY <3>1 DEF Shape, Place
    <3>3. Before(n) = prev BY <2>1 DEF Before, f
    <3>4. QED BY <3>1, <3>2, <3>3
  <2>2. CASE f # 1
    <3>1. Before(n) = Candidates[f - 1] BY <2>2 DEF Before, f
    <3>2. f - 1 \in 1 .. Len(NewList) - Seen /\ f - 1 + Seen = k - 1
      <4>1. /\ f \in Nat /\ Seen \in Nat /\ k = Seen + f
            /\ Len(NewList) \in Nat /\ f <= Len(NewList) - Seen /\ f >= 1
        BY <1>1, <1>5 DEF k
      <4> HIDE DEF NewList
      <4>2. QED BY <2>2, <4>1
    <3>3. Candidates[f - 1] = NewList[f - 1 + Seen] BY <1>1, <3>2
    <3>4. QED BY <3>1, <3>2, <3>3
  <2>3. QED BY <2>1, <2>2
<1>11. Before(n) \in Node
  <2>1. CASE k = 1
    <3>1. f = 1 /\ Seen = 0 BY <1>5, <2>1 DEF k
    <3>2. Before(n) = prev BY <3>1 DEF Before, f
    <3>3. prev = NewList[1] BY <1>5, <2>1, <3>1 DEF Shape, Place
    <3>4. QED BY <1>5, <2>1, <3>2, <3>3
  <2>2. CASE k # 1
    <3>1. k - 1 \in 1 .. Len(NewList) BY <1>5, <2>2
    <3>2. QED BY <1>10, <2>2, <3>1
  <2>3. QED BY <2>1, <2>2
<1>12. QED BY <1>5, <1>6, <1>8, <1>9, <1>10, <1>11 DEF f, k

NodeType == [dev : Dev, reg : Reg \cup {Null}, id : Id, plugged : Flag,
             registered : Flag, compatible : Flag]

\* Only m is written to, and its device stays.
Writes(m) ==
    /\ node' \in [Node -> NodeType]
    /\ \A n \in Node \ {m} : node'[n] = node[n]
    /\ node'[m].dev = node[m].dev

LEMMA TakeOverWrites ==
  ASSUME node \in [Node -> NodeType], NEW n \in Node, NEW m \in Node,
         TakeOver(n, m)
  PROVE  /\ Writes(m)
         /\ node'[m].reg = IF node[n].reg # Null THEN node[n].reg
                           ELSE node[m].reg
         /\ node'[m].id = node[n].id
         /\ node'[m].registered = node[n].registered
<1> DEFINE reg == IF node[n].reg # Null THEN node[n].reg ELSE node[m].reg
           rec == [node[m] EXCEPT !.reg = reg, !.id = node[n].id,
                                  !.plugged = node[n].plugged,
                                  !.registered = node[n].registered]
<1>1. node[m] \in NodeType /\ node[n] \in NodeType OBVIOUS
<1>2. reg \in Reg \cup {Null} BY <1>1 DEF NodeType
<1>3. node' = [node EXCEPT ![m] = rec] BY DEF TakeOver
<1> HIDE DEF reg
<1>4. /\ rec \in NodeType /\ rec.dev = node[m].dev /\ rec.reg = reg
      /\ rec.id = node[n].id /\ rec.registered = node[n].registered
  BY <1>1, <1>2 DEF NodeType
<1> HIDE DEF rec
<1>5. QED BY <1>3, <1>4 DEF Writes, reg

LEMMA UnplugWrites ==
  ASSUME node \in [Node -> NodeType], NEW m \in Node,
         node' = [node EXCEPT ![m].plugged = "no"]
  PROVE  /\ Writes(m)
         /\ node'[m].reg = node[m].reg
         /\ node'[m].id = node[m].id
         /\ node'[m].registered = node[m].registered
<1> DEFINE rec == [node[m] EXCEPT !.plugged = "no"]
<1>1. node[m] \in NodeType OBVIOUS
<1>2. node' = [node EXCEPT ![m] = rec] OBVIOUS
<1>3. /\ rec \in NodeType /\ rec.dev = node[m].dev /\ rec.reg = node[m].reg
      /\ rec.id = node[m].id /\ rec.registered = node[m].registered
  BY <1>1 DEF NodeType, Flag
<1> HIDE DEF rec
<1>4. QED BY <1>2, <1>3 DEF Writes

LEMMA ListWrites ==
  ASSUME node \in [Node -> NodeType], NEW m \in Node,
         node' = [node EXCEPT ![m].id = m, ![m].plugged = "yes",
                              ![m].registered = "no",
                              ![m].compatible = "no"]
  PROVE  /\ Writes(m)
         /\ node'[m].reg = node[m].reg
         /\ node'[m].id = m
         /\ node'[m].registered = "no"
<1> DEFINE rec == [node[m] EXCEPT !.id = m, !.plugged = "yes",
                                  !.registered = "no", !.compatible = "no"]
<1>1. node[m] \in NodeType OBVIOUS
<1>2. node' = [node EXCEPT ![m] = rec] OBVIOUS
<1>3. /\ rec \in NodeType /\ rec.dev = node[m].dev /\ rec.reg = node[m].reg
      /\ rec.id = m /\ rec.registered = "no"
  BY <1>1 DEF NodeType, Id, Flag
<1> HIDE DEF rec
<1>4. node'[m] = rec BY <1>2
<1>5. QED BY <1>2, <1>3, <1>4 DEF Writes

LEMMA CompatibleWrites ==
  ASSUME node \in [Node -> NodeType], NEW m \in Node,
         node' = [node EXCEPT ![m].compatible = "yes"]
  PROVE  /\ Writes(m)
         /\ node'[m].reg = node[m].reg
         /\ node'[m].id = node[m].id
         /\ node'[m].registered = node[m].registered
<1> DEFINE rec == [node[m] EXCEPT !.compatible = "yes"]
<1>1. node[m] \in NodeType OBVIOUS
<1>2. node' = [node EXCEPT ![m] = rec] OBVIOUS
<1>3. /\ rec \in NodeType /\ rec.dev = node[m].dev /\ rec.reg = node[m].reg
      /\ rec.id = node[m].id /\ rec.registered = node[m].registered
  BY <1>1 DEF NodeType, Flag
<1> HIDE DEF rec
<1>4. QED BY <1>2, <1>3 DEF Writes

LEMMA RegisterWrites ==
  ASSUME node \in [Node -> NodeType], NEW m \in Node,
         NEW r \in Reg \cup {Null}, NEW b \in Flag,
         node' = [node EXCEPT ![m].reg = r, ![m].registered = b]
  PROVE  /\ Writes(m)
         /\ node'[m].reg = r
         /\ node'[m].id = node[m].id
         /\ node'[m].registered = b
<1> DEFINE rec == [node[m] EXCEPT !.reg = r, !.registered = b]
<1>1. node[m] \in NodeType OBVIOUS
<1>2. node' = [node EXCEPT ![m] = rec] OBVIOUS
<1>3. /\ rec \in NodeType /\ rec.dev = node[m].dev /\ rec.reg = r
      /\ rec.id = node[m].id /\ rec.registered = b
  BY <1>1 DEF NodeType
<1> HIDE DEF rec
<1>4. QED BY <1>2, <1>3 DEF Writes

LEMMA FreshType == \A d \in Dev : Fresh(d) \in NodeType
BY DEF Fresh, NodeType, Id, Flag

LEMMA TypeInit == Init => TypeOK
<1> SUFFICES ASSUME Init PROVE TypeOK OBVIOUS
<1>1. (CHOOSE d \in Dev : TRUE) \in Dev BY WinAssumption
<1>2. node \in [Node -> NodeType] BY <1>1, FreshType DEF Init
<1>3. ref \in Seq(Node) /\ refp \in 1 .. Len(ref) + 1 BY DEF Init
<1>4. allocated \in 0 .. MaxNodes /\ calls \in 0 .. MaxCalls
  BY WinAssumption DEF Init
<1>5. /\ pc \in [Thread -> DevicePc \cup InputPc \cup {"app"}]
      /\ call \in [Thread -> [op : Op \cup {"none"}, id : Id,
                              nr : Reg \cup {Null}]]
      /\ adding \in [Thread -> Reg \cup {Null}]
  BY DEF Init, DevicePc, InputPc, NoCall, Id
<1>6. next \in [Node -> Id] /\ entry \in [Reg -> Id] BY DEF Init, Id
<1>7. QED BY <1>2, <1>3, <1>4, <1>5, <1>6 DEF Init, TypeOK, NodeType, Id

\* The devices of a refresh are as many as their number says.
LEMMA PresentCount ==
  ASSUME NEW present \in SUBSET Dev
  PROVE  Cardinality(present) \in Nat
BY WinAssumption, FS_Subset, FS_CardinalityType

LEMMA TypeRefresh ==
  ASSUME TypeOK, NEW present \in SUBSET Dev, Refresh(present)
  PROVE  TypeOK'
<1> DEFINE count == Cardinality(present)
           added == allocated + 1 .. allocated + count
<1>1. count \in Nat BY PresentCount
<1> HIDE DEF count
<1>2. allocated \in Nat /\ allocated + count \in 0 .. MaxNodes
  BY <1>1, WinAssumption DEF Refresh, TypeOK, count
<1>3. node' \in [Node -> NodeType]
  <2>1. PICK f \in [added -> present] :
          node' = [n \in Node |-> IF n \in added THEN Fresh(f[n]) ELSE node[n]]
    BY DEF Refresh, count
  <2>2. \A n \in added : Fresh(f[n]) \in NodeType BY FreshType
  <2>3. node \in [Node -> NodeType] BY DEF TypeOK, NodeType
  <2>4. QED BY <2>1, <2>2, <2>3
<1>4. next' \in [Node -> Id]
  <2>1. next' = [n \in Node |-> IF n \in added \ {allocated + 1} THEN n - 1
                                ELSE next[n]]
    BY DEF Refresh, count
  <2>2. \A n \in Node : n \in added \ {allocated + 1} => n - 1 \in Id
    BY <1>1, <1>2, WinAssumption DEF Id, Node, Null
  <2>3. QED BY <2>1, <2>2 DEF TypeOK
<1>5. new' \in Id
  <2>1. new' = IF count = 0 THEN Null ELSE allocated + count
    BY DEF Refresh, count
  <2>2. count # 0 => allocated + count \in Node
    BY <1>1, <1>2, WinAssumption DEF Node
  <2>3. QED BY <2>1, <2>2 DEF Id
<1>6. allocated' = allocated + count BY DEF Refresh, count
<1>7. refp' \in 1 .. Len(ref') + 1 BY DEF Refresh, TypeOK, lists
<1>8. pc' \in [Thread -> DevicePc \cup InputPc \cup {"app"}]
  BY DEF Refresh, Goto, TypeOK, DevicePc
<1>9. QED
  BY <1>2, <1>3, <1>4, <1>5, <1>6, <1>7, <1>8
  DEF Refresh, TypeOK, NodeType, mutexes, history

LEMMA TypeMatch ==
  ASSUME TypeOK, Shape, Match
  PROVE  TypeOK'
<1> DEFINE n == ref[refp]
           m == Found(n)
<1>1. refp \in 1 .. Len(ref) /\ n \in Node BY DEF Match, TypeOK
<1>2. m \in Node /\ Before(n) \in Node BY <1>1, MatchFacts DEF Match
<1>3. TakeOver(n, m) /\ MoveUp(m, Before(n)) BY DEF Match
<1> HIDE DEF n, m
<1>4. node' \in [Node -> NodeType]
  <2>1. node \in [Node -> NodeType] BY DEF TypeOK, NodeType
  <2>2. QED BY <1>1, <1>2, <1>3, <2>1, TakeOverWrites DEF Writes
<1>5. next' \in [Node -> Id] /\ {new', part', prev'} \subseteq Id
  BY <1>2, <1>3 DEF MoveUp, TypeOK, Id
<1>6. refp' \in 1 .. Len(ref') + 1 BY <1>1 DEF Match
<1>7. QED
  BY <1>4, <1>5, <1>6 DEF Match, TypeOK, NodeType, mutexes, events, history

LEMMA TypeSwap ==
  ASSUME TypeOK, Shape, Swap
  PROVE  TypeOK'
<1>1. NewList \in Seq(Node) BY ListParts
<1>2. Front \subseteq Node BY <1>1, FrontIs, ListParts DEF Shape
<1>3. entry' \in [Reg -> Id]
  BY <1>2 DEF Swap, Retarget, TypeOK, Id
<1>4. ref' \in Seq(Node) /\ refp' \in 1 .. Len(ref') + 1
  BY <1>1 DEF Swap, NewList
<1>5. freed' \subseteq Node BY DEF Swap, TypeOK, Nodes
<1>6. pc' \in [Thread -> DevicePc \cup InputPc \cup {"app"}]
  BY DEF Swap, Goto, TypeOK, DevicePc
<1>7. QED
  BY <1>3, <1>4, <1>5, <1>6
  DEF Swap, TypeOK, Id, Null, mutexes

LEMMA TypeLoop ==
  ASSUME TypeOK, ListInv,
         \/ ReportUnplugged \/ SkipUnplugged \/ UnplugReported \/ Matched
         \/ Relist \/ Reported("relisted", "relist")
         \/ List \/ ListCompatible \/ Reported("listed", "list") \/ Listed
  PROVE  TypeOK'
<1>0. node \in [Node -> NodeType] BY DEF TypeOK, NodeType
<1> USE DEF TypeOK, Goto, DevicePc, heap, lists, mutexes, events, cursors,
            history, At, Id
<1>1. CASE ReportUnplugged
  <2>1. ref[refp] \in Node /\ node[ref[refp]] \in NodeType
    BY <1>0, <1>1 DEF ReportUnplugged, Missing
  <2>2. node[ref[refp]].id \in Id /\ node[ref[refp]].reg \in Reg \cup {Null}
    BY <2>1 DEF NodeType
  <2>3. node' \in [Node -> NodeType]
    BY <1>0, <1>1, <2>1, UnplugWrites DEF ReportUnplugged, Writes
  <2>4. lost' \subseteq Reg BY <1>1, <2>2 DEF ReportUnplugged, Missing
  <2>5. told' \subseteq Id /\ cur' \in Id
    BY <1>1, <2>1, <2>2 DEF ReportUnplugged
  <2>6. reported' \cup skipped' \subseteq Dev BY <1>1 DEF ReportUnplugged
  <2>7. mutex_enum' = DeviceThread BY <1>1 DEF ReportUnplugged
  <2>8. pc' \in [Thread -> DevicePc \cup InputPc \cup {"app"}]
    BY <1>1 DEF ReportUnplugged
  <2>9. UNCHANGED <<allocated, next, entry, lists, mutex_reg, kept, events,
                    refp, part, prev, todo, call, adding, calls, freed,
                    unregistered, midway, skipped>>
    BY <1>1 DEF ReportUnplugged
  <2>10. QED
    BY <2>3, <2>4, <2>5, <2>6, <2>7, <2>8, <2>9, Threads DEF NodeType
<1>2. CASE SkipUnplugged
  <2>1. ref[refp] \in Node BY <1>2 DEF SkipUnplugged, Missing
  <2>2. QED BY <1>2, <2>1 DEF SkipUnplugged, Missing
<1>3. CASE UnplugReported
  <2>1. refp <= Len(ref) BY <1>3 DEF UnplugReported, ListInv, Phases
  <2>2. refp' \in 1 .. Len(ref') + 1 BY <1>3, <2>1 DEF UnplugReported
  <2>3. QED BY <1>3, <2>2 DEF UnplugReported
<1>4. CASE Matched BY <1>4 DEF Matched
<1>5. CASE Relist
  <2>1. cur # part => cur \in Node BY <1>5, CursorIsNode DEF Relist
  <2>2. QED BY <1>5, <2>1 DEF Relist
<1>6. CASE Reported("relisted", "relist")
  <2>1. cur \in Node BY <1>6, CursorIsNode DEF Reported
  <2>2. QED BY <1>6, <2>1 DEF Reported
<1>7. CASE Reported("listed", "list")
  <2>1. cur \in Node BY <1>7, CursorIsNode DEF Reported
  <2>2. QED BY <1>7, <2>1 DEF Reported
<1>8. CASE List
  <2>1. cur \in Node BY <1>8, CursorIsNode DEF List
  <2>2. node' \in [Node -> NodeType]
    BY <1>0, <1>8, <2>1, ListWrites DEF List, Writes
  <2>3. node[cur].dev \in Dev BY <2>1
  <2>4. QED BY <1>8, <2>1, <2>2, <2>3 DEF List, NodeType
<1>9. CASE ListCompatible
  <2>1. cur \in Node BY <1>9, CursorIsNode DEF ListCompatible
  <2>2. node' \in [Node -> NodeType]
    BY <1>0, <1>9, <2>1, CompatibleWrites DEF ListCompatible, Writes
  <2>3. QED BY <1>9, <2>1, <2>2 DEF ListCompatible, NodeType
<1>10. CASE Listed BY <1>10 DEF Listed
<1>11. QED
  BY <1>1, <1>2, <1>3, <1>4, <1>5, <1>6, <1>7, <1>8, <1>9, <1>10

LEMMA TypeInput ==
  ASSUME TypeOK, Input
  PROVE  TypeOK'
<1> USE DEF TypeOK, Goto, InputPc, heap, lists, mutexes, events, cursors,
            history, At
<1>1. CASE InputLock
  <2>1. {mutex_enum, mutex_reg}' \subseteq Thread \cup {NoThread}
    BY <1>1, Threads DEF InputLock
  <2>2. todo' \subseteq Reg BY <1>1 DEF InputLock
  <2>3. pc' \in [Thread -> DevicePc \cup InputPc \cup {"app"}]
    BY <1>1 DEF InputLock
  <2>4. QED BY <1>1, <2>1, <2>2, <2>3 DEF InputLock
<1>2. CASE InputPoll BY <1>2 DEF InputPoll
<1>3. CASE InputReported BY <1>3 DEF InputReported
<1>4. CASE InputUnlock BY <1>4 DEF InputUnlock
<1>5. QED BY <1>1, <1>2, <1>3, <1>4 DEF Input

LEMMA TypeCalls ==
  ASSUME TypeOK, Shape, NEW t \in Thread, Calls(t) \/ Answer(t)
  PROVE  TypeOK'
<1> USE DEF TypeOK, heap, lists, mutexes, events, cursors, history
<1>0. node \in [Node -> NodeType] BY DEF NodeType
<1>1. CASE Reenumerate(t)
  <2>1. calls' \in 0 .. MaxCalls BY <1>1, WinAssumption DEF Reenumerate
  <2>2. QED BY <1>1, <2>1 DEF Reenumerate
<1>2. ASSUME NEW op \in Op, NEW id \in told, Call(t, op, id) PROVE TypeOK'
  <2>1. calls + 1 \in Reg /\ calls + 1 \in 0 .. MaxCalls
    BY <1>2, WinAssumption DEF Call, Reg
  <2>2. QED BY <1>2, <2>1 DEF Call
<1>3. NoCall \in [op : Op \cup {"none"}, id : Id, nr : Reg \cup {Null}]
  BY DEF NoCall, Id
<1>4. CASE RegisterAdd(t)
  <2>1. CASE Return(t) /\ UNCHANGED <<node, entry, adding, registry,
                                      unregistered, midway>>
    <3>1. call' \in [Thread -> [op : Op \cup {"none"}, id : Id,
                                nr : Reg \cup {Null}]]
      BY <1>3, <2>1 DEF Return
    <3>2. QED BY <2>1, <3>1, <1>4 DEF Return, RegisterAdd
  <2>2. CASE ~(Return(t) /\ UNCHANGED <<node, entry, adding, registry,
                                      unregistered, midway>>)
    <3> DEFINE n == call[t].id
               r == call[t].nr
    <3>1. /\ n \in Id /\ r \in Reg \cup {Null}
          /\ node' = [node EXCEPT ![n].reg = r, ![n].registered = "yes"]
          /\ entry' = [entry EXCEPT ![r] = n]
          /\ adding' = [adding EXCEPT ![t] = r]
          /\ UNCHANGED <<allocated, next, lists, mutexes, events,
                         cursors, todo, pc, call, calls, history>>
      BY <1>4, <2>2 DEF RegisterAdd
    <3> HIDE DEF n, r
    <3>2. n \in Node
      <4>1. n \in Nodes(Walk(new)) BY <1>4, <2>2 DEF RegisterAdd, n
      <4>2. QED BY <4>1, ListParts DEF Nodes, NewList
    <3>3. node' \in [Node -> NodeType]
      BY <1>0, <3>1, <3>2, RegisterWrites DEF Writes, Flag
    <3>4. QED BY <3>1, <3>3 DEF NodeType
  <2>3. QED BY <2>1, <2>2
<1>5. CASE RegisterAddLink(t) BY <1>3, <1>5 DEF RegisterAddLink, Return
<1>6. CASE RegisterDel(t)
  <2> DEFINE id == call[t].id
  <2>1. node' = node \/ node' = [node EXCEPT ![id].reg = Null,
                                             ![id].registered = "no"]
    BY <1>6 DEF RegisterDel
  <2>2. node' \in [Node -> NodeType]
    <3>1. CASE id \in Node
      BY <1>0, <2>1, <3>1, RegisterWrites DEF Writes, Flag
    <3>2. CASE id \notin Node BY <1>0, <2>1, <3>2
    <3>3. QED BY <3>1, <3>2
  <2>3. registry' \cup unregistered' \cup midway' \subseteq Reg
    BY <1>6 DEF RegisterDel, Registered
  <2>4. QED BY <1>3, <1>6, <2>2, <2>3 DEF RegisterDel, Return, NodeType
<1>7. CASE Query(t) \/ Effect(t)
  <2>1. /\ Return(t)
        /\ UNCHANGED <<node, entry, adding, registry, unregistered, midway>>
    BY <1>7 DEF Query, Effect
  <2>2. /\ {mutex_enum', mutex_reg'} \subseteq Thread \cup {NoThread}
        /\ kept' \subseteq {"enum", "reg"}
    BY <1>7 DEF Query, Effect
  <2>3. QED BY <1>3, <2>1, <2>2 DEF Return
<1>8. QED BY <1>1, <1>2, <1>4, <1>5, <1>6, <1>7 DEF Calls, Answer

LEMMA TypeStep == TypeOK /\ ListInv /\ [Next]_vars => TypeOK'
<1> SUFFICES ASSUME TypeOK, ListInv, [Next]_vars PROVE TypeOK'
  OBVIOUS
<1>1. CASE UNCHANGED vars
  BY <1>1 DEF vars, heap, lists, mutexes, events, cursors, history, TypeOK
<1>2. CASE Next
  BY <1>2, TypeRefresh, TypeMatch, TypeSwap, TypeLoop, TypeInput, TypeCalls
  DEF Next, Device, ListInv
<1>3. QED BY <1>1, <1>2

-----------------------------------------------------------------------------
(* The lists: each step keeps what ListInv says of them.                   *)

\* The places of the lists, as numbers and nodes.
LEMMA Places ==
  ASSUME TypeOK, Shape
  PROVE  /\ ref \in Seq(Node) /\ Len(ref) \in Nat
         /\ \A k \in 1 .. Len(ref) : ref[k] \in Node
         /\ refp \in Nat /\ refp >= 1 /\ refp <= Len(ref) + 1
         /\ NewList \in Seq(Node) /\ Len(NewList) \in Nat
         /\ \A i \in 1 .. Len(NewList) : NewList[i] \in Node
         /\ Seen \in Nat /\ Seen <= Len(NewList)
         /\ allocated \in Nat
<1>1. ref \in Seq(Node) /\ refp \in 1 .. Len(ref) + 1 BY DEF TypeOK
<1>2. NewList \in Seq(Node) /\ Seen \in 0 .. Len(NewList)
  BY ListParts DEF Shape
<1>3. allocated \in Nat BY WinAssumption DEF TypeOK
<1>4. QED BY <1>1, <1>2, <1>3

\* Nodes on the two lists.
InLists == Elements(ref) \cup Elements(NewList)

LEMMA OnLists ==
  ASSUME TypeOK, Shape
  PROVE  /\ Nodes(ref) = Elements(ref)
         /\ Nodes(Walk(new)) = Elements(NewList)
         /\ InLists \subseteq Node
<1>1. Nodes(ref) = Elements(ref) BY DEF TypeOK, Nodes, Elements
<1>2. Nodes(Walk(new)) = Elements(NewList) BY FrontIs DEF NewList
<1>3. InLists \subseteq Node BY Places DEF Elements, InLists
<1>4. QED BY <1>1, <1>2, <1>3

SameDevs == \A n \in Node : node'[n].dev = node[n].dev

\* Nodes that nobody knows of are not registered.
NoneFilled ==
    \A n \in Node :
      \/ node'[n].reg \in {node[n].reg, Null}
      \/ n \in Elements(NewList) \cap Known

\* Nobody comes to know of another node.
KnownKept == Known' \subseteq Known \cup {Null}

LEMMA KnownBy ==
  ASSUME told' \subseteq Known \cup {Null},
         \A n \in Node : node'[n].id \in Known \cup {Null},
         \A r \in Reg : entry'[r] \in Known \cup {Null},
         \A t \in Thread : call'[t].id \in Known \cup {Null}
  PROVE  KnownKept
BY DEF Known, KnownKept

LEMMA KnownAll ==
  /\ told \subseteq Known
  /\ \A n \in Node : node[n].id \in Known
  /\ \A r \in Reg : entry[r] \in Known
  /\ \A t \in Thread : call[t].id \in Known
BY DEF Known

LEMMA KnownSame ==
  ASSUME UNCHANGED <<told, node, entry, call>>
  PROVE  KnownKept
BY KnownAll, KnownBy

\* The nodes that nobody knows of stay so.
LEMMA UnknownKept ==
  ASSUME TypeOK, Shape, KnownKept, NoneFilled,
         NEW j \in Seen .. Len(NewList), Progress(j),
         NEW i \in j + 1 .. Len(NewList)
  PROVE  NewList[i] \notin Known' /\ node'[NewList[i]].reg = Null
<1>1. NewList[i] \in Node /\ i \in 1 .. Len(NewList) BY Places
<1>2. NewList[i] \notin Known /\ node[NewList[i]].reg = Null
  BY DEF Progress
<1>3. NewList[i] # Null BY <1>1 DEF Node, Null
<1>4. QED BY <1>1, <1>2, <1>3 DEF NoneFilled, KnownKept

LEMMA SplitKept ==
  ASSUME TypeOK, Shape, Split, SameDevs,
         NewList' = NewList, Seen' = Seen, UNCHANGED <<ref, refp>>
  PROVE  Split'
<1>1. \A i \in 1 .. Len(NewList) : node'[NewList[i]].dev = node[NewList[i]].dev
  BY Places DEF SameDevs
<1>2. \A k \in 1 .. refp - 1 : node'[ref[k]].dev = node[ref[k]].dev
  BY Places DEF SameDevs
<1>3. \A i, j \in 1 .. Len(NewList) :
        node'[NewList[i]].dev = node'[NewList[j]].dev => i = j
  BY <1>1 DEF Split
<1>4. \A i \in 1 .. Seen :
        \E k \in 1 .. refp - 1 : node'[ref[k]].dev = node'[NewList[i]].dev
  <2> SUFFICES ASSUME NEW i \in 1 .. Seen
               PROVE  \E k \in 1 .. refp - 1 :
                        node'[ref[k]].dev = node'[NewList[i]].dev
    OBVIOUS
  <2>1. i \in 1 .. Len(NewList) BY Places
  <2>2. PICK k \in 1 .. refp - 1 : node[ref[k]].dev = node[NewList[i]].dev
    BY DEF Split
  <2>3. /\ node'[NewList[i]].dev = node[NewList[i]].dev
        /\ node'[ref[k]].dev = node[ref[k]].dev
    BY <1>1, <1>2, <2>1
  <2>4. QED BY <2>2, <2>3
<1>5. \A i \in Seen + 1 .. Len(NewList), k \in 1 .. refp - 1 :
        node'[ref[k]].dev # node'[NewList[i]].dev
  <2> SUFFICES ASSUME NEW i \in Seen + 1 .. Len(NewList),
                      NEW k \in 1 .. refp - 1
               PROVE  node'[ref[k]].dev # node'[NewList[i]].dev
    OBVIOUS
  <2>1. i \in 1 .. Len(NewList) BY Places
  <2>2. node[ref[k]].dev # node[NewList[i]].dev BY DEF Split
  <2>3. /\ node'[NewList[i]].dev = node[NewList[i]].dev
        /\ node'[ref[k]].dev = node[ref[k]].dev
    BY <1>1, <1>2, <2>1
  <2>4. QED BY <2>2, <2>3
<1>6. QED BY <1>3, <1>4, <1>5, Zenon DEF Split

\* Steps of the input loop and of calls.
LEMMA ListStill ==
  ASSUME TypeOK, ListInv, SameDevs, NoneFilled, KnownKept,
         UNCHANGED <<allocated, next, new, part, prev, ref, freed, refp, cur,
                     reported, skipped, lost>>,
         pc'[DeviceThread] = pc[DeviceThread]
  PROVE  ListInv'
<1>1. Shape /\ Older /\ Phases /\ Split /\ Unplugging BY DEF ListInv
<1>2. NewList' = NewList /\ Seen' = Seen /\ Shape' /\ Older'
  BY <1>1, ListsKept
<1>3. Phases' BY <1>1 DEF Phases
<1>4. Split' BY <1>1, <1>2, SplitKept
<1>5. \A i \in 1 .. Len(NewList) :
        node'[NewList[i]].dev = node[NewList[i]].dev
  BY <1>1, Places DEF SameDevs
<1>6. \A k \in 1 .. Len(ref) : node'[ref[k]].dev = node[ref[k]].dev
  BY <1>1, Places DEF SameDevs
<1>7. Progressing'
  <2>1. PICK j \in Seen .. Len(NewList) : Progress(j)
    BY DEF ListInv, Progressing
  <2>2. \A i \in j + 1 .. Len(NewList) :
          NewList[i] \notin Known' /\ node'[NewList[i]].reg = Null
    BY <1>1, <2>1, UnknownKept
  <2>3. \A d \in reported \ skipped :
          \/ \E k \in refp .. Len(ref) : node'[ref[k]].dev = d
          \/ \E i \in 1 .. j : node'[NewList[i]].dev = d
    <3>1. \A k \in refp .. Len(ref) : k \in 1 .. Len(ref)
      BY <1>1, Places
    <3>2. \A i \in 1 .. j : i \in 1 .. Len(NewList)
      BY <1>1, <2>1, Places
    <3>3. QED BY <1>5, <1>6, <2>1, <3>1, <3>2 DEF Progress
  <2>4. Progress(j)' BY <1>2, <2>1, <2>2, <2>3 DEF Progress
  <2>5. QED BY <1>2, <2>1, <2>4 DEF Progressing
<1>8. Unplugging'
  <2> SUFFICES ASSUME pc[DeviceThread] = "unplugged"
               PROVE  /\ node'[ref[refp]].reg \in lost \cup {Null}
                      /\ node'[ref[refp]].dev \notin reported \ skipped
                      /\ \A i \in Seen + 1 .. Len(NewList) :
                           node'[NewList[i]].dev # node'[ref[refp]].dev
    BY <1>2 DEF Unplugging
  <2>1. refp \in 1 .. Len(ref) /\ ref[refp] \in Node
    BY <1>1, Places DEF Phases
  <2>2. ref[refp] \notin Elements(NewList)
    <3>1. ref[refp] \in Elements(ref) BY <2>1 DEF Elements
    <3>2. ref[refp] <= allocated - Len(NewList) BY <1>1, <3>1 DEF Older
    <3>3. Elements(NewList) = allocated + 1 - Len(NewList) .. allocated
      BY <1>1 DEF Shape
    <3>4. ref[refp] \in Nat BY <2>1 DEF Node
    <3>5. QED BY <1>1, <3>2, <3>3, <3>4, Places
  <2>3. node'[ref[refp]].reg \in {node[ref[refp]].reg, Null}
    BY <2>1, <2>2 DEF NoneFilled
  <2>4. \A i \in Seen + 1 .. Len(NewList) : i \in 1 .. Len(NewList)
    BY <1>1, Places
  <2>5. QED BY <1>1, <1>5, <1>6, <2>1, <2>3, <2>4 DEF Unplugging
<1>9. QED BY <1>2, <1>3, <1>4, <1>7, <1>8 DEF ListInv

\* What a call that registers or unregisters writes.
LEMMA RegisterAddWrites ==
  ASSUME TypeOK, Shape, NEW t \in Thread, RegisterAdd(t),
         ~ UNCHANGED <<node, entry, adding>>
  PROVE  /\ call[t].id \in Elements(NewList) /\ call[t].id \in Node
         /\ call[t].op = "register_add" /\ adding[t] = Null
         /\ call[t].nr \in Reg \cup {Null}
         /\ node[call[t].id].registered # "yes"
         /\ Writes(call[t].id)
         /\ node'[call[t].id].reg = call[t].nr
         /\ node'[call[t].id].registered = "yes"
         /\ node'[call[t].id].id = node[call[t].id].id
         /\ entry' = [entry EXCEPT ![call[t].nr] = call[t].id]
         /\ adding' = [adding EXCEPT ![t] = call[t].nr]
         /\ UNCHANGED <<allocated, next, lists, mutexes, events,
                        cursors, todo, pc, call, calls, history>>
<1> DEFINE n == call[t].id
           r == call[t].nr
<1>1. /\ n \in Id /\ r \in Reg \cup {Null}
      /\ n \in Nodes(Walk(new)) /\ node[n].registered # "yes"
      /\ call[t].op = "register_add" /\ adding[t] = Null
      /\ node' = [node EXCEPT ![n].reg = r, ![n].registered = "yes"]
      /\ entry' = [entry EXCEPT ![r] = n]
      /\ adding' = [adding EXCEPT ![t] = r]
      /\ UNCHANGED <<allocated, next, lists, mutexes, events,
                     cursors, todo, pc, call, calls, history>>
  BY DEF RegisterAdd, TypeOK
<1> HIDE DEF n, r
<1>2. n \in Elements(NewList) /\ n \in Node
  BY <1>1, FrontIs, ListParts DEF NewList, Elements
<1>3. node \in [Node -> NodeType] BY DEF TypeOK, NodeType
<1>4. /\ Writes(n) /\ node'[n].reg = r /\ node'[n].registered = "yes"
      /\ node'[n].id = node[n].id
  BY <1>1, <1>2, <1>3, RegisterWrites DEF Flag
<1>5. QED BY <1>1, <1>2, <1>4 DEF n, r

LEMMA RegisterDelWrites ==
  ASSUME TypeOK, NEW t \in Thread, RegisterDel(t)
  PROVE  \/ UNCHANGED node
         \/ /\ call[t].id \in Node
            /\ Writes(call[t].id)
            /\ node'[call[t].id].reg = Null
            /\ node'[call[t].id].registered = "no"
            /\ node'[call[t].id].id = node[call[t].id].id
<1> DEFINE id == call[t].id
<1>1. \/ node' = node
      \/ node' = [node EXCEPT ![id].reg = Null, ![id].registered = "no"]
  BY DEF RegisterDel
<1>2. node \in [Node -> NodeType] BY DEF TypeOK, NodeType
<1> HIDE DEF id
<1>3. CASE id \in Node
  <2>1. CASE node' = [node EXCEPT ![id].reg = Null, ![id].registered = "no"]
    <3>1. /\ Writes(id) /\ node'[id].reg = Null
          /\ node'[id].registered = "no"
          /\ node'[id].id = node[id].id
      BY <1>2, <1>3, <2>1, RegisterWrites DEF Flag
    <3>2. QED BY <1>3, <3>1 DEF id
  <2>2. QED BY <1>1, <2>1
<1>4. CASE id \notin Node BY <1>1, <1>2, <1>4
<1>5. QED BY <1>3, <1>4

LEMMA KnownInput == TypeOK /\ Input => KnownKept
<1> SUFFICES ASSUME TypeOK, Input PROVE KnownKept OBVIOUS
<1>1. UNCHANGED <<node, entry, call>>
  BY DEF Input, InputLock, InputPoll, InputReported, InputUnlock, heap
<1>2. told' \subseteq Known
  <2>1. CASE InputPoll
    <3>1. told' = told \/ \E r \in Reg : told' = told \cup {entry[r]}
      BY <2>1 DEF InputPoll, TypeOK
    <3>2. QED BY <3>1, KnownAll
  <2>2. CASE ~InputPoll
    <3>1. told' = told
      BY <2>2 DEF Input, InputLock, InputReported, InputUnlock, history
    <3>2. QED BY <3>1, KnownAll
  <2>3. QED BY <2>1, <2>2
<1>3. QED BY <1>1, <1>2, KnownAll, KnownBy

LEMMA KnownCalls ==
  ASSUME TypeOK, Shape, NEW t \in Thread, Calls(t) \/ Answer(t)
  PROVE  KnownKept
<1>1. told' = told
  BY DEF Calls, Call, Reenumerate, Answer, RegisterAdd, RegisterAddLink,
     RegisterDel, Query, Effect, Return, history
<1>2. \A n \in Node : node'[n].id = node[n].id
  <2>1. CASE UNCHANGED node BY <2>1
  <2>2. CASE RegisterAdd(t) /\ ~ UNCHANGED <<node, entry, adding>>
    BY <2>2, RegisterAddWrites DEF Writes
  <2>3. CASE RegisterDel(t)
    BY <2>3, RegisterDelWrites DEF Writes
  <2>4. QED
    BY <2>1, <2>2, <2>3
    DEF Calls, Call, Reenumerate, Answer, RegisterAddLink, Query, Effect, heap
<1>3. \A r \in Reg : entry'[r] \in {entry[r], call[t].id}
  <2>1. CASE UNCHANGED entry BY <2>1
  <2>2. CASE RegisterAdd(t) /\ ~ UNCHANGED <<node, entry, adding>>
    BY <2>2, RegisterAddWrites DEF TypeOK
  <2>3. QED
    BY <2>1, <2>2
    DEF Calls, Call, Reenumerate, Answer, RegisterAddLink, RegisterDel, Query,
        Effect, heap
<1>4. \A u \in Thread : call'[u].id \in {call[u].id, Null} \cup told
  <2>1. \/ call' = call
        \/ call' = [call EXCEPT ![t] = NoCall]
        \/ \E op \in Op, id \in told :
             call' = [call EXCEPT
                        ![t] = [op |-> op, id |-> id, nr |-> calls + 1]]
    BY DEF Calls, Call, Reenumerate, Answer, RegisterAdd, RegisterAddLink,
       RegisterDel, Query, Effect, Return
  <2>2. NoCall.id = Null BY DEF NoCall
  <2>3. QED BY <2>1, <2>2 DEF TypeOK
<1>5. QED BY <1>1, <1>2, <1>3, <1>4, KnownAll, KnownBy

LEMMA DevsKept ==
  ASSUME TypeOK, Shape, SameDevs
  PROVE  /\ \A i \in 1 .. Len(NewList) :
              node'[NewList[i]].dev = node[NewList[i]].dev
         /\ \A k \in 1 .. Len(ref) : node'[ref[k]].dev = node[ref[k]].dev
BY Places DEF SameDevs

\* The device searched for in vain is none of those left.
LEMMA MissingDevs ==
  ASSUME TypeOK, Shape, Missing
  PROVE  /\ refp \in 1 .. Len(ref) /\ ref[refp] \in Node
         /\ \A i \in Seen + 1 .. Len(NewList) :
              node[NewList[i]].dev # node[ref[refp]].dev
<1>1. refp \in 1 .. Len(ref) /\ ref[refp] \in Node BY Places DEF Missing
<1>2. ASSUME NEW i \in Seen + 1 .. Len(NewList)
      PROVE  node[NewList[i]].dev # node[ref[refp]].dev
  <2>1. i - Seen \in 1 .. Len(NewList) - Seen /\ i - Seen + Seen = i
    BY Places
  <2>2. i - Seen \in DOMAIN Candidates /\ Candidates[i - Seen] = NewList[i]
    BY <2>1, ListParts DEF Candidates, Rest
  <2>3. Matching(ref[refp]) = {} BY DEF Missing
  <2>4. QED BY <2>2, <2>3 DEF Matching
<1>3. QED BY <1>1, <1>2

\* The device thread learns of a node only by listing it, and from the swap on
\* the registered nodes point to those of the new list.
LEMMA KnownDevice ==
  ASSUME TypeOK, ListInv, Device
  PROVE  /\ ~List /\ ~Swap => KnownKept
         /\ List => Known' \subseteq Known \cup {Null, cur}
         /\ Swap => Known' \subseteq Known \cup {Null} \cup Elements(NewList)
<1> USE DEF heap, lists, history, cursors
<1>0. /\ Shape /\ Phases
      /\ node \in [Node -> NodeType]
  BY DEF ListInv, TypeOK, NodeType
<1>1. CASE \E present \in SUBSET Dev : Refresh(present)
  <2>1. PICK present \in SUBSET Dev : Refresh(present) BY <1>1
  <2> DEFINE added == allocated + 1 .. allocated + Cardinality(present)
  <2>2. PICK f \in [added -> present] :
          node' = [n \in Node |-> IF n \in added THEN Fresh(f[n])
                                 ELSE node[n]]
    BY <2>1 DEF Refresh
  <2>8. UNCHANGED <<told, entry, call>> /\ pc[DeviceThread] = "sleep"
    BY <2>1 DEF Refresh, At
  <2> HIDE DEF added
  <2>9. \A d : Fresh(d).id = Null BY DEF Fresh
  <2>3. \A n \in Node : node'[n].id \in {node[n].id, Null} BY <2>2, <2>9
  <2>4. KnownKept BY <2>3, <2>8, KnownAll, KnownBy
  <2>5. ~List /\ ~Swap BY <2>8 DEF List, Swap, At
  <2>6. QED BY <2>4, <2>5
<1>2. CASE Match
  <2>1. PICK n \in Node, m \in Node : TakeOver(n, m)
    <3>1. refp \in 1 .. Len(ref) /\ ref[refp] \in Node
      BY <1>0, <1>2, Places DEF Match
    <3>2. Found(ref[refp]) \in Node BY <1>0, <1>2, <3>1, MatchFacts DEF Match
    <3>3. QED BY <1>2, <3>1, <3>2 DEF Match
  <2>2. \A q \in Node : node'[q].id \in {node[q].id, node[n].id}
    BY <1>0, <2>1, TakeOverWrites DEF Writes
  <2>3. UNCHANGED <<told, entry, call>> /\ pc[DeviceThread] = "match"
    BY <1>2 DEF Match, At
  <2>4. KnownKept BY <2>2, <2>3, KnownAll, KnownBy
  <2>5. ~List /\ ~Swap BY <2>3 DEF List, Swap, At
  <2>6. QED BY <2>4, <2>5
<1>3. CASE ReportUnplugged
  <2>1. ref[refp] \in Node
    BY <1>0, <1>3, MissingDevs DEF ReportUnplugged
  <2>2. node' = [node EXCEPT ![ref[refp]].plugged = "no"]
    BY <1>3 DEF ReportUnplugged
  <2>3. \A q \in Node : node'[q].id = node[q].id
    BY <1>0, <2>1, <2>2, UnplugWrites DEF Writes
  <2>4. /\ told' = told \cup {node[ref[refp]].id} /\ UNCHANGED <<entry, call>>
        /\ pc[DeviceThread] = "match"
    BY <1>3 DEF ReportUnplugged, Missing, At
  <2>5. KnownKept BY <2>1, <2>3, <2>4, KnownAll, KnownBy
  <2>6. ~List /\ ~Swap BY <2>4 DEF List, Swap, At
  <2>7. QED BY <2>5, <2>6
<1>4. CASE Relist
  <2>1. cur # part => cur \in Node BY <1>4, CursorIsNode DEF Relist, At
  <2>2. /\ told' \subseteq told \cup {node[cur].id}
        /\ cur = part => told' = told
        /\ UNCHANGED <<node, entry, call>> /\ pc[DeviceThread] = "relist"
    BY <1>4 DEF Relist, At
  <2>3. KnownKept BY <2>1, <2>2, KnownAll, KnownBy
  <2>4. ~List /\ ~Swap BY <2>2 DEF List, Swap, At
  <2>5. QED BY <2>3, <2>4
<1>5. CASE ListCompatible
  <2>1. cur \in Node BY <1>5, CursorIsNode DEF ListCompatible, At
  <2>2. \A q \in Node : node'[q].id = node[q].id
    BY <1>0, <1>5, <2>1, CompatibleWrites DEF ListCompatible, Writes
  <2>3. UNCHANGED <<told, entry, call>> BY <1>5 DEF ListCompatible
  <2>4. KnownKept BY <2>2, <2>3, KnownAll, KnownBy
  <2>5. ~List /\ ~Swap BY <1>5 DEF List, Swap, ListCompatible, At
  <2>6. QED BY <2>4, <2>5
<1>6. CASE List
  <2>1. cur \in Node BY <1>6, CursorIsNode DEF List, At
  <2>2. \A q \in Node : node'[q].id \in {node[q].id, cur}
    BY <1>0, <1>6, <2>1, ListWrites DEF List, Writes
  <2>3. told' = told \cup {cur} /\ UNCHANGED <<entry, call>>
    BY <1>6 DEF List
  <2>4. Known' \subseteq Known \cup {Null, cur}
    BY <2>2, <2>3, KnownAll DEF Known
  <2>5. ~Swap BY <1>6 DEF List, Swap, At
  <2>6. QED BY <1>6, <2>4, <2>5
<1>7. CASE Swap
  <2>1. Front \subseteq Elements(NewList)
    BY <1>0, OnLists DEF Front
  <2>2. \A r \in Reg : entry'[r] \in Front \cup {entry[r]}
    BY <1>7 DEF Swap, Retarget
  <2>3. UNCHANGED <<told, node, call>> BY <1>7 DEF Swap
  <2>4. Known' \subseteq Known \cup Elements(NewList)
    BY <2>1, <2>2, <2>3, KnownAll DEF Known
  <2>5. ~List BY <1>7 DEF List, Swap, At
  <2>6. QED BY <1>7, <2>4, <2>5
<1>8. CASE \/ SkipUnplugged \/ UnplugReported \/ Matched
           \/ Reported("relisted", "relist")
           \/ Reported("listed", "list") \/ Listed
  <2>1. UNCHANGED <<told, node, entry, call>>
    BY <1>8
    DEF SkipUnplugged, UnplugReported, Matched, Reported, Listed
  <2>2. Known' = Known BY <2>1 DEF Known
  <2>3. QED BY <2>2 DEF KnownKept
<1>9. QED
  BY <1>1, <1>2, <1>3, <1>4, <1>5, <1>6, <1>7, <1>8 DEF Device

\* The variables that the lists are made of.
ListVars == <<allocated, next, new, part, prev, ref, freed, refp, cur,
              reported, skipped, lost>>

LEMMA ListInput ==
  ASSUME LockInv, TypeOK, ListInv, Input
  PROVE  ListInv'
<1> USE Threads DEF heap, lists, mutexes, events, cursors, history, Goto,
                    LockInv, Placed
<1>1. UNCHANGED ListVars /\ node' = node
      /\ pc'[DeviceThread] = pc[DeviceThread]
  <2>1. CASE InputLock BY <2>1 DEF InputLock, ListVars
  <2>2. CASE InputPoll BY <2>2 DEF InputPoll, ListVars
  <2>3. CASE InputReported BY <2>3 DEF InputReported, ListVars
  <2>4. CASE InputUnlock BY <2>4 DEF InputUnlock, ListVars
  <2>5. QED BY <2>1, <2>2, <2>3, <2>4 DEF Input
<1>2. SameDevs /\ NoneFilled BY <1>1 DEF SameDevs, NoneFilled
<1>3. QED BY <1>1, <1>2, KnownInput, ListStill DEF ListVars

LEMMA ListCalls ==
  ASSUME TypeOK, ListInv, NEW t \in Thread, Calls(t) \/ Answer(t)
  PROVE  ListInv'
<1> USE DEF heap, lists, mutexes, events, cursors, history
<1>0. Shape BY DEF ListInv
<1>1. UNCHANGED ListVars /\ pc' = pc
  BY DEF Calls, Call, Reenumerate, Answer, RegisterAdd, RegisterAddLink,
     RegisterDel, Query, Effect, Return, ListVars
<1>2. SameDevs /\ NoneFilled
  <2>1. CASE UNCHANGED node BY <2>1 DEF SameDevs, NoneFilled
  <2>2. CASE RegisterAdd(t) /\ ~ UNCHANGED <<node, entry, adding>>
    BY <1>0, <2>2, RegisterAddWrites, KnownAll DEF Writes, SameDevs, NoneFilled
  <2>3. CASE RegisterDel(t)
    BY <2>3, RegisterDelWrites DEF Writes, SameDevs, NoneFilled
  <2>4. QED
    BY <2>1, <2>2, <2>3
    DEF Calls, Call, Reenumerate, Answer, RegisterAddLink, Query, Effect
<1>3. KnownKept BY <1>0, KnownCalls
<1>4. QED BY <1>1, <1>2, <1>3, ListStill DEF ListVars

\* One more reference node has been compared, and found missing.
LEMMA ListMissed ==
  ASSUME TypeOK, ListInv, node' = node,
         refp <= Len(ref), refp' = refp + 1,
         \A i \in Seen + 1 .. Len(NewList) :
           node[NewList[i]].dev # node[ref[refp]].dev,
         reported' \ skipped' =
           (reported \ skipped) \ {node[ref[refp]].dev},
         pc[DeviceThread] \in Comparing, pc'[DeviceThread] = "match",
         KnownKept,
         UNCHANGED <<allocated, next, new, part, prev, ref, freed>>
  PROVE  ListInv'
<1>1. Shape /\ Older /\ Phases /\ Split /\ Progressing BY DEF ListInv
<1>2. NewList' = NewList /\ Seen' = Seen /\ Shape' /\ Older'
  BY <1>1, ListsKept
<1>3. Phases' BY <1>1, Places DEF Phases, Comparing
<1>4. Split'
  <2>1. \A k \in 1 .. refp : k = refp \/ k \in 1 .. refp - 1
    BY <1>1, Places
  <2>2. 1 .. refp' - 1 = 1 .. refp BY <1>1, Places
  <2>3. \A k \in 1 .. refp - 1 : k \in 1 .. refp BY <1>1, Places
  <2>4. \A i \in 1 .. Seen :
          \E k \in 1 .. refp : node[ref[k]].dev = node[NewList[i]].dev
    BY <1>1, <2>3 DEF Split
  <2>5. \A i \in Seen + 1 .. Len(NewList), k \in 1 .. refp :
          node[ref[k]].dev # node[NewList[i]].dev
    BY <1>1, <2>1 DEF Split
  <2>6. QED BY <1>1, <1>2, <2>2, <2>4, <2>5 DEF Split
<1>5. Progressing'
  <2>1. PICK j \in Seen .. Len(NewList) : Progress(j)
    BY <1>1 DEF Progressing
  <2>2. ASSUME NEW d \in reported' \ skipped'
        PROVE  \/ \E k \in refp + 1 .. Len(ref) : node[ref[k]].dev = d
               \/ \E i \in 1 .. j : node[NewList[i]].dev = d
    <3>1. d \in reported \ skipped /\ d # node[ref[refp]].dev
      OBVIOUS
    <3>2. CASE \E i \in 1 .. j : node[NewList[i]].dev = d BY <3>2
    <3>3. CASE \E k \in refp .. Len(ref) : node[ref[k]].dev = d
      <4>1. PICK k \in refp .. Len(ref) : node[ref[k]].dev = d BY <3>3
      <4>2. k # refp BY <3>1, <4>1
      <4>3. k \in refp + 1 .. Len(ref) BY <1>1, <4>1, <4>2, Places
      <4>4. QED BY <4>1, <4>3
    <3>4. QED BY <2>1, <3>1, <3>2, <3>3 DEF Progress
  <2>3. \A i \in j + 1 .. Len(NewList) :
          NewList[i] \notin Known' /\ node'[NewList[i]].reg = Null
    <3>1. NoneFilled BY DEF NoneFilled
    <3>2. QED BY <1>1, <2>1, <3>1, UnknownKept
  <2>4. Progress(j)' BY <1>2, <2>1, <2>2, <2>3 DEF Progress, Comparing
  <2>5. QED BY <1>2, <2>1, <2>4 DEF Progressing
<1>6. Unplugging' BY DEF Unplugging
<1>7. QED BY <1>2, <1>3, <1>4, <1>5, <1>6 DEF ListInv

LEMMA ListUnplug ==
  ASSUME LockInv, TypeOK, ListInv,
         ReportUnplugged \/ SkipUnplugged \/ UnplugReported
  PROVE  ListInv'
<1> USE DEF heap, lists, mutexes, events, cursors, history, At, Goto
<1>1. Shape /\ Older /\ Phases /\ Split /\ Unplugging BY DEF ListInv
<1>0. KnownKept
  <2>1. ~List /\ ~Swap
    BY DEF List, Swap, ReportUnplugged, SkipUnplugged, Missing, UnplugReported
  <2>2. QED BY <2>1, KnownDevice DEF Device
<1>2. CASE SkipUnplugged
  <2>1. Missing BY <1>2 DEF SkipUnplugged
  <2>2. QED
    BY <1>0, <1>1, <1>2, <2>1, MissingDevs, ListMissed
    DEF SkipUnplugged, Missing, Comparing
<1>3. CASE UnplugReported
  <2>1. pc'[DeviceThread] = "match"
    BY <1>3, Threads DEF UnplugReported, LockInv, Placed
  <2>2. /\ refp <= Len(ref)
        /\ \A i \in Seen + 1 .. Len(NewList) :
             node[NewList[i]].dev # node[ref[refp]].dev
        /\ node[ref[refp]].dev \notin reported \ skipped
    BY <1>1, <1>3 DEF UnplugReported, Phases, Unplugging
  <2>3. QED
    BY <1>0, <1>3, <2>1, <2>2, ListMissed DEF UnplugReported, Comparing
<1>4. CASE ReportUnplugged
  <2> DEFINE n == ref[refp]
  <2>1. /\ refp \in 1 .. Len(ref) /\ n \in Node
        /\ \A i \in Seen + 1 .. Len(NewList) :
             node[NewList[i]].dev # node[n].dev
    BY <1>1, <1>4, MissingDevs DEF ReportUnplugged
  <2>2. node \in [Node -> NodeType] BY DEF TypeOK, NodeType
  <2>3. Writes(n) /\ node'[n].reg = node[n].reg
    <3>1. node' = [node EXCEPT ![n].plugged = "no"]
      BY <1>4 DEF ReportUnplugged
    <3> HIDE DEF n
    <3>2. QED BY <2>1, <2>2, <3>1, UnplugWrites
  <2>4. SameDevs BY <2>3 DEF SameDevs, Writes
  <2>5. /\ UNCHANGED <<allocated, next, new, part, prev, ref, freed, refp,
                       skipped>>
        /\ reported' = reported \ {node[n].dev} /\ cur' = n
        /\ lost' = lost \cup ({node[n].reg} \ {Null})
        /\ pc[DeviceThread] = "match"
    BY <1>4 DEF ReportUnplugged, Missing
  <2>6. pc'[DeviceThread] = "unplugged"
    BY <1>4, Threads DEF ReportUnplugged, LockInv, Placed
  <2> HIDE DEF n
  <2>7. NewList' = NewList /\ Seen' = Seen /\ Shape' /\ Older'
    BY <1>1, <2>5, ListsKept
  <2>8. Phases' BY <1>1, <2>1, <2>5, <2>6 DEF Phases, Comparing, n
  <2>9. Split' BY <1>1, <2>4, <2>5, <2>7, SplitKept
  <2>10. Progressing'
    <3>1. PICK j \in Seen .. Len(NewList) : Progress(j)
      BY DEF ListInv, Progressing
    <3>2. \A i \in j + 1 .. Len(NewList) :
            NewList[i] \notin Known' /\ node'[NewList[i]].reg = Null
      <4>1. NoneFilled BY <2>3 DEF Writes, NoneFilled
      <4>2. QED BY <1>0, <1>1, <3>1, <4>1, UnknownKept
    <3>3. \A d \in reported' \ skipped' :
            \/ \E k \in refp .. Len(ref) : node'[ref[k]].dev = d
            \/ \E i \in 1 .. j : node'[NewList[i]].dev = d
      <4>1. \A k \in refp .. Len(ref) : k \in 1 .. Len(ref)
        BY <2>1, Places
      <4>2. \A i \in 1 .. j : i \in 1 .. Len(NewList)
        BY <1>1, <3>1, Places
      <4>3. \A d \in reported' \ skipped' : d \in reported \ skipped
        BY <2>5
      <4>4. QED
        BY <1>1, <2>4, <3>1, <4>1, <4>2, <4>3, DevsKept DEF Progress
    <3>4. Progress(j)'
      BY <2>5, <2>6, <2>7, <3>1, <3>2, <3>3 DEF Progress, Comparing
    <3>5. QED BY <2>7, <3>1, <3>4 DEF Progressing
  <2>11. Unplugging'
    <3>1. node'[n].reg \in lost' \cup {Null} BY <2>3, <2>5
    <3>2. node'[n].dev \notin reported' \ skipped' BY <2>3, <2>5 DEF Writes
    <3>3. \A i \in Seen + 1 .. Len(NewList) :
            node'[NewList[i]].dev # node'[n].dev
      <4>1. \A i \in Seen + 1 .. Len(NewList) : i \in 1 .. Len(NewList)
        BY <1>1, Places
      <4>2. node'[n].dev = node[n].dev BY <2>3 DEF Writes
      <4>3. QED BY <1>1, <2>1, <2>4, <4>1, <4>2, DevsKept
    <3>4. QED
      BY <2>5, <2>7, <3>1, <3>2, <3>3 DEF Unplugging, n
  <2>12. QED BY <2>7, <2>8, <2>9, <2>10, <2>11 DEF ListInv
<1>5. QED BY <1>2, <1>3, <1>4

\* After the comparison only the cursor and the nodes it is at change.
LEMMA ListPassed ==
  ASSUME TypeOK, ListInv, SameDevs,
         UNCHANGED <<allocated, next, new, part, prev, ref, freed, refp>>,
         refp = Len(ref) + 1, pc'[DeviceThread] \notin {"sleep", "unplugged"},
         NEW j \in Seen .. Len(NewList), Progress(j)'
  PROVE  ListInv'
<1>1. Shape /\ Older /\ Phases /\ Split BY DEF ListInv
<1>2. NewList' = NewList /\ Seen' = Seen /\ Shape' /\ Older'
  BY <1>1, ListsKept
<1>3. Phases' BY <1>1, Places DEF Phases
<1>4. Split' BY <1>1, <1>2, SplitKept
<1>5. Progressing' BY <1>2 DEF Progressing
<1>6. Unplugging' BY DEF Unplugging
<1>7. QED BY <1>2, <1>3, <1>4, <1>5, <1>6 DEF ListInv

\* The cursor goes on, and no node is written to.
LEMMA ListGoes ==
  ASSUME LockInv, TypeOK, ListInv,
         \/ Matched \/ Relist \/ Reported("relisted", "relist")
         \/ Reported("listed", "list") \/ Listed
  PROVE  ListInv'
<1> USE DEF heap, lists, mutexes, events, cursors, history, At, Goto
<1>1. Shape /\ Phases BY DEF ListInv
<1>2. /\ UNCHANGED <<allocated, next, new, part, prev, ref, freed, refp, node,
                     reported, skipped>>
      /\ refp = Len(ref) + 1
  <2>1. CASE Matched BY <1>1, <2>1, Places DEF Matched
  <2>2. CASE ~Matched
    BY <1>1, <2>2 DEF Relist, Reported, Listed, Phases, Comparing
  <2>3. QED BY <2>1, <2>2
<1>3. NewList' = NewList /\ Seen' = Seen
  BY <1>1, <1>2, ListsKept DEF ListInv
<1>4. SameDevs BY <1>2 DEF SameDevs
<1>5. PICK j \in Seen .. Len(NewList) : Progress(j)
  BY DEF ListInv, Progressing
<1>6. DeviceThread \in Thread /\ DOMAIN pc = Thread
  BY Threads DEF LockInv, Placed
<1>7. \A i \in 1 .. Len(NewList) : next[NewList[i]] = Place(NewList, i + 1)
  BY <1>1 DEF Shape, Chain
<1>8. /\ \A i \in j + 1 .. Len(NewList) :
           NewList[i] \notin Known' /\ node'[NewList[i]].reg = Null
      /\ \A d \in reported \ skipped :
           \/ \E k \in refp .. Len(ref) : node[ref[k]].dev = d
           \/ \E i \in 1 .. j : node[NewList[i]].dev = d
  <2>1. ~List /\ ~Swap
    BY DEF List, Swap, Matched, Relist, Reported, Listed
  <2>2. KnownKept BY <2>1, KnownDevice DEF Device
  <2>3. NoneFilled BY <1>2 DEF NoneFilled
  <2>4. \A i \in j + 1 .. Len(NewList) :
          NewList[i] \notin Known' /\ node'[NewList[i]].reg = Null
    BY <1>1, <1>5, <2>2, <2>3, UnknownKept
  <2>5. QED BY <1>5, <2>4 DEF Progress
<1>9. CASE Matched
  <2>1. j = Seen BY <1>5, <1>9 DEF Matched, Progress, Comparing
  <2>2. CASE reenumerate
    <3>1. pc'[DeviceThread] = "relist" /\ cur' = new
      BY <1>6, <1>9, <2>2 DEF Matched
    <3>2. new = Place(NewList, 1) /\ 1 \in 1 .. Seen + 1
      BY <1>1, Places DEF Shape, Chain
    <3>3. Progress(j)'
      BY <1>2, <1>3, <1>8, <2>1, <3>1, <3>2 DEF Progress, Comparing
    <3>4. QED BY <1>2, <1>4, <3>1, <3>3, ListPassed
  <2>3. CASE ~reenumerate
    <3>1. pc'[DeviceThread] = "list" /\ cur' = part
      BY <1>6, <1>9, <2>3 DEF Matched
    <3>2. part = Place(NewList, j + 1) BY <1>1, <2>1 DEF Shape
    <3>3. Progress(j)'
      BY <1>2, <1>3, <1>8, <3>1, <3>2 DEF Progress, Comparing
    <3>4. QED BY <1>2, <1>4, <3>1, <3>3, ListPassed
  <2>4. QED BY <2>2, <2>3
<1>10. CASE Relist
  <2>1. j = Seen BY <1>5, <1>10 DEF Relist, Progress
  <2>2. CASE cur = part
    <3>1. pc'[DeviceThread] = "list" /\ cur' = part
      BY <1>6, <1>10, <2>2 DEF Relist
    <3>2. part = Place(NewList, j + 1) BY <1>1, <2>1 DEF Shape
    <3>3. Progress(j)'
      BY <1>2, <1>3, <1>8, <3>1, <3>2 DEF Progress, Comparing
    <3>4. QED BY <1>2, <1>4, <3>1, <3>3, ListPassed
  <2>3. CASE cur # part
    <3>1. pc'[DeviceThread] = "relisted" /\ cur' = cur
      BY <1>6, <1>10, <2>3 DEF Relist
    <3>2. PICK i \in 1 .. Seen + 1 : cur = Place(NewList, i)
      BY <1>5, <1>10 DEF Relist, Progress
    <3>3. i # Seen + 1 BY <1>1, <2>3, <3>2 DEF Shape
    <3>4. i \in 1 .. Seen /\ cur = NewList[i]
      BY <1>1, <3>2, <3>3, Places DEF Place
    <3>5. Progress(j)'
      BY <1>2, <1>3, <1>8, <2>1, <3>1, <3>4 DEF Progress, Comparing
    <3>6. QED BY <1>2, <1>4, <3>1, <3>5, ListPassed
  <2>4. QED BY <2>2, <2>3
<1>11. CASE Reported("relisted", "relist")
  <2>1. pc'[DeviceThread] = "relist" /\ cur' = next[cur]
    BY <1>6, <1>11 DEF Reported
  <2>2. PICK i \in 1 .. Seen : j = Seen /\ cur = NewList[i]
    BY <1>5, <1>11 DEF Reported, Progress
  <2>3. i + 1 \in 1 .. Seen + 1 /\ cur' = Place(NewList, i + 1)
    BY <1>1, <1>7, <2>1, <2>2, Places
  <2>4. Progress(j)'
    BY <1>2, <1>3, <1>8, <2>1, <2>2, <2>3 DEF Progress, Comparing
  <2>5. QED BY <1>2, <1>4, <2>1, <2>4, ListPassed
<1>12. CASE Reported("listed", "list")
  <2>1. pc'[DeviceThread] = "list" /\ cur' = next[cur]
    BY <1>6, <1>12 DEF Reported
  <2>2. j > Seen /\ cur = NewList[j] BY <1>5, <1>12 DEF Reported, Progress
  <2>3. cur' = Place(NewList, j + 1) BY <1>1, <1>7, <2>1, <2>2, Places
  <2>4. Progress(j)'
    BY <1>2, <1>3, <1>8, <2>1, <2>3 DEF Progress, Comparing
  <2>5. QED BY <1>2, <1>4, <2>1, <2>4, ListPassed
<1>13. CASE Listed
  <2>1. pc'[DeviceThread] = "swap" BY <1>6, <1>13 DEF Listed
  <2>2. Place(NewList, j + 1) = Null BY <1>5, <1>13 DEF Listed, Progress
  <2>3. j = Len(NewList)
    BY <1>1, <1>5, <2>2, Places DEF Place, Null, Node
  <2>4. Progress(j)'
    BY <1>2, <1>3, <1>8, <2>1, <2>3 DEF Progress, Comparing
  <2>5. QED BY <1>2, <1>4, <2>1, <2>4, ListPassed
<1>14. QED BY <1>9, <1>10, <1>11, <1>12, <1>13

\* A new device is listed, or skipped.
LEMMA ListNode ==
  ASSUME LockInv, TypeOK, ListInv, List \/ ListCompatible
  PROVE  ListInv'
<1> USE DEF heap, lists, mutexes, events, cursors, history, At, Goto
<1>1. Shape /\ Phases BY DEF ListInv
<1>2. /\ UNCHANGED <<allocated, next, new, part, prev, ref, freed, refp>>
      /\ refp = Len(ref) + 1
  BY <1>1 DEF List, ListCompatible, Phases, Comparing
<1>3. NewList' = NewList /\ Seen' = Seen
  BY <1>1, <1>2, ListsKept DEF ListInv
<1>4. PICK i \in Seen .. Len(NewList) : Progress(i)
  BY DEF ListInv, Progressing
<1> DEFINE j == i + 1
<1>5. pc[DeviceThread] = "list" /\ cur # Null BY DEF List, ListCompatible
<1>6. cur = Place(NewList, j) BY <1>4, <1>5 DEF Progress
<1>7. j \in Seen + 1 .. Len(NewList) /\ cur = NewList[j] /\ cur \in Node
  BY <1>1, <1>4, <1>5, <1>6, Places DEF Place, Null
<1>8. DeviceThread \in Thread /\ DOMAIN pc = Thread
  BY Threads DEF LockInv, Placed
<1>9. node \in [Node -> NodeType] BY DEF TypeOK, NodeType
<1>10. Writes(cur)
  BY <1>7, <1>9, ListWrites, CompatibleWrites DEF List, ListCompatible
<1>11. SameDevs BY <1>10 DEF Writes, SameDevs
<1>12. ASSUME NEW k \in j + 1 .. Len(NewList)
       PROVE  NewList[k] \notin Known' /\ node'[NewList[k]].reg = Null
  <2>1. k \in i + 1 .. Len(NewList) /\ k \in 1 .. Len(NewList) /\ k # j
        /\ j \in 1 .. Len(NewList)
    BY <1>1, <1>4, <1>7, Places
  <2>2. NewList[k] # cur BY <1>1, <1>7, <2>1, ListParts DEF Distinct
  <2>3. NewList[k] \in Node BY <1>1, <2>1, Places
  <2>4. Known' \subseteq Known \cup {Null, cur}
    <3>1. CASE List BY <3>1, KnownDevice DEF Device
    <3>2. CASE ListCompatible
      <4>1. ~List /\ ~Swap BY <3>2 DEF List, ListCompatible, Swap
      <4>2. QED BY <3>2, <4>1, KnownDevice DEF Device, KnownKept
    <3>3. QED BY <3>1, <3>2
  <2>5. NewList[k] # Null BY <2>3 DEF Node, Null
  <2>6. QED BY <1>4, <1>10, <2>1, <2>2, <2>3, <2>4, <2>5 DEF Progress, Writes
<1>13. \A d \in (reported \ skipped) \cup {node[cur].dev} :
         \E k \in 1 .. j : node'[NewList[k]].dev = d
  <2>1. \A k \in 1 .. j :
          node'[NewList[k]].dev = node[NewList[k]].dev
    BY <1>1, <1>7, <1>11, DevsKept, Places
  <2>2. j \in 1 .. j /\ \A k \in 1 .. i : k \in 1 .. j
    BY <1>1, <1>4, <1>7, Places
  <2>3. \A d \in reported \ skipped :
          \E k \in 1 .. i : node[NewList[k]].dev = d
    <3>1. ~ \E k \in refp .. Len(ref) : TRUE BY <1>1, <1>2, Places
    <3>2. QED BY <1>4, <3>1 DEF Progress
  <2>4. QED BY <1>7, <2>1, <2>2, <2>3
<1> HIDE DEF j
<1>14. CASE List
  <2>1. pc'[DeviceThread] = "listed" /\ cur' = cur BY <1>8, <1>14 DEF List
  <2>2. reported' \ skipped' = (reported \ skipped) \cup {node[cur].dev}
    BY <1>14 DEF List
  <2>3. j > Seen BY <1>1, <1>7, Places
  <2>4. Progress(j)'
    BY <1>3, <1>7, <1>12, <1>13, <2>1, <2>2, <2>3 DEF Progress, Comparing
  <2>5. j \in Seen .. Len(NewList) BY <1>1, <1>7, Places
  <2>6. QED BY <1>2, <1>11, <2>1, <2>4, <2>5, ListPassed
<1>15. CASE ListCompatible
  <2>1. pc'[DeviceThread] = "list" /\ cur' = next[cur]
    BY <1>5, <1>15 DEF ListCompatible
  <2>2. reported' \ skipped' = reported \ skipped
    BY <1>15 DEF ListCompatible
  <2>3. cur' = Place(NewList, j + 1)
    BY <1>1, <1>7, <2>1, Places DEF Shape, Chain
  <2>4. Progress(j)'
    BY <1>3, <1>7, <1>12, <1>13, <2>1, <2>2, <2>3 DEF Progress, Comparing
  <2>5. j \in Seen .. Len(NewList) BY <1>1, <1>7, Places
  <2>6. QED BY <1>2, <1>11, <2>1, <2>4, <2>5, ListPassed
<1>16. QED BY <1>14, <1>15

\* Between two refreshes there is no new list.
LEMMA NothingNew ==
  ASSUME Shape, Phases, pc[DeviceThread] = "sleep"
  PROVE  Len(NewList) = 0 /\ Seen = 0
<1>1. Place(NewList, 1) = Null BY DEF Phases, Shape, Chain
<1>2. Len(NewList) = 0
  <2>1. ASSUME Len(NewList) # 0 PROVE FALSE
    <3>1. 1 \in 1 .. Len(NewList) BY <2>1, ListParts
    <3>2. NewList[1] \in Node /\ NewList[1] = Null
      BY <1>1, <3>1, ListParts DEF Place
    <3>3. QED BY <3>2 DEF Node, Null
  <2>2. QED BY <2>1
<1>3. QED BY <1>2 DEF Shape

\* The new list of a refresh, its last node allocated first.
Fetched(count) == [k \in 1 .. count |-> allocated + count + 1 - k]

LEMMA RefreshParts ==
  ASSUME LockInv, TypeOK, ListInv, NEW present \in SUBSET Dev, Refresh(present)
  PROVE  /\ Cardinality(present) \in Nat
         /\ allocated' = allocated + Cardinality(present)
         /\ allocated' <= MaxNodes
         /\ NewList' = Fetched(Cardinality(present)) /\ Seen' = 0
         /\ Len(NewList') = Cardinality(present)
         /\ Elements(NewList') = allocated + 1 .. allocated'
         /\ Shape'
         /\ \A n \in Node \ Elements(NewList') : node'[n] = node[n]
         /\ \A i \in 1 .. Len(NewList') : node'[NewList'[i]].dev \in Dev
         /\ \A i, j \in 1 .. Len(NewList') :
              node'[NewList'[i]].dev = node'[NewList'[j]].dev => i = j
         /\ \A i \in 1 .. Len(NewList') :
              /\ node'[NewList'[i]].reg = Null
              /\ node'[NewList'[i]].registered # "yes"
<1> DEFINE count == Cardinality(present)
           added == allocated + 1 .. allocated + count
           s == Fetched(count)
<1>1. count \in Nat BY PresentCount
<1>2. allocated \in Nat /\ allocated + count <= MaxNodes /\ MaxNodes \in Nat
      /\ allocated' = allocated + count
  BY WinAssumption DEF Refresh, TypeOK
<1>3. /\ next' = [n \in Node |-> IF n \in added \ {allocated + 1} THEN n - 1
                                 ELSE next[n]]
      /\ new' = IF count = 0 THEN Null ELSE allocated + count
      /\ part' = new' /\ prev' = new' /\ pc[DeviceThread] = "sleep"
  BY DEF Refresh, At
<1>4. PICK f \in [added -> present] :
        /\ \A a, b \in added : f[a] = f[b] => a = b
        /\ node' = [n \in Node |-> IF n \in added THEN Fresh(f[n])
                                   ELSE node[n]]
  BY DEF Refresh
<1>5. \A n \in Node : next[n] = Null BY <1>3 DEF ListInv, Phases
<1> HIDE DEF count
<1>6. \A k \in 1 .. count : allocated + count + 1 - k \in added
  BY <1>1, <1>2
<1>7. \A n \in added : n \in Node BY <1>1, <1>2 DEF Node
<1>8. s \in Seq(Node) /\ Len(s) = count
      /\ \A k \in 1 .. count : s[k] = allocated + count + 1 - k
  BY <1>1, <1>6, <1>7 DEF Fetched
<1> HIDE DEF s
<1>9. Distinct(s) BY <1>1, <1>2, <1>8 DEF Distinct
<1>10. Elements(s) = added
  <2>1. \A n \in added : /\ allocated + count + 1 - n \in 1 .. count
                         /\ allocated + count + 1 - (allocated + count + 1 - n)
                              = n
    BY <1>1, <1>2
  <2>2. QED BY <1>6, <1>8, <2>1 DEF Elements
<1>11. new' = Place(s, 1)
  BY <1>1, <1>2, <1>3, <1>8 DEF Place, Null
<1>12. Chain(next', new', s, Node)
  <2>1. ASSUME NEW k \in 1 .. Len(s)
        PROVE  next'[s[k]] = Place(s, k + 1)
    <3>1. k \in 1 .. count /\ s[k] = allocated + count + 1 - k
          /\ s[k] \in added /\ s[k] \in Node
      BY <1>6, <1>7, <1>8
    <3>2. CASE k = count
      <4>1. s[k] = allocated + 1 BY <1>1, <1>2, <3>1, <3>2
      <4>2. Place(s, k + 1) = 0 BY <1>1, <1>8, <3>2 DEF Place
      <4>3. next'[s[k]] = next[s[k]] BY <1>3, <3>1, <4>1
      <4>4. QED BY <1>5, <3>1, <4>2, <4>3 DEF Null
    <3>3. CASE k # count
      <4>1. k + 1 \in 1 .. count BY <1>1, <3>1, <3>3
      <4>2. s[k] # allocated + 1 BY <1>1, <1>2, <3>1, <3>3
      <4>3. next'[s[k]] = s[k] - 1 BY <1>3, <3>1, <4>2
      <4>4. s[k + 1] = s[k] - 1 BY <1>1, <1>2, <1>8, <3>1, <4>1
      <4>5. QED BY <1>8, <4>1, <4>3, <4>4 DEF Place
    <3>4. QED BY <3>2, <3>3
  <2>2. QED BY <1>8, <1>9, <1>11, <2>1 DEF Chain
<1>13. NewList' = s /\ Seen' = 0
  <2>1. 0 \in 0 .. Len(s) /\ part' = Place(s, 0 + 1)
    BY <1>1, <1>3, <1>8, <1>11
  <2>2. /\ Linked(next', new', MaxNodes) = s
        /\ Linked(next', part', MaxNodes) = Rest(s, 0 + 1)
        /\ Len(Rest(s, 0 + 1)) = Len(s) - 0
    BY <1>12, <2>1, WalkIs
  <2>3. QED BY <1>1, <1>8, <2>2 DEF NewList, Seen, Walk
<1>14. Shape'
  <2>1. Elements(s) = allocated' + 1 - Len(s) .. allocated'
    BY <1>1, <1>2, <1>8, <1>10
  <2>2. 0 \in 0 .. Len(s) /\ part' = Place(s, 0 + 1) /\ Len(s) <= allocated'
    BY <1>1, <1>2, <1>3, <1>8, <1>11
  <2>3. QED BY <1>3, <1>11, <1>12, <1>13, <2>1, <2>2 DEF Shape
<1>15. \A i \in 1 .. Len(s) :
         s[i] \in added /\ s[i] \in Node /\ node'[s[i]] = Fresh(f[s[i]])
  BY <1>4, <1>6, <1>7, <1>8
<1>16. \A n \in Node \ added : node'[n] = node[n] BY <1>4
<1>17. \A i \in 1 .. Len(s) :
         /\ node'[s[i]].dev = f[s[i]]
         /\ f[s[i]] \in Dev
         /\ node'[s[i]].reg = Null
         /\ node'[s[i]].registered = "unset"
  <2>1. \A n \in added : f[n] \in Dev OBVIOUS
  <2>2. \A d : /\ Fresh(d).dev = d /\ Fresh(d).reg = Null
               /\ Fresh(d).registered = "unset"
    BY DEF Fresh
  <2>3. QED BY <1>15, <2>1, <2>2
<1>18. \A i, j \in 1 .. Len(s) :
         node'[s[i]].dev = node'[s[j]].dev => i = j
  <2> TAKE i, j \in 1 .. Len(s)
  <2> HAVE node'[s[i]].dev = node'[s[j]].dev
  <2>1. f[s[i]] = f[s[j]] BY <1>17
  <2>2. s[i] = s[j] BY <1>4, <1>15, <2>1
  <2>3. QED BY <1>9, <2>2 DEF Distinct
<1>19. \A i \in 1 .. Len(s) : node'[s[i]].registered # "yes"
  BY <1>17
<1>20. QED
  BY <1>1, <1>2, <1>8, <1>10, <1>13, <1>14, <1>16, <1>17, <1>18, <1>19
  DEF count, s

LEMMA ListRefresh ==
  ASSUME LockInv, TypeOK, ListInv, Knowing, NEW present \in SUBSET Dev, Refresh(present)
  PROVE  ListInv'
<1>1. Shape /\ Older /\ Phases BY DEF ListInv
<1>2. /\ pc[DeviceThread] = "sleep" /\ refp' = 1
      /\ UNCHANGED <<ref, freed, reported, skipped>>
  BY DEF Refresh, At, history, lists
<1>3. pc'[DeviceThread] = "match"
  BY Threads DEF Refresh, Goto, LockInv, Placed
<1>4. Len(NewList) = 0 /\ Seen = 0 BY <1>1, <1>2, NothingNew
<1>5. Len(NewList') \in Nat /\ allocated' = allocated + Len(NewList')
      /\ Elements(NewList') = allocated + 1 .. allocated'
  BY RefreshParts
<1>6. Elements(ref) \cup freed \subseteq 1 .. allocated /\ allocated \in Nat
  BY <1>1, <1>4, Places DEF Older
<1>7. Older'
  <2>1. allocated' - Len(NewList') = allocated BY <1>5, <1>6
  <2>2. QED BY <1>1, <1>2, <1>6, <2>1 DEF Older
<1>8. Phases'
  <2>1. Len(ref) \in Nat BY <1>1, Places
  <2>2. QED BY <1>2, <1>3, <2>1 DEF Phases, Comparing
<1>9. Split' BY <1>2, RefreshParts DEF Split
<1>10. \A k \in 1 .. Len(ref) : node'[ref[k]].dev = node[ref[k]].dev
  <2> TAKE k \in 1 .. Len(ref)
  <2>1. ref[k] \in 1 .. allocated BY <1>6 DEF Elements
  <2>2. ref[k] \notin Elements(NewList') BY <1>5, <1>6, <2>1
  <2>3. ref[k] \in Node BY <1>1, Places
  <2>4. QED BY <2>2, <2>3, RefreshParts
<1>11. Progress(0)'
  <2>1. PICK j \in Seen .. Len(NewList) : Progress(j)
    BY DEF ListInv, Progressing
  <2>2. j = 0 BY <1>4, <2>1
  <2>3. refp = 1 BY <1>1, <1>2 DEF Phases
  <2>4. \A d \in reported \ skipped :
          \E k \in 1 .. Len(ref) : node'[ref[k]].dev = d
    BY <1>10, <2>1, <2>2, <2>3 DEF Progress
  <2>5. Seen' = 0
        /\ \A i \in 0 + 1 .. Len(NewList') : node'[NewList'[i]].reg = Null
    BY RefreshParts
  <2>6. \A i \in 0 + 1 .. Len(NewList') : NewList'[i] \notin Known'
    <3>1. ~List /\ ~Swap BY <1>2 DEF List, Swap, At
    <3>2. KnownKept BY <3>1, KnownDevice DEF Device
    <3>3. \A i \in 1 .. Len(NewList') : NewList'[i] \in Elements(NewList')
      BY DEF Elements
    <3>4. \A x \in Known' : x \in 0 .. allocated
      BY <1>6, <3>2 DEF KnownKept, Knowing, Null
    <3>5. QED BY <1>5, <1>6, <3>3, <3>4
  <2>7. QED BY <1>2, <1>3, <2>4, <2>5, <2>6 DEF Progress, Comparing
<1>12. Progressing'
  <2>1. 0 \in Seen' .. Len(NewList') BY <1>5, RefreshParts
  <2>2. QED BY <1>11, <2>1 DEF Progressing
<1>13. Unplugging' BY <1>3 DEF Unplugging
<1>14. QED
  BY <1>7, <1>8, <1>9, <1>12, <1>13, RefreshParts DEF ListInv

\* Moving the node found to the front.
LEMMA MatchParts ==
  ASSUME TypeOK, ListInv, Match
  PROVE  \E k \in Seen + 1 .. Len(NewList) :
           /\ k \in 1 .. Len(NewList)
           /\ refp \in 1 .. Len(ref) /\ ref[refp] \in Node
           /\ node[NewList[k]].dev = node[ref[refp]].dev
           /\ Writes(NewList[k])
           /\ node'[NewList[k]].reg =
                IF node[ref[refp]].reg # Null THEN node[ref[refp]].reg
                ELSE node[NewList[k]].reg
           /\ node'[NewList[k]].registered = node[ref[refp]].registered
           /\ NewList' = Moved(NewList, k) /\ Seen' = Seen + 1
           /\ Shape'
           /\ NewList' \in Seq(Node) /\ Len(NewList') = Len(NewList)
           /\ Distinct(NewList') /\ Elements(NewList') = Elements(NewList)
           /\ NewList'[1] = NewList[k]
           /\ \A i \in 2 .. Seen + 1 :
                i - 1 \in 1 .. Seen /\ NewList'[i] = NewList[i - 1]
           /\ \A i \in Seen + 2 .. Len(NewList) :
                \E h \in Seen + 1 .. Len(NewList) :
                  h # k /\ NewList'[i] = NewList[h]
<1>0. Shape BY DEF ListInv
<1> DEFINE n == ref[refp]
           s == NewList
           k == Seen + FoundAt(n)
           m == Found(n)
           w == Moved(s, k)
<1>1. refp \in 1 .. Len(ref) /\ n \in Node
  BY <1>0, Places DEF Match
<1>2. Matching(n) # {} /\ TakeOver(n, m) /\ MoveUp(m, Before(n))
      /\ allocated' = allocated
  BY DEF Match
<1> HIDE DEF n
<1>3. /\ k \in Seen + 1 .. Len(s) /\ m = s[k] /\ m \in Node
      /\ node[m].dev = node[n].dev
      /\ m = part <=> k = Seen + 1
      /\ m = new <=> k = 1
      /\ k # 1 => Before(n) = s[k - 1]
  <2>1. FoundAt(n) \in Nat /\ Seen \in Nat
    BY <1>0, <1>1, <1>2, MatchFacts, Places
  <2>2. FoundAt(n) = 1 <=> k = Seen + 1 BY <2>1
  <2>3. /\ k \in Seen + 1 .. Len(NewList) /\ m = NewList[k] /\ m \in Node
        /\ node[m].dev = node[n].dev
    BY <1>0, <1>1, <1>2, MatchFacts
  <2>4. m = part <=> FoundAt(n) = 1 BY <1>0, <1>1, <1>2, MatchFacts
  <2>5. m = new <=> k = 1 BY <1>0, <1>1, <1>2, MatchFacts
  <2>6. k # 1 => Before(n) = NewList[k - 1]
    <3>1. Seen + FoundAt(n) # 1 =>
            Before(n) = NewList[Seen + FoundAt(n) - 1]
      BY <1>0, <1>1, <1>2, MatchFacts
    <3>2. QED BY <2>1, <3>1 DEF k
  <2> HIDE DEF k, m
  <2>7. QED BY <2>2, <2>3, <2>4, <2>5, <2>6
<1> HIDE DEF k, m
<1>4. /\ s \in Seq(Node) /\ Len(s) \in Nat /\ Distinct(s)
      /\ Seen \in Nat /\ Seen <= Len(s)
      /\ \A q \in 1 .. Len(s) : s[q] \in Node
  BY <1>0, ListParts DEF Shape
<1>5. k \in 1 .. Len(s) /\ k \in Nat /\ k >= Seen + 1 /\ k <= Len(s)
  BY <1>3, <1>4
<1>6. /\ Chain(next, new, s, Node) /\ part = Place(s, Seen + 1)
      /\ prev = Place(s, IF Seen = 0 THEN 1 ELSE Seen)
      /\ Len(s) <= allocated
      /\ Elements(s) = allocated + 1 - Len(s) .. allocated
  BY <1>0 DEF Shape
<1> HIDE DEF s
<1>7. /\ w \in Seq(Node) /\ Len(w) = Len(s) /\ Distinct(w)
      /\ Elements(w) = Elements(s)
      /\ \A q \in 1 .. Len(s) :
           w[q] = IF q = 1 THEN s[k] ELSE IF q <= k THEN s[q - 1] ELSE s[q]
  BY <1>4, <1>5, MovedSeq
<1>8. new = s[1] BY <1>5, <1>6 DEF Chain, Place
<1>9. part = s[Seen + 1] /\ Seen + 1 \in 1 .. Len(s)
  BY <1>4, <1>5, <1>6 DEF Place
<1>10. Chain(next', new', w, Node)
  <2>1. CASE k = 1
    <3>1. next' = next /\ new' = new BY <1>2, <1>3, <2>1 DEF MoveUp
    <3>2. w = s
      <4>1. \A q \in 1 .. Len(s) : w[q] = s[q] BY <1>5, <1>7, <2>1
      <4>2. QED BY <1>4, <1>7, <4>1
    <3>3. QED BY <1>6, <3>1, <3>2
  <2>2. CASE k # 1
    <3>1. k \in 2 .. Len(s) BY <1>5, <2>2
    <3>2. next' = [next EXCEPT ![s[k - 1]] = next[s[k]], ![s[k]] = new]
          /\ new' = s[k]
      BY <1>2, <1>3, <2>2 DEF MoveUp
    <3>3. next \in [Node -> Id] BY DEF TypeOK
    <3> HIDE DEF w
    <3>4. Chain(next', s[k], Moved(s, k), Node)
      BY <1>6, <3>1, <3>2, <3>3, ChainMoved
    <3>5. QED BY <3>2, <3>4 DEF w
  <2>3. QED BY <2>1, <2>2
<1> HIDE DEF w
<1>11. part' = Place(w, Seen + 1 + 1)
  <2>1. CASE k = Seen + 1
    <3>1. part' = next[s[k]] BY <1>2, <1>3, <2>1 DEF MoveUp
    <3>2. next[s[k]] = Place(s, k + 1) BY <1>5, <1>6 DEF Chain
    <3>3. k + 1 <= Len(s) => w[k + 1] = s[k + 1]
      <4> SUFFICES ASSUME k + 1 <= Len(s) PROVE w[k + 1] = s[k + 1]
        OBVIOUS
      <4>1. k + 1 \in 1 .. Len(s) /\ k + 1 # 1 /\ ~(k + 1 <= k) BY <1>5
      <4>2. QED BY <1>7, <4>1
    <3>4. QED BY <1>7, <2>1, <3>1, <3>2, <3>3 DEF Place
  <2>2. CASE k # Seen + 1
    <3>1. part' = s[Seen + 1] BY <1>2, <1>3, <1>9, <2>2 DEF MoveUp
    <3>2. /\ Seen + 2 \in 1 .. Len(s) /\ Seen + 2 # 1 /\ Seen + 2 <= k
          /\ Seen + 2 - 1 = Seen + 1 /\ Seen + 1 + 1 = Seen + 2
      BY <1>4, <1>5, <2>2
    <3>3. w[Seen + 2] = s[Seen + 2 - 1] BY <1>4, <1>5, <1>7, <3>2
    <3>4. Seen + 2 <= Len(w) BY <1>4, <1>7, <3>2
    <3>5. w[Seen + 2] = s[Seen + 1] BY <3>2, <3>3
    <3>6. QED BY <3>1, <3>2, <3>4, <3>5 DEF Place
  <2>3. QED BY <2>1, <2>2
<1>12. prev' = Place(w, Seen + 1)
  <2>1. Seen + 1 <= Len(w) BY <1>7, <1>9
  <2>2. CASE Seen = 0
    <3>1. prev = s[1] BY <1>4, <1>6, <1>9, <2>2 DEF Place
    <3>2. part = s[1] BY <1>9, <2>2
    <3>3. prev' = m
      BY <1>2, <1>3, <2>2, <3>1, <3>2 DEF MoveUp
    <3>4. w[1] = s[k] BY <1>7, <1>9, <2>2
    <3>5. QED BY <1>3, <2>1, <2>2, <3>3, <3>4 DEF Place
  <2>3. CASE Seen # 0
    <3>1. Seen \in 1 .. Len(s) /\ Seen # Seen + 1 BY <1>4, <2>3
    <3>2. prev = s[Seen] BY <1>6, <2>3, <3>1 DEF Place
    <3>3. prev # part BY <1>4, <1>9, <3>1, <3>2 DEF Distinct
    <3>4. k = Seen + 1 => k # 1 BY <1>4, <2>3
    <3>5. prev' = prev
      BY <1>2, <1>3, <3>3, <3>4 DEF MoveUp
    <3>6. Seen + 1 # 1 /\ Seen + 1 <= k /\ Seen + 1 - 1 = Seen
      BY <1>4, <1>5, <2>3
    <3>7. w[Seen + 1] = s[Seen + 1 - 1]
      BY <1>4, <1>5, <1>7, <1>9, <3>6
    <3>8. w[Seen + 1] = s[Seen] BY <3>6, <3>7
    <3>9. QED BY <2>1, <3>2, <3>5, <3>8 DEF Place
  <2>4. QED BY <2>2, <2>3
<1>13. Seen + 1 \in 0 .. Len(w) BY <1>4, <1>7, <1>9
<1>14. NewList' = w /\ Seen' = Seen + 1
  <2>1. /\ Linked(next', new', MaxNodes) = w
        /\ Linked(next', part', MaxNodes) = Rest(w, Seen + 1 + 1)
        /\ Len(Rest(w, Seen + 1 + 1)) = Len(w) - (Seen + 1)
    BY <1>10, <1>11, <1>13, WalkIs
  <2>2. Len(w) - (Len(w) - (Seen + 1)) = Seen + 1 BY <1>4, <1>7
  <2>3. NewList' = w /\ Walk(part)' = Rest(w, Seen + 1 + 1)
    BY <2>1 DEF NewList, Walk
  <2>4. QED BY <2>1, <2>2, <2>3 DEF Seen
<1>15. Shape'
  <2>1. Seen + 1 # 0 BY <1>4
  <2>2. QED
    BY <1>2, <1>6, <1>7, <1>10, <1>11, <1>12, <1>13, <1>14, <2>1 DEF Shape
<1>16. \A i \in 2 .. Seen + 1 : i - 1 \in 1 .. Seen /\ w[i] = s[i - 1]
  BY <1>4, <1>5, <1>7
<1>17. ASSUME NEW i \in Seen + 2 .. Len(s)
       PROVE  \E h \in Seen + 1 .. Len(s) : h # k /\ w[i] = s[h]
  <2>1. i \in 1 .. Len(s) /\ i # 1 /\ i >= Seen + 2 BY <1>4
  <2>2. CASE i <= k
    <3>1. w[i] = s[i - 1] BY <1>7, <2>1, <2>2
    <3>2. i - 1 \in Seen + 1 .. Len(s) /\ i - 1 # k
      BY <1>4, <1>5, <2>1, <2>2
    <3>3. QED BY <3>1, <3>2
  <2>3. CASE ~(i <= k)
    <3>1. w[i] = s[i] BY <1>7, <2>1, <2>3
    <3>2. i \in Seen + 1 .. Len(s) /\ i # k BY <1>4, <1>5, <2>1, <2>3
    <3>3. QED BY <3>1, <3>2
  <2>4. QED BY <2>2, <2>3
<1>18. w[1] = s[k]
  <2>1. 1 \in 1 .. Len(s) BY <1>5
  <2>2. QED BY <1>7, <2>1
<1>19. /\ Writes(m)
       /\ node'[m].reg = IF node[n].reg # Null THEN node[n].reg ELSE node[m].reg
       /\ node'[m].registered = node[n].registered
  <2>1. node \in [Node -> NodeType] BY DEF TypeOK, NodeType
  <2>2. QED BY <1>1, <1>2, <1>3, <2>1, TakeOverWrites
<1>20. /\ k \in Seen + 1 .. Len(s) /\ k \in 1 .. Len(s)
       /\ refp \in 1 .. Len(ref) /\ n \in Node
       /\ node[s[k]].dev = node[n].dev
       /\ Writes(s[k])
       /\ node'[s[k]].reg =
            IF node[n].reg # Null THEN node[n].reg ELSE node[s[k]].reg
       /\ node'[s[k]].registered = node[n].registered
       /\ NewList' = Moved(s, k) /\ Seen' = Seen + 1 /\ Shape'
       /\ NewList' \in Seq(Node) /\ Len(NewList') = Len(s)
       /\ Distinct(NewList') /\ Elements(NewList') = Elements(s)
       /\ NewList'[1] = s[k]
  BY <1>1, <1>3, <1>5, <1>7, <1>14, <1>15, <1>18, <1>19 DEF w
<1>21. /\ \A i \in 2 .. Seen + 1 :
            i - 1 \in 1 .. Seen /\ NewList'[i] = s[i - 1]
       /\ \A i \in Seen + 2 .. Len(s) :
            \E h \in Seen + 1 .. Len(s) : h # k /\ NewList'[i] = s[h]
  BY <1>14, <1>16, <1>17
<1>22. QED BY <1>20, <1>21 DEF s, n

LEMMA ListMatch ==
  ASSUME LockInv, TypeOK, ListInv, Match
  PROVE  ListInv'
<1>0. Shape /\ Older /\ Phases /\ Split BY DEF ListInv
<1> DEFINE n == ref[refp]
           s == NewList
           w == NewList'
<1>1. PICK k \in Seen + 1 .. Len(s) :
        /\ k \in 1 .. Len(s)
        /\ refp \in 1 .. Len(ref) /\ n \in Node
        /\ node[s[k]].dev = node[n].dev
        /\ Writes(s[k])
        /\ NewList' = Moved(s, k) /\ Seen' = Seen + 1 /\ Shape'
        /\ Len(w) = Len(s) /\ Distinct(w) /\ Elements(w) = Elements(s)
        /\ w[1] = s[k]
        /\ \A i \in 2 .. Seen + 1 : i - 1 \in 1 .. Seen /\ w[i] = s[i - 1]
        /\ \A i \in Seen + 2 .. Len(s) :
             \E h \in Seen + 1 .. Len(s) : h # k /\ w[i] = s[h]
  BY MatchParts
<1>2. /\ UNCHANGED <<ref, allocated, freed, reported, skipped, pc>>
      /\ refp' = refp + 1 /\ pc[DeviceThread] = "match"
  BY DEF Match, At, history
<1>3. /\ Len(s) \in Nat /\ Seen \in Nat /\ Seen <= Len(s)
      /\ refp \in Nat /\ Len(ref) \in Nat /\ Distinct(s)
      /\ \A i \in 1 .. Len(s) : s[i] \in Node
      /\ \A q \in 1 .. Len(ref) : ref[q] \in Node
  BY <1>0, Places, ListParts
<1>4. k \in Nat /\ k >= Seen + 1 /\ k <= Len(s) BY <1>1, <1>3
<1>5. SameDevs BY <1>1 DEF SameDevs, Writes
<1>6. /\ \A i \in 1 .. Len(s) : node'[s[i]].dev = node[s[i]].dev
      /\ \A q \in 1 .. Len(ref) : node'[ref[q]].dev = node[ref[q]].dev
  BY <1>0, <1>5, DevsKept
<1>7. \A i, j \in 1 .. Len(s) : node[s[i]].dev = node[s[j]].dev => i = j
  BY <1>0 DEF Split
<1> HIDE DEF s, w
<1>8. Older' BY <1>0, <1>1, <1>2 DEF Older, s, w
<1>9. Phases'
  <2>1. refp' \in 1 .. Len(ref') + 1 BY <1>1, <1>2, <1>3
  <2>2. QED BY <1>2, <2>1 DEF Phases, Comparing
<1>10. /\ \A i \in 1 .. Len(w) : \E h \in 1 .. Len(s) : w[i] = s[h]
       /\ \A i \in Seen + 2 .. Len(w) :
            \E h \in Seen + 1 .. Len(s) : h # k /\ w[i] = s[h]
  <2>1. \A i \in 1 .. Len(w) : w[i] \in Elements(w) BY DEF Elements
  <2>2. QED BY <1>1, <2>1 DEF Elements
<1>11. Split'
  <2>1. \A i, j \in 1 .. Len(w) : node'[w[i]].dev = node'[w[j]].dev => i = j
    <3> TAKE i, j \in 1 .. Len(w)
    <3> HAVE node'[w[i]].dev = node'[w[j]].dev
    <3>1. PICK g \in 1 .. Len(s) : w[i] = s[g] BY <1>10
    <3>2. PICK h \in 1 .. Len(s) : w[j] = s[h] BY <1>10
    <3>3. g = h BY <1>6, <1>7, <3>1, <3>2
    <3>4. w[i] = w[j] BY <3>1, <3>2, <3>3
    <3>5. QED BY <1>1, <3>4 DEF Distinct
  <2>2. ASSUME NEW i \in 1 .. Seen + 1
        PROVE  \E q \in 1 .. refp : node'[ref[q]].dev = node'[w[i]].dev
    <3>1. CASE i = 1
      <4>1. refp \in 1 .. refp BY <1>1
      <4>2. node'[n].dev = node'[w[i]].dev BY <1>1, <1>6, <3>1
      <4>3. QED BY <4>1, <4>2
    <3>2. CASE i # 1
      <4>1. i \in 2 .. Seen + 1 BY <1>3, <3>2
      <4>2. i - 1 \in 1 .. Seen /\ i - 1 \in 1 .. Len(s) /\ w[i] = s[i - 1]
        BY <1>1, <1>3, <4>1
      <4>3. PICK q \in 1 .. refp - 1 : node[ref[q]].dev = node[s[i - 1]].dev
        BY <1>0, <4>2 DEF Split, s
      <4>4. q \in 1 .. refp /\ q \in 1 .. Len(ref) BY <1>1, <1>3, <4>3
      <4>5. QED BY <1>6, <4>2, <4>3, <4>4
    <3>3. QED BY <3>1, <3>2
  <2>3. ASSUME NEW i \in Seen + 2 .. Len(w), NEW q \in 1 .. refp
        PROVE  node'[ref[q]].dev # node'[w[i]].dev
    <3>1. PICK h \in Seen + 1 .. Len(s) : h # k /\ w[i] = s[h] BY <1>10
    <3>2. h \in 1 .. Len(s) /\ q \in 1 .. Len(ref) BY <1>1, <1>3, <3>1
    <3>3. node[ref[q]].dev # node[s[h]].dev
      <4>1. CASE q = refp BY <1>1, <1>7, <3>1, <3>2, <4>1
      <4>2. CASE q # refp
        <5>1. q \in 1 .. refp - 1 BY <1>3, <4>2
        <5>2. QED BY <1>0, <3>1, <5>1 DEF Split, s
      <4>3. QED BY <4>1, <4>2
    <3>4. QED BY <1>6, <3>1, <3>2, <3>3
  <2>4. /\ refp' - 1 = refp /\ Seen' = Seen + 1 /\ Seen' + 1 = Seen + 2
        /\ ref' = ref
    BY <1>1, <1>2, <1>3
  <2>5. QED BY <2>1, <2>2, <2>3, <2>4 DEF Split, w
<1>12. PICK c \in Nat : c = Seen + 1 BY <1>3
<1>13. Progress(c)'
  <2>1. PICK j \in Seen .. Len(s) : Progress(j)
    BY DEF ListInv, Progressing, s
  <2>2. j = Seen BY <1>2, <2>1 DEF Progress, Comparing
  <2>3. ASSUME NEW i \in Seen + 2 .. Len(w)
        PROVE  w[i] \notin Known' /\ node'[w[i]].reg = Null
    <3>1. PICK h \in Seen + 1 .. Len(s) : h # k /\ w[i] = s[h] BY <1>10
    <3>2. h \in 1 .. Len(s) /\ s[h] \in Node /\ s[h] # s[k]
      BY <1>1, <1>3, <3>1 DEF Distinct
    <3>3. s[h] \notin Known /\ node[s[h]].reg = Null
      BY <2>1, <2>2, <3>1 DEF Progress, s
    <3>4. ~List /\ ~Swap BY <1>2 DEF List, Swap, At
    <3>5. KnownKept BY <3>4, KnownDevice DEF Device
    <3>6. s[h] # Null BY <3>2 DEF Node, Null
    <3>7. QED BY <1>1, <3>1, <3>2, <3>3, <3>5, <3>6 DEF Writes, KnownKept
  <2>4. ASSUME NEW d \in reported \ skipped
        PROVE  \/ \E q \in refp + 1 .. Len(ref) : node'[ref[q]].dev = d
               \/ \E i \in 1 .. Seen + 1 : node'[w[i]].dev = d
    <3>1. CASE \E q \in refp .. Len(ref) : node[ref[q]].dev = d
      <4>1. PICK q \in refp .. Len(ref) : node[ref[q]].dev = d BY <3>1
      <4>2. q \in 1 .. Len(ref) BY <1>1, <4>1
      <4>3. CASE q = refp
        <5>1. 1 \in 1 .. Seen + 1 BY <1>3
        <5>2. node'[w[1]].dev = d BY <1>1, <1>6, <4>1, <4>3
        <5>3. QED BY <5>1, <5>2
      <4>4. CASE q # refp
        <5>1. q \in refp + 1 .. Len(ref) BY <1>3, <4>1, <4>4
        <5>2. QED BY <1>6, <4>1, <4>2, <5>1
      <4>5. QED BY <4>3, <4>4
    <3>2. CASE \E i \in 1 .. Seen : node[s[i]].dev = d
      <4>1. PICK i \in 1 .. Seen : node[s[i]].dev = d BY <3>2
      <4>2. i + 1 \in 2 .. Seen + 1 /\ i + 1 \in 1 .. Seen + 1
            /\ i + 1 - 1 = i /\ i \in 1 .. Len(s)
        BY <1>3, <4>1
      <4>3. w[i + 1] = s[i + 1 - 1] BY <1>1, <4>2
      <4>4. w[i + 1] = s[i] BY <4>2, <4>3
      <4>5. QED BY <1>6, <4>1, <4>2, <4>4
    <3>3. QED BY <2>1, <2>2, <3>1, <3>2 DEF Progress, s
  <2>5. c = Seen' /\ c + 1 = Seen + 2 BY <1>1, <1>3, <1>12
  <2>6. QED BY <1>2, <1>12, <2>3, <2>4, <2>5 DEF Progress, Comparing, w
<1>14. Progressing'
  <2>1. c \in Seen' .. Len(w) BY <1>1, <1>3, <1>4, <1>12
  <2>2. QED BY <1>13, <2>1 DEF Progressing, w
<1>15. Unplugging' BY <1>2 DEF Unplugging
<1>16. QED BY <1>1, <1>8, <1>9, <1>11, <1>14, <1>15 DEF ListInv

\* After the lists are exchanged the new one is empty.
LEMMA SwapParts ==
  ASSUME LockInv, TypeOK, ListInv, Swap
  PROVE  /\ NewList' = <<>> /\ Len(NewList') = 0 /\ Seen' = 0
         /\ ref' = NewList /\ refp' = 1 /\ refp = Len(ref) + 1
         /\ Nodes(ref) = Elements(ref)
         /\ freed' = freed \cup Elements(ref)
         /\ pc'[DeviceThread] = "sleep"
         /\ UNCHANGED <<allocated, node, reported, skipped, lost>>
         /\ Shape' /\ Older'
<1>0. Shape /\ Older /\ Phases BY DEF ListInv
<1>1. /\ ref' = NewList /\ refp' = 1
      /\ new' = Null /\ part' = Null /\ prev' = Null
      /\ freed' = freed \cup Nodes(ref)
      /\ UNCHANGED <<allocated, node, reported, skipped, lost>>
      /\ pc[DeviceThread] = "swap"
  BY DEF Swap, At, NewList
<1>2. pc'[DeviceThread] = "sleep"
  BY Threads DEF Swap, Goto, LockInv, Placed
<1>3. refp = Len(ref) + 1 BY <1>0, <1>1 DEF Phases, Comparing
<1>4. Nodes(ref) = Elements(ref)
  BY DEF Nodes, Elements, TypeOK
<1>5. <<>> \in Seq(Node) /\ Len(<<>>) = 0 /\ Distinct(<<>>)
      /\ Place(<<>>, 1) = Null
  BY DEF Distinct, Place, Null
<1>6. Chain(next', Null, <<>>, Node) BY <1>5 DEF Chain
<1>7. NewList' = <<>> /\ Seen' = 0
  <2>1. 0 \in 0 .. Len(<<>>) /\ Null = Place(<<>>, 0 + 1) BY <1>5
  <2>2. /\ Linked(next', Null, MaxNodes) = <<>>
        /\ Linked(next', Null, MaxNodes) = Rest(<<>>, 0 + 1)
    BY <1>6, <2>1, WalkIs
  <2>3. NewList' = <<>> /\ Walk(part)' = <<>>
    BY <1>1, <2>2 DEF NewList, Walk
  <2>4. QED BY <1>5, <2>3 DEF Seen
<1>8. Elements(<<>>) = {} BY <1>5 DEF Elements
<1>9. allocated \in Nat BY <1>0, Places
<1>10. Shape'
  <2>1. Elements(<<>>) = allocated' + 1 - Len(<<>>) .. allocated'
    <3>1. allocated + 1 - 0 .. allocated = {} BY <1>9
    <3>2. allocated' = allocated BY <1>1
    <3>3. QED BY <1>5, <1>8, <3>1, <3>2
  <2>2. 0 \in 0 .. Len(<<>>) /\ Place(<<>>, 0 + 1) = Null
        /\ Len(<<>>) <= allocated'
    BY <1>1, <1>5, <1>9
  <2>3. QED BY <1>1, <1>6, <1>7, <2>1, <2>2 DEF Shape
<1>11. Older'
  <2>1. Elements(NewList) = allocated + 1 - Len(NewList) .. allocated
        /\ Len(NewList) <= allocated /\ Len(NewList) \in Nat
    BY <1>0, Places DEF Shape
  <2>2. Elements(ref) \cup freed \subseteq 1 .. allocated - Len(NewList)
    BY <1>0 DEF Older
  <2>3. Elements(NewList) \cap (Elements(ref) \cup freed) = {}
    BY <1>9, <2>1, <2>2
  <2>4. Elements(NewList) \cup Elements(ref) \cup freed \subseteq 1 .. allocated
    BY <1>9, <2>1, <2>2
  <2>5. allocated' - Len(NewList') = allocated BY <1>1, <1>5, <1>7, <1>9
  <2>6. QED BY <1>1, <1>4, <2>3, <2>4, <2>5 DEF Older
<1>12. QED BY <1>1, <1>2, <1>3, <1>4, <1>5, <1>7, <1>10, <1>11

LEMMA ListSwap ==
  ASSUME LockInv, TypeOK, ListInv, Swap
  PROVE  ListInv'
<1>0. Shape /\ Split BY DEF ListInv
<1>1. /\ Len(NewList') = 0 /\ Seen' = 0
      /\ ref' = NewList /\ refp' = 1 /\ refp = Len(ref) + 1
      /\ pc'[DeviceThread] = "sleep"
      /\ UNCHANGED <<allocated, node, reported, skipped>>
      /\ Shape' /\ Older'
  BY SwapParts
<1>2. Len(NewList) \in Nat /\ Len(ref) \in Nat BY <1>0, Places
<1>3. Phases'
  <2>1. new' = Null /\ part' = Null /\ next' = [n \in Node |-> Null]
    BY DEF Swap
  <2>2. 1 \in 1 .. Len(NewList) + 1 BY <1>2
  <2>3. QED BY <1>1, <2>1, <2>2 DEF Phases, Comparing
<1>4. Split' BY <1>1 DEF Split
<1>5. Progress(0)'
  <2>1. PICK j \in Seen .. Len(NewList) : Progress(j)
    BY DEF ListInv, Progressing
  <2>2. pc[DeviceThread] = "swap" BY DEF Swap, At
  <2>3. j = Len(NewList) BY <2>1, <2>2 DEF Progress
  <2>4. ~ \E k \in refp .. Len(ref) : TRUE BY <1>1, <1>2
  <2>5. \A d \in reported \ skipped :
          \E i \in 1 .. Len(NewList) : node[NewList[i]].dev = d
    BY <2>1, <2>3, <2>4 DEF Progress
  <2>6. QED BY <1>1, <2>5 DEF Progress, Comparing
<1>6. Progressing' BY <1>1, <1>5 DEF Progressing
<1>7. Unplugging' BY <1>1 DEF Unplugging
<1>8. QED BY <1>1, <1>3, <1>4, <1>6, <1>7 DEF ListInv

LEMMA ListInit == Init => ListInv
<1> SUFFICES ASSUME Init PROVE ListInv OBVIOUS
<1>1. /\ new = Null /\ part = Null /\ prev = Null /\ ref = <<>> /\ refp = 1
      /\ allocated = 0 /\ freed = {} /\ reported = {}
      /\ \A n \in Node : next[n] = Null
      /\ pc[DeviceThread] = "sleep"
  BY Threads DEF Init
<1>2. <<>> \in Seq(Node) /\ Len(<<>>) = 0 /\ Distinct(<<>>)
      /\ Place(<<>>, 1) = Null /\ Elements(<<>>) = {}
  BY DEF Distinct, Place, Null, Elements
<1>3. Chain(next, Null, <<>>, Node) BY <1>2 DEF Chain
<1>4. NewList = <<>> /\ Seen = 0
  <2>1. 0 \in 0 .. Len(<<>>) /\ Null = Place(<<>>, 0 + 1) BY <1>2
  <2>2. /\ Linked(next, Null, MaxNodes) = <<>>
        /\ Linked(next, Null, MaxNodes) = Rest(<<>>, 0 + 1)
    BY <1>3, <2>1, WalkIs
  <2>3. NewList = <<>> /\ Walk(part) = <<>>
    BY <1>1, <2>2 DEF NewList, Walk
  <2>4. QED BY <1>2, <2>3 DEF Seen
<1>5. Shape
  <2>1. Elements(<<>>) = allocated + 1 - Len(<<>>) .. allocated
    BY <1>1, <1>2
  <2>2. 0 \in 0 .. Len(<<>>) /\ Place(<<>>, 0 + 1) = Null
        /\ Len(<<>>) <= allocated
    BY <1>1, <1>2
  <2>3. QED BY <1>1, <1>3, <1>4, <2>1, <2>2 DEF Shape
<1>6. Older BY <1>1, <1>2, <1>4 DEF Older
<1>7. Phases BY <1>1 DEF Phases, Comparing
<1>8. Split BY <1>1, <1>4 DEF Split
<1>9. Progress(0) BY <1>1, <1>4 DEF Progress, Comparing
<1>10. Progressing BY <1>4, <1>9 DEF Progressing
<1>11. Unplugging BY <1>1 DEF Unplugging
<1>12. QED BY <1>5, <1>6, <1>7, <1>8, <1>10, <1>11 DEF ListInv

LEMMA ListStep ==
  LockInv /\ TypeOK /\ ListInv /\ Knowing /\ [Next]_vars => ListInv'
<1> SUFFICES ASSUME LockInv, TypeOK, ListInv, Knowing, [Next]_vars
             PROVE  ListInv'
  OBVIOUS
<1>1. CASE UNCHANGED vars
  <2>1. UNCHANGED ListVars /\ node' = node /\ pc' = pc
    BY <1>1 DEF vars, heap, lists, cursors, history, ListVars
  <2>2. SameDevs /\ NoneFilled BY <2>1 DEF SameDevs, NoneFilled
  <2>3. KnownKept
    BY <1>1, KnownSame DEF vars, heap, history
  <2>4. QED BY <2>1, <2>2, <2>3, ListStill DEF ListVars
<1>2. CASE Device
  BY <1>2, ListRefresh, ListMatch, ListUnplug, ListGoes, ListNode, ListSwap
  DEF Device
<1>3. CASE Input BY <1>3, ListInput
<1>4. CASE \E t \in Thread : Calls(t) \/ Answer(t) BY <1>4, ListCalls
<1>5. QED BY <1>1, <1>2, <1>3, <1>4 DEF Next

\* What is known of was allocated.
LEMMA KnowingStep ==
  TypeOK /\ ListInv /\ Knowing /\ [Next]_vars => Knowing'
<1> SUFFICES ASSUME TypeOK, ListInv, Knowing, [Next]_vars PROVE Knowing'
  OBVIOUS
<1>1. Shape /\ allocated \in Nat BY Places DEF ListInv
<1>2. allocated' \in Nat /\ allocated <= allocated'
  <2>1. CASE \E present \in SUBSET Dev : Refresh(present)
    BY <1>1, <2>1, PresentCount DEF Refresh
  <2>2. CASE ~ \E present \in SUBSET Dev : Refresh(present)
    <3>1. allocated' = allocated
      BY <2>2
      DEF vars, Next, Device, Match, ReportUnplugged, Missing, SkipUnplugged,
          UnplugReported, Matched, Relist, List, ListCompatible, Reported,
          Listed, Swap, Input, InputLock, InputPoll, InputReported,
          InputUnlock, Calls, Call, Reenumerate, Answer, RegisterAdd,
          RegisterAddLink, RegisterDel, Query, Effect, Return, heap
    <3>2. QED BY <1>1, <3>1
  <2>3. QED BY <2>1, <2>2
<1>3. Elements(NewList) \subseteq 1 .. allocated
  BY <1>1, Places DEF Shape
<1>4. Known' \subseteq Known \cup {Null} \cup 1 .. allocated
  <2>1. CASE UNCHANGED vars
    BY <2>1, KnownSame DEF vars, heap, history, KnownKept
  <2>2. CASE Device
    <3>1. List => cur \in 1 .. allocated
      <4> SUFFICES ASSUME List PROVE cur \in 1 .. allocated
        OBVIOUS
      <4>1. PICK j \in Seen .. Len(NewList) : Progress(j)
        BY DEF ListInv, Progressing
      <4>2. cur = Place(NewList, j + 1) /\ cur # Null
        BY <4>1 DEF List, Progress, At
      <4>3. j + 1 \in 1 .. Len(NewList) /\ cur = NewList[j + 1]
        BY <1>1, <4>1, <4>2, Places DEF Place, Null
      <4>4. QED BY <1>3, <4>3 DEF Elements
    <3>2. QED BY <1>3, <2>2, <3>1, KnownDevice DEF KnownKept
  <2>3. CASE Input BY <2>3, KnownInput DEF KnownKept
  <2>4. CASE \E t \in Thread : Calls(t) \/ Answer(t)
    BY <1>1, <2>4, KnownCalls DEF KnownKept
  <2>5. QED BY <2>1, <2>2, <2>3, <2>4 DEF Next
<1>5. \A x \in 0 .. allocated : x \in 0 .. allocated' BY <1>1, <1>2
<1>6. Null \in 0 .. allocated /\ 1 .. allocated \subseteq 0 .. allocated
  BY <1>1 DEF Null
<1>7. QED BY <1>4, <1>5, <1>6 DEF Knowing

LEMMA KnowingInit == Init => Knowing
<1> SUFFICES ASSUME Init PROVE Knowing OBVIOUS
<1>1. /\ told = {} /\ allocated = 0
      /\ \A n \in Node : node[n].id = Null
      /\ \A r \in Reg : entry[r] = Null
      /\ \A t \in Thread : call[t].id = Null
  BY DEF Init, Fresh, NoCall
<1>2. QED BY <1>1 DEF Knowing, Known, Null

-----------------------------------------------------------------------------
(* What the lists are for.                                                 *)

WalkInv == LockInv /\ TypeOK /\ ListInv /\ Knowing

LEMMA WalkInvariant == Spec => []WalkInv
<1>1. Init => WalkInv
  BY LockInit, TypeInit, ListInit, KnowingInit DEF WalkInv
<1>2. WalkInv /\ [Next]_vars => WalkInv'
  BY LockStep, TypeStep, ListStep, KnowingStep DEF WalkInv
<1>3. QED BY <1>1, <1>2, PTL DEF Spec

\* Every variable keeps its type, for any devices, calls and bounds.
THEOREM TypeCorrect == Spec => []TypeOK
<1>1. WalkInv => TypeOK BY DEF WalkInv
<1>2. QED BY <1>1, WalkInvariant, PTL

\* For any devices, moving the nodes that were found to the front leaves the
\* new list with every device once: first those that were there before, then
\* those that were not (win_helpers.c:244 to 330).
THEOREM SplitByReference == Spec => []Partitioned
<1>1. WalkInv => Partitioned
  <2> SUFFICES ASSUME WalkInv,
                      pc[DeviceThread] \in
                        {"relist", "relisted", "list", "listed", "swap"}
               PROVE  LET front == Front
                          back == Nodes(Walk(part))
                          old == {node[n].dev : n \in Nodes(ref)}
                      IN
                      /\ front \cup back =
                           allocated + 1 - Cardinality(front \cup back)
                             .. allocated
                      /\ Len(Walk(new)) = Cardinality(front) + Cardinality(back)
                      /\ \A n \in front : node[n].dev \in old
                      /\ \A n \in back : node[n].dev \notin old
    BY DEF Partitioned
  <2> DEFINE front == {NewList[i] : i \in 1 .. Seen}
             back == {NewList[i] : i \in Seen + 1 .. Len(NewList)}
             old == {node[n].dev : n \in Nodes(ref)}
  <2>1. TypeOK /\ Shape /\ Phases /\ Split BY DEF WalkInv, ListInv
  <2>2. /\ NewList \in Seq(Node) /\ Len(NewList) \in Nat /\ Distinct(NewList)
        /\ Seen \in Nat /\ Seen <= Len(NewList)
        /\ Len(ref) \in Nat
    BY <2>1, Places, ListParts
  <2>3. refp = Len(ref) + 1 BY <2>1 DEF Phases, Comparing
  <2>4. Front = front /\ Nodes(Walk(part)) = back BY <2>1, FrontIs
  <2>5. /\ IsFiniteSet(Elements(NewList))
        /\ Cardinality(Elements(NewList)) = Len(NewList)
    BY <2>2, ElementsCount
  <2>6. front \cup back = Elements(NewList)
    <3>1. \A i \in 1 .. Len(NewList) :
            i \in 1 .. Seen \/ i \in Seen + 1 .. Len(NewList)
      BY <2>2
    <3>2. /\ \A i \in 1 .. Seen : i \in 1 .. Len(NewList)
          /\ \A i \in Seen + 1 .. Len(NewList) : i \in 1 .. Len(NewList)
      BY <2>2
    <3>3. QED BY <3>1, <3>2 DEF Elements
  <2>7. front \cap back = {}
    <3>1. \A i \in 1 .. Seen, j \in Seen + 1 .. Len(NewList) :
            i \in 1 .. Len(NewList) /\ j \in 1 .. Len(NewList) /\ i # j
      BY <2>2
    <3>2. \A i \in 1 .. Seen, j \in Seen + 1 .. Len(NewList) :
            NewList[i] # NewList[j]
      BY <2>2, <3>1 DEF Distinct
    <3>3. QED BY <3>2
  <2> HIDE DEF front, back
  <2>8. Cardinality(front) + Cardinality(back) = Len(NewList)
    <3>1. IsFiniteSet(front) /\ IsFiniteSet(back)
      BY <2>5, <2>6, FS_Subset
    <3>2. Cardinality(front) \in Nat /\ Cardinality(back) \in Nat
      BY <3>1, FS_CardinalityType
    <3>3. Cardinality(front \cup back) =
            Cardinality(front) + Cardinality(back) - Cardinality(front \cap back)
      BY <3>1, FS_Union
    <3>4. Cardinality(front \cap back) = 0 BY <2>7, FS_EmptySet
    <3>5. Cardinality(front \cup back) = Len(NewList) BY <2>5, <2>6
    <3>6. QED BY <3>2, <3>3, <3>4, <3>5
  <2>9. Elements(NewList) = allocated + 1 - Len(NewList) .. allocated
    BY <2>1 DEF Shape
  <2>10. old = {node[ref[k]].dev : k \in 1 .. Len(ref)}
    <3>1. DOMAIN ref = 1 .. Len(ref) BY <2>1 DEF TypeOK
    <3>2. QED BY <3>1 DEF Nodes
  <2>11. 1 .. refp - 1 = 1 .. Len(ref) BY <2>2, <2>3
  <2> HIDE DEF old
  <2>12. \A n \in front : node[n].dev \in old
    <3>1. \A i \in 1 .. Seen :
            \E k \in 1 .. Len(ref) : node[ref[k]].dev = node[NewList[i]].dev
      BY <2>1, <2>11 DEF Split
    <3>2. QED BY <2>10, <3>1 DEF front
  <2>13. \A n \in back : node[n].dev \notin old
    <3>1. \A i \in Seen + 1 .. Len(NewList), k \in 1 .. Len(ref) :
            node[ref[k]].dev # node[NewList[i]].dev
      BY <2>1, <2>11 DEF Split
    <3>2. QED BY <2>10, <3>1 DEF back
  <2>14. Len(Walk(new)) = Len(NewList) BY DEF NewList
  <2>15. front \cup back = allocated + 1 - Cardinality(front \cup back)
                             .. allocated
    BY <2>5, <2>6, <2>9
  <2>16. QED
    BY <2>4, <2>8, <2>12, <2>13, <2>14, <2>15 DEF old
<1>2. QED BY <1>1, WalkInvariant, PTL

\* For any devices, calls and bounds, one that stays is reported as plugged once
\* (win_helpers.c:244 to 420).
THEOREM StaysReportedOnce == Spec => ReportedOnce
<1> DEFINE Once ==
      \A d \in Dev : d \in reported /\ pc'[DeviceThread] = "listed"
                        /\ pc[DeviceThread] = "list" /\ node[cur].dev = d
                        => d \in skipped
<1>1. WalkInv /\ [Next]_vars => [Once]_vars
  <2> SUFFICES ASSUME WalkInv, pc[DeviceThread] = "list", cur \in Node,
                      NEW d \in Dev, d \in reported \ skipped,
                      node[cur].dev = d
               PROVE  FALSE
    <3>1. ASSUME WalkInv, Next, pc[DeviceThread] = "list",
                 pc'[DeviceThread] = "listed"
          PROVE  cur \in Node
      <4>1. DeviceThread # InputThread /\ DeviceThread \in Thread
            /\ DOMAIN pc = Thread
        BY <3>1, Threads DEF WalkInv, LockInv, Placed
      <4>2. List
        <5>1. CASE Device
          BY <3>1, <4>1, <5>1
          DEF Device, Refresh, Match, ReportUnplugged, SkipUnplugged, Missing,
              UnplugReported, Matched, Relist, ListCompatible, Reported, Listed,
              Swap, Goto, At
        <5>2. CASE Input
          BY <3>1, <4>1, <5>2
          DEF Input, InputLock, InputPoll, InputReported, InputUnlock, Goto
        <5>3. CASE \E t \in Thread : Calls(t) \/ Answer(t)
          BY <3>1, <5>3
          DEF Calls, Call, Reenumerate, Answer, RegisterAdd, RegisterAddLink,
              RegisterDel, Query, Effect, Return
        <5>4. QED BY <3>1, <5>1, <5>2, <5>3 DEF Next
      <4>3. QED BY <3>1, <4>2, CursorIsNode DEF List, WalkInv
    <3>2. QED BY <3>1 DEF vars
  <2>1. TypeOK /\ ListInv /\ Shape /\ Phases /\ Split BY DEF WalkInv, ListInv
  <2>2. PICK j \in Seen .. Len(NewList) : Progress(j)
    BY <2>1 DEF ListInv, Progressing
  <2>3. refp = Len(ref) + 1 BY <2>1 DEF Phases, Comparing
  <2>4. PICK i \in 1 .. j : node[NewList[i]].dev = d
    <3>1. ~ \E k \in refp .. Len(ref) : TRUE BY <2>1, <2>3, Places
    <3>2. QED BY <2>2, <3>1 DEF Progress
  <2>5. cur = Place(NewList, j + 1) BY <2>2 DEF Progress
  <2>6. j + 1 \in 1 .. Len(NewList) /\ cur = NewList[j + 1]
    BY <2>1, <2>2, <2>5, Places DEF Place, Node
  <2>7. i \in 1 .. Len(NewList) /\ i # j + 1 BY <2>1, <2>2, <2>4, Places
  <2>8. QED BY <2>1, <2>4, <2>6, <2>7 DEF Split
<1>2. QED BY <1>1, WalkInvariant, PTL DEF ReportedOnce, Spec

-----------------------------------------------------------------------------
(* Registered nodes: each step keeps what RegInv says of them.             *)

\* No node is on both lists, and none of them was freed.
LEMMA Apart ==
  ASSUME TypeOK, Shape, Older
  PROVE  /\ Elements(ref) \cap Elements(NewList) = {}
         /\ InLists \cap freed = {}
         /\ \A n \in InLists : n <= allocated
<1>1. allocated \in Nat /\ Len(NewList) \in Nat /\ Len(NewList) <= allocated
  BY Places DEF Shape
<1>2. Elements(NewList) = allocated + 1 - Len(NewList) .. allocated
  BY DEF Shape
<1>3. /\ Elements(ref) \cup freed \subseteq 1 .. allocated - Len(NewList)
      /\ Elements(ref) \cap freed = {}
  BY DEF Older
<1>4. QED BY <1>1, <1>2, <1>3 DEF InLists

LEMMA ActiveTypes ==
  ASSUME TypeOK
  PROVE  /\ Active \subseteq Reg /\ Null \notin Reg
         /\ \A n \in Node : node[n].reg \in Reg \cup {Null}
         /\ \A n \in Node : node[n].registered \in Flag
         /\ unregistered \subseteq Reg /\ registry \subseteq Reg
<1>1. Null \notin Reg BY DEF Reg, Null
<1>2. Active \subseteq Reg BY DEF TypeOK, Active
<1>3. \A n \in Node : node[n] \in NodeType BY DEF TypeOK, NodeType
<1>4. /\ \A n \in Node : node[n].reg \in Reg \cup {Null}
      /\ \A n \in Node : node[n].registered \in Flag
  BY <1>3 DEF NodeType
<1>5. unregistered \subseteq Reg /\ registry \subseteq Reg BY DEF TypeOK
<1>6. QED BY <1>1, <1>2, <1>4, <1>5

\* No node comes to hold a registered node that no node held.
NoneMade ==
    \A n \in Node :
      node'[n].reg = Null \/ \E m \in Node : node'[n].reg = node[m].reg

LEMMA NumbersKept ==
  ASSUME TypeOK, Numbers, NoneMade,
         UNCHANGED <<call, adding, calls, registry, unregistered>>
  PROVE  Numbers'
<1>1. \A t \in Thread : call[t] # NoCall => call[t].nr \in 1 .. calls
  BY DEF Numbers
<1>2. \A t \in Thread : call[t] # NoCall => call[t].nr # Null
  BY <1>1 DEF Null
<1>3. \A n \in Node : node'[n].reg <= calls
  <2> TAKE n \in Node
  <2>1. CASE node'[n].reg = Null BY <2>1, WinAssumption DEF TypeOK, Null
  <2>2. CASE \E m \in Node : node'[n].reg = node[m].reg
    BY <2>2 DEF Numbers
  <2>3. QED BY <2>1, <2>2 DEF NoneMade
<1>4. ASSUME NEW t \in Thread, call[t] # NoCall, adding[t] = Null,
             NEW n \in Node
      PROVE  node'[n].reg # call[t].nr
  BY <1>2, <1>4 DEF NoneMade, Numbers
<1>5. QED BY <1>3, <1>4 DEF Numbers

\* What the nodes hold stays the same.
SameHeld ==
    \A n \in Node :
      /\ node'[n].reg = node[n].reg
      /\ node'[n].registered = "yes" <=> node[n].registered = "yes"
      /\ node'[n].dev = node[n].dev

LEMMA RegStill ==
  ASSUME TypeOK, ListInv, RegInv, SameHeld,
         NewList' = NewList, Seen' = Seen,
         UNCHANGED <<allocated, new, next, ref, refp, entry, registry, adding,
                     call, calls, unregistered, midway>>,
         lost \subseteq lost'
  PROVE  RegInv'
<1>0. Shape BY DEF ListInv
<1>1. Numbers' BY NumbersKept DEF SameHeld, NoneMade, RegInv
<1>2. Flagged' BY DEF SameHeld, Flagged, RegInv
<1>3. /\ \A i \in 1 .. Len(NewList) : NewList[i] \in Node
      /\ \A k \in 1 .. Len(ref) : ref[k] \in Node
      /\ \A k \in 1 .. refp - 1 : ref[k] \in Node
      /\ \A i \in 1 .. Seen : NewList[i] \in Node
  BY <1>0, Places
<1>4. Holders'
  <2>1. /\ \A i \in 1 .. Len(NewList) :
             /\ node'[NewList[i]].reg = node[NewList[i]].reg
             /\ node'[NewList[i]].dev = node[NewList[i]].dev
        /\ \A k \in 1 .. Len(ref) : node'[ref[k]].reg = node[ref[k]].reg
        /\ \A k \in 1 .. refp - 1 : node'[ref[k]].dev = node[ref[k]].dev
    BY <1>3 DEF SameHeld
  <2>2. QED BY <2>1 DEF Holders, RegInv
<1>5. Held'
  <2>1. Active' = Active BY DEF Active
  <2>2. \A n \in InLists : node'[n].reg = node[n].reg
    BY <1>0, OnLists DEF SameHeld
  <2>3. \A i \in 1 .. Seen : node'[NewList[i]].reg = node[NewList[i]].reg
    BY <1>3 DEF SameHeld
  <2>4. QED BY <2>1, <2>2, <2>3 DEF Held, RegInv, InLists
<1>6. EntryOld' BY DEF EntryOld, RegInv
<1>7. RegLive'
  <2>1. Walk(new)' = Walk(new) BY DEF Walk
  <2>2. \A n \in Nodes(ref) \cup Nodes(Walk(new)) :
          node'[n].reg = node[n].reg
    BY <1>0, OnLists DEF SameHeld, InLists
  <2>3. QED BY <2>1, <2>2 DEF RegLive, RegInv
<1>8. QED BY <1>1, <1>2, <1>4, <1>5, <1>6, <1>7 DEF RegInv

\* The reference node compared holds no registered node that is not lost.
LEMMA RegMissed ==
  ASSUME TypeOK, ListInv, RegInv, node' = node,
         refp <= Len(ref), refp' = refp + 1,
         lost \subseteq lost', node[ref[refp]].reg \in lost' \cup {Null},
         UNCHANGED <<allocated, new, next, part, ref, entry, registry, adding,
                     call, calls, unregistered, midway>>
  PROVE  RegInv'
<1>0. Shape BY DEF ListInv
<1>1. NewList' = NewList /\ Seen' = Seen BY DEF NewList, Seen, Walk
<1>2. refp \in 1 .. Len(ref) /\ refp \in Nat /\ refp' - 1 = refp
  BY <1>0, Places
<1>3. Numbers' /\ Flagged' /\ EntryOld'
  BY NumbersKept DEF NoneMade, Flagged, EntryOld, RegInv
<1>4. Holders'
  <2>1. \A k \in 1 .. refp - 1 : k \in 1 .. refp BY <1>2
  <2>2. QED BY <1>1, <1>2, <2>1 DEF Holders, RegInv
<1>5. Held'
  <2>1. Active' = Active BY DEF Active
  <2>2. ASSUME NEW r \in Active \ lost', NEW k \in 1 .. refp, entry[r] = ref[k]
        PROVE  \E i \in 1 .. Seen : node[NewList[i]].reg = r
    <3>1. CASE k = refp
      <4>1. entry[r] \in Elements(ref) BY <1>2, <2>2, <3>1 DEF Elements
      <4>2. node[ref[refp]].reg = r BY <2>2, <3>1, <4>1 DEF Held, RegInv
      <4>3. r # Null BY ActiveTypes
      <4>4. QED BY <2>2, <4>2, <4>3
    <3>2. CASE k # refp
      <4>1. k \in 1 .. refp - 1 BY <1>2, <3>2
      <4>2. QED BY <2>2, <4>1 DEF Held, RegInv
    <3>3. QED BY <3>1, <3>2
  <2>3. QED BY <1>1, <1>2, <2>1, <2>2 DEF Held, RegInv
<1>6. RegLive'
  <2>1. Walk(new)' = Walk(new) BY DEF Walk
  <2>2. QED BY <2>1 DEF RegLive, RegInv
<1>7. QED BY <1>3, <1>4, <1>5, <1>6 DEF RegInv

LEMMA RegUnplug ==
  ASSUME TypeOK, ListInv, RegInv,
         ReportUnplugged \/ SkipUnplugged \/ UnplugReported
  PROVE  RegInv'
<1> USE DEF heap, lists, mutexes, events, cursors, history, At
<1>1. Shape /\ Phases /\ Unplugging BY DEF ListInv
<1>2. CASE SkipUnplugged
  <2>1. /\ node' = node /\ refp <= Len(ref) /\ refp' = refp + 1
        /\ lost \subseteq lost' /\ node[ref[refp]].reg \in lost' \cup {Null}
        /\ UNCHANGED <<allocated, new, next, part, ref, entry, registry,
                       adding, call, calls, unregistered, midway>>
    BY <1>2 DEF SkipUnplugged, Missing
  <2>2. QED BY <2>1, RegMissed
<1>3. CASE UnplugReported
  <2>1. refp <= Len(ref) /\ node[ref[refp]].reg \in lost \cup {Null}
    BY <1>1, <1>3 DEF UnplugReported, Phases, Unplugging
  <2>2. QED BY <1>3, <2>1, RegMissed DEF UnplugReported
<1>4. CASE ReportUnplugged
  <2> DEFINE n == ref[refp]
  <2>1. n \in Node BY <1>1, <1>4, MissingDevs DEF ReportUnplugged
  <2>2. node \in [Node -> NodeType] BY DEF TypeOK, NodeType
  <2>3. node' = [node EXCEPT ![n].plugged = "no"]
    BY <1>4 DEF ReportUnplugged
  <2>4. /\ UNCHANGED <<allocated, next, new, part, ref, refp, entry, registry,
                       adding, call, calls, unregistered, midway>>
        /\ lost \subseteq lost'
    BY <1>4 DEF ReportUnplugged, Missing
  <2> HIDE DEF n
  <2>5. SameHeld BY <2>1, <2>2, <2>3, UnplugWrites DEF Writes, SameHeld
  <2>6. NewList' = NewList /\ Seen' = Seen BY <2>4 DEF NewList, Seen, Walk
  <2>7. QED BY <2>4, <2>5, <2>6, RegStill
<1>5. QED BY <1>2, <1>3, <1>4

LEMMA RegGoes ==
  ASSUME TypeOK, ListInv, RegInv,
         \/ Matched \/ Relist \/ Reported("relisted", "relist")
         \/ Reported("listed", "list") \/ Listed
         \/ List \/ ListCompatible \/ Input
  PROVE  RegInv'
<1> USE DEF heap, lists, mutexes, events, cursors, history, At
<1>1. Shape BY DEF ListInv
<1>2. CASE List \/ ListCompatible
  <2>1. cur \in Node BY <1>2, CursorIsNode DEF List, ListCompatible
  <2>2. node \in [Node -> NodeType] BY DEF TypeOK, NodeType
  <2>3. UNCHANGED <<allocated, next, new, part, ref, refp, entry, registry,
                    adding, call, calls, unregistered, midway, lost>>
    BY <1>2 DEF List, ListCompatible
  <2>4. SameHeld
    <3>1. CASE List
      <4>1. /\ Writes(cur) /\ node'[cur].reg = node[cur].reg
            /\ node'[cur].registered = "no"
        BY <2>1, <2>2, <3>1, ListWrites DEF List
      <4>2. node[cur].reg = Null
        <5>1. PICK j \in Seen .. Len(NewList) : Progress(j)
          BY DEF ListInv, Progressing
        <5>2. cur = Place(NewList, j + 1) /\ cur # Null
          BY <3>1, <5>1 DEF List, Progress
        <5>3. j + 1 \in j + 1 .. Len(NewList) /\ cur = NewList[j + 1]
          BY <1>1, <5>1, <5>2, Places DEF Place, Null
        <5>4. QED BY <5>1, <5>3 DEF Progress
      <4>3. node[cur].registered # "yes"
        BY <2>1, <4>2, ActiveTypes DEF Flagged, RegInv
      <4>4. QED BY <4>1, <4>3 DEF Writes, SameHeld
    <3>2. CASE ListCompatible
      BY <2>1, <2>2, <3>2, CompatibleWrites
      DEF ListCompatible, Writes, SameHeld
    <3>3. QED BY <1>2, <3>1, <3>2
  <2>5. NewList' = NewList /\ Seen' = Seen BY <2>3 DEF NewList, Seen, Walk
  <2>6. QED BY <2>3, <2>4, <2>5, RegStill
<1>3. CASE ~(List \/ ListCompatible)
  <2>1. UNCHANGED <<allocated, next, new, part, ref, refp, entry, registry,
                    adding, call, calls, unregistered, midway, lost, node>>
    BY <1>3
    DEF Matched, Relist, Reported, Listed, Input, InputLock, InputPoll,
        InputReported, InputUnlock
  <2>2. NewList' = NewList /\ Seen' = Seen BY <2>1 DEF NewList, Seen, Walk
  <2>3. SameHeld BY <2>1 DEF SameHeld
  <2>4. QED BY <2>1, <2>2, <2>3, RegStill
<1>4. QED BY <1>2, <1>3

LEMMA RegMatch ==
  ASSUME LockInv, TypeOK, ListInv, RegInv, Match
  PROVE  RegInv'
<1>0. Shape /\ Older BY DEF ListInv
<1> DEFINE n == ref[refp]
           s == NewList
           w == NewList'
<1>1. PICK k \in Seen + 1 .. Len(s) :
        /\ k \in 1 .. Len(s)
        /\ refp \in 1 .. Len(ref) /\ n \in Node
        /\ node[s[k]].dev = node[n].dev
        /\ Writes(s[k])
        /\ node'[s[k]].reg = IF node[n].reg # Null THEN node[n].reg
                             ELSE node[s[k]].reg
        /\ node'[s[k]].registered = node[n].registered
        /\ NewList' = Moved(s, k) /\ Seen' = Seen + 1 /\ Shape'
        /\ Len(w) = Len(s) /\ Distinct(w) /\ Elements(w) = Elements(s)
        /\ w[1] = s[k]
        /\ \A i \in 2 .. Seen + 1 : i - 1 \in 1 .. Seen /\ w[i] = s[i - 1]
        /\ \A i \in Seen + 2 .. Len(s) :
             \E h \in Seen + 1 .. Len(s) : h # k /\ w[i] = s[h]
  BY MatchParts
<1>2. /\ UNCHANGED <<ref, allocated, entry, registry, adding, call, calls,
                     unregistered, midway, lost>>
      /\ refp' = refp + 1 /\ pc[DeviceThread] = "match"
  BY DEF Match, At, history, lists
<1>3. /\ Len(s) \in Nat /\ Seen \in Nat /\ Seen <= Len(s)
      /\ refp \in Nat /\ Len(ref) \in Nat /\ Distinct(s)
      /\ \A i \in 1 .. Len(s) : s[i] \in Node
      /\ \A q \in 1 .. Len(ref) : ref[q] \in Node
  BY <1>0, Places, ListParts
<1>4. \A i \in Seen + 1 .. Len(s) : node[s[i]].reg = Null
  <2>1. PICK j \in Seen .. Len(s) : Progress(j)
    BY DEF ListInv, Progressing
  <2>2. j = Seen BY <1>2, <2>1 DEF Progress, Comparing
  <2>3. QED BY <2>1, <2>2 DEF Progress
<1> HIDE DEF s
<1> DEFINE m == s[k]
<1>5. m \in Node /\ node[m].reg = Null /\ node'[m].reg = node[n].reg
  BY <1>1, <1>3, <1>4
<1>6. /\ n \in Elements(ref) /\ m \in Elements(s) /\ n # m
      /\ Elements(ref) \cap Elements(s) = {}
  <2>1. n \in Elements(ref) /\ m \in Elements(s) BY <1>1 DEF Elements
  <2>2. QED BY <1>0, <2>1, Apart DEF s
<1>7. /\ \A q \in Node \ {m} : node'[q] = node[q]
      /\ \A q \in Node : node'[q].dev = node[q].dev
  BY <1>1 DEF Writes
<1>8. \A q \in 1 .. Len(ref) : node'[ref[q]] = node[ref[q]]
  <2> TAKE q \in 1 .. Len(ref)
  <2>1. ref[q] \in Elements(ref) BY DEF Elements
  <2>2. QED BY <1>3, <1>6, <1>7, <2>1
<1> HIDE DEF w, n, m
<1>9. Numbers'
  <2>1. NoneMade BY <1>1, <1>5, <1>7 DEF NoneMade
  <2>2. QED BY <1>2, <2>1, NumbersKept DEF RegInv
<1>10. Flagged'
  <2>1. node'[m].registered = node[n].registered BY <1>1 DEF m
  <2>2. QED BY <1>1, <1>5, <1>7, <2>1 DEF Flagged, RegInv
<1>11. \A i \in 1 .. Len(w) :
         \/ i = 1 /\ w[i] = m
         \/ i \in 2 .. Seen + 1 /\ i - 1 \in 1 .. Seen /\ w[i] = s[i - 1]
            /\ s[i - 1] # m
         \/ i \in Seen + 2 .. Len(s) /\ node'[w[i]].reg = Null
  <2> TAKE i \in 1 .. Len(w)
  <2>1. CASE i = 1 BY <1>1, <2>1 DEF m
  <2>2. CASE i \in 2 .. Seen + 1
    <3>1. i - 1 \in 1 .. Seen /\ w[i] = s[i - 1] BY <1>1, <2>2
    <3>2. i - 1 # k /\ i - 1 \in 1 .. Len(s) BY <1>1, <1>3, <3>1
    <3>3. s[i - 1] # s[k] BY <1>1, <1>3, <3>2 DEF Distinct
    <3>4. QED BY <2>2, <3>1, <3>3 DEF m
  <2>3. CASE i \in Seen + 2 .. Len(s)
    <3>1. PICK h \in Seen + 1 .. Len(s) : h # k /\ w[i] = s[h] BY <1>1, <2>3
    <3>2. h \in 1 .. Len(s) BY <1>3, <3>1
    <3>3. s[h] # m /\ s[h] \in Node
      BY <1>1, <1>3, <3>1, <3>2 DEF Distinct, m
    <3>4. QED BY <1>4, <1>7, <2>3, <3>1, <3>3
  <2>4. QED BY <1>1, <1>3, <2>1, <2>2, <2>3
<1>12. 1 .. refp' - 1 = 1 .. refp BY <1>2, <1>3
<1>13. Holders'
  <2>1. \A q \in 1 .. Len(ref) :
          node'[ref[q]].reg # Null => entry[node'[ref[q]].reg] = ref[q]
    BY <1>8 DEF Holders, RegInv
  <2>2. ASSUME NEW i \in 1 .. Len(w), node'[w[i]].reg # Null
        PROVE  \/ entry[node'[w[i]].reg] = w[i]
               \/ i <= Seen + 1 /\ \E q \in 1 .. refp :
                    /\ entry[node'[w[i]].reg] = ref[q]
                    /\ node'[ref[q]].dev = node'[w[i]].dev
    <3>1. CASE i = 1 /\ w[i] = m
      <4>1. node[n].reg # Null /\ node'[w[i]].reg = node[n].reg
        BY <1>5, <2>2, <3>1
      <4>2. entry[node[n].reg] = ref[refp]
        BY <1>1, <4>1 DEF Holders, RegInv, n
      <4>3. node'[ref[refp]].dev = node'[w[i]].dev
        BY <1>1, <1>5, <1>7, <3>1 DEF m, n
      <4>4. refp \in 1 .. refp /\ i <= Seen + 1 BY <1>1, <1>3, <3>1
      <4>5. QED BY <4>1, <4>2, <4>3, <4>4
    <3>2. CASE i \in 2 .. Seen + 1 /\ i - 1 \in 1 .. Seen /\ w[i] = s[i - 1]
               /\ s[i - 1] # m
      <4>1. i - 1 \in 1 .. Len(s) /\ s[i - 1] \in Node BY <1>3, <3>2
      <4>2. node'[w[i]] = node[s[i - 1]] BY <1>7, <3>2, <4>1
      <4>3. CASE entry[node[s[i - 1]].reg] = s[i - 1]
        BY <3>2, <4>2, <4>3
      <4>4. CASE \E q \in 1 .. refp - 1 :
                   /\ entry[node[s[i - 1]].reg] = ref[q]
                   /\ node[ref[q]].dev = node[s[i - 1]].dev
        <5>1. PICK q \in 1 .. refp - 1 :
                /\ entry[node[s[i - 1]].reg] = ref[q]
                /\ node[ref[q]].dev = node[s[i - 1]].dev
          BY <4>4
        <5>2. q \in 1 .. refp /\ q \in 1 .. Len(ref) BY <1>1, <1>3, <5>1
        <5>3. i <= Seen + 1 BY <1>3, <3>2
        <5>4. QED BY <1>8, <4>2, <5>1, <5>2, <5>3
      <4>5. QED BY <2>2, <4>1, <4>2, <4>3, <4>4 DEF Holders, RegInv, s
    <3>3. CASE i \in Seen + 2 .. Len(s) /\ node'[w[i]].reg = Null
      BY <2>2, <3>3
    <3>4. QED BY <1>11, <3>1, <3>2, <3>3
  <2>3. QED BY <1>1, <1>2, <1>12, <2>1, <2>2 DEF Holders, w
<1>14. Held'
  <2>1. Active' = Active BY <1>2 DEF Active
  <2>2. Elements(ref') = Elements(ref) BY <1>2
  <2>3. \A r \in Active :
          entry[r] \in Elements(ref) \cup Elements(s) => node'[entry[r]].reg = r
    <3> SUFFICES ASSUME NEW r \in Active,
                        entry[r] \in Elements(ref) \cup Elements(s)
                 PROVE  node'[entry[r]].reg = r
      OBVIOUS
    <3>1. node[entry[r]].reg = r BY DEF Held, RegInv, s
    <3>2. r # Null BY ActiveTypes
    <3>3. entry[r] \in Node BY <1>0, OnLists DEF InLists, s
    <3>4. entry[r] # m BY <1>5, <3>1, <3>2
    <3>5. QED BY <1>7, <3>1, <3>3, <3>4
  <2>4. ASSUME NEW r \in Active \ lost, NEW q \in 1 .. refp, entry[r] = ref[q]
        PROVE  \E i \in 1 .. Seen + 1 : node'[w[i]].reg = r
    <3>1. CASE q = refp
      <4>1. entry[r] = n /\ entry[r] \in Elements(ref)
        BY <1>6, <2>4, <3>1 DEF n
      <4>2. node[n].reg = r BY <4>1 DEF Held, RegInv
      <4>3. node'[w[1]].reg = r BY <1>1, <1>5, <4>2 DEF m
      <4>4. 1 \in 1 .. Seen + 1 BY <1>3
      <4>5. QED BY <4>3, <4>4
    <3>2. CASE q # refp
      <4>1. q \in 1 .. refp - 1 BY <1>3, <3>2
      <4>2. PICK i \in 1 .. Seen : node[s[i]].reg = r
        BY <2>4, <4>1 DEF Held, RegInv, s
      <4>3. /\ i + 1 \in 2 .. Seen + 1 /\ i + 1 \in 1 .. Seen + 1
            /\ i + 1 - 1 = i /\ i \in 1 .. Len(s)
        BY <1>3, <4>2
      <4>4. w[i + 1] = s[i + 1 - 1] BY <1>1, <4>3
      <4>5. w[i + 1] = s[i] BY <4>3, <4>4
      <4>6. r # Null BY ActiveTypes
      <4>7. s[i] \in Node /\ s[i] # m BY <1>3, <1>5, <4>2, <4>3, <4>6
      <4>8. node'[w[i + 1]].reg = r BY <1>7, <4>2, <4>5, <4>7
      <4>9. QED BY <4>3, <4>8
    <3>3. QED BY <3>1, <3>2
  <2>5. \A r \in Active \ lost : entry[r] \in Elements(ref) \cup Elements(s)
    BY DEF Held, RegInv, s
  <2>6. QED
    BY <1>1, <1>2, <1>12, <2>1, <2>2, <2>3, <2>4, <2>5 DEF Held, w
<1>15. EntryOld' BY <1>2 DEF EntryOld, RegInv
<1>16. RegLive'
  <2>1. Nodes(ref) = Elements(ref) /\ Nodes(Walk(new)) = Elements(s)
    BY <1>0, OnLists DEF s
  <2>2. Nodes(ref') = Elements(ref) BY <1>2, <2>1
  <2>3. Nodes(Walk(new)') = Elements(s)
    <3>1. Nodes(NewList') = Elements(NewList')
      BY <1>1, MatchParts DEF Nodes, Elements
    <3>2. QED BY <1>1, <3>1 DEF NewList, w
  <2>4. \A q \in Elements(ref) \cup Elements(s) :
          node'[q].reg = node[q].reg \/ node'[q].reg = node[n].reg
    <3>1. \A q \in Elements(ref) \cup Elements(s) : q \in Node
      BY <1>0, OnLists DEF InLists, s
    <3>2. QED BY <1>5, <1>7, <3>1
  <2>5. \A q \in Elements(ref) \cup Elements(s) :
          node[q].reg \in unregistered => node[q].reg \in midway
    BY <2>1 DEF RegLive, RegInv
  <2>6. QED BY <1>2, <1>6, <2>2, <2>3, <2>4, <2>5 DEF RegLive
<1>17. QED BY <1>9, <1>10, <1>13, <1>14, <1>15, <1>16 DEF RegInv

LEMMA RegRefresh ==
  ASSUME LockInv, TypeOK, ListInv, RegInv,
         NEW present \in SUBSET Dev, Refresh(present)
  PROVE  RegInv'
<1> DEFINE w == NewList'
<1>0. Shape /\ Older /\ Phases BY DEF ListInv
<1>1. /\ pc[DeviceThread] = "sleep" /\ refp' = 1
      /\ UNCHANGED <<ref, entry, registry, adding, call, calls, unregistered,
                     midway, lost>>
  BY DEF Refresh, At, history, lists
<1>2. Len(NewList) = 0 /\ Elements(NewList) = {} /\ allocated \in Nat
      /\ Len(ref) \in Nat /\ \A k \in 1 .. Len(ref) : ref[k] \in Node
  BY <1>0, <1>1, NothingNew, Places DEF Elements
<1>3. /\ Elements(w) = allocated + 1 .. allocated' /\ Seen' = 0
      /\ Len(w) \in Nat /\ allocated' = allocated + Len(w)
      /\ Elements(w) \subseteq Node /\ Nodes(Walk(new)') = Elements(w)
  <2>1. /\ Elements(w) = allocated + 1 .. allocated' /\ Seen' = 0
        /\ Len(w) \in Nat /\ allocated' = allocated + Len(w)
        /\ allocated' <= MaxNodes
    BY RefreshParts
  <2>2. Elements(w) \subseteq Node
    BY <1>2, <2>1, WinAssumption DEF Node
  <2>3. w = Fetched(Len(w)) BY RefreshParts
  <2> HIDE DEF w
  <2>4. DOMAIN w = 1 .. Len(w) BY <2>3 DEF Fetched
  <2>5. Nodes(w) = Elements(w) BY <2>4 DEF Nodes, Elements
  <2>6. QED BY <2>1, <2>2, <2>5 DEF NewList, w
<1>4. /\ \A n \in Node \ Elements(w) : node'[n] = node[n]
      /\ \A n \in Elements(w) :
           node'[n].reg = Null /\ node'[n].registered # "yes"
  BY RefreshParts DEF Elements
<1>5. \A i \in 1 .. Len(w) : node'[w[i]].reg = Null BY RefreshParts
<1> HIDE DEF w
<1>6. \A n \in Elements(ref) : n <= allocated /\ n \in Node
  BY <1>0, Apart, OnLists DEF InLists
<1>7. \A n \in Elements(ref) : n \notin Elements(w) /\ node'[n] = node[n]
  BY <1>2, <1>3, <1>4, <1>6
<1>8. Numbers'
  <2>1. NoneMade BY <1>4 DEF NoneMade
  <2>2. QED BY <1>1, <2>1, NumbersKept DEF RegInv
<1>9. Flagged'
  <2> SUFFICES ASSUME NEW n \in Node
               PROVE  node'[n].registered = "yes" <=> node'[n].reg # Null
    BY DEF Flagged
  <2>1. CASE n \in Elements(w) BY <1>4, <2>1
  <2>2. CASE n \notin Elements(w) BY <1>4, <2>2 DEF Flagged, RegInv
  <2>3. QED BY <2>1, <2>2
<1>10. Holders'
  <2>1. \A k \in 1 .. Len(ref) : node'[ref[k]] = node[ref[k]]
    BY <1>7 DEF Elements
  <2>2. \A k \in 1 .. Len(ref) :
          node'[ref[k]].reg # Null => entry[node'[ref[k]].reg] = ref[k]
    BY <2>1 DEF Holders, RegInv
  <2>3. QED BY <1>1, <1>5, <2>2 DEF Holders, w
<1>11. Held'
  <2>1. Active' = Active /\ Active \subseteq Reg
    BY <1>1, ActiveTypes DEF Active
  <2>2. \A r \in Active : entry[r] \notin Elements(w)
    <3> TAKE r \in Active
    <3>1. entry[r] <= allocated /\ entry[r] \in Id
      BY <2>1 DEF EntryOld, RegInv, TypeOK
    <3>2. QED BY <1>2, <1>3, <3>1
  <2>3. \A r \in Active : entry[r] \in Elements(ref) => node'[entry[r]].reg = r
    BY <1>7 DEF Held, RegInv
  <2>4. \A r \in Active \ lost : entry[r] \in Elements(ref)
    BY <1>2 DEF Held, RegInv
  <2>5. Elements(ref') = Elements(ref) BY <1>1
  <2>6. 1 .. refp' - 1 = {} BY <1>1
  <2>7. QED BY <1>1, <2>1, <2>2, <2>3, <2>4, <2>5, <2>6 DEF Held, w
<1>12. EntryOld'
  <2>1. \A r \in Reg : entry[r] \in Nat /\ entry[r] <= allocated
    <3>1. \A n \in Id : n \in Nat BY WinAssumption DEF Id, Node, Null
    <3>2. QED BY <3>1 DEF EntryOld, RegInv, TypeOK
  <2>2. QED BY <1>1, <1>2, <1>3, <2>1 DEF EntryOld
<1>13. RegLive'
  <2>1. Nodes(ref') = Elements(ref) BY <1>0, <1>1, OnLists
  <2>2. Null \notin unregistered BY ActiveTypes
  <2>3. \A n \in Elements(ref) :
          node[n].reg \in unregistered => node[n].reg \in midway
    BY <1>0, OnLists DEF RegLive, RegInv
  <2>4. QED BY <1>1, <1>3, <1>4, <1>7, <2>1, <2>2, <2>3 DEF RegLive
<1>14. QED BY <1>8, <1>9, <1>10, <1>11, <1>12, <1>13 DEF RegInv

\* A registered node that matched nodes hold is held by one of them only.
LEMMA OneHolder ==
  ASSUME TypeOK, ListInv, RegInv,
         NEW i \in 1 .. Seen, NEW j \in 1 .. Len(NewList),
         node[NewList[i]].reg = node[NewList[j]].reg,
         node[NewList[i]].reg # Null
  PROVE  NewList[i] = NewList[j]
<1>1. Shape /\ Older /\ Split /\ Holders BY DEF ListInv, RegInv
<1>2. /\ i \in 1 .. Len(NewList) /\ Seen \in Nat /\ Len(NewList) \in Nat
      /\ refp \in Nat /\ Len(ref) \in Nat /\ refp <= Len(ref) + 1
  BY <1>1, Places
<1> DEFINE e == entry[node[NewList[i]].reg]
<1>3. Elements(ref) \cap Elements(NewList) = {} BY <1>1, Apart
<1>4. \A k \in 1 .. refp - 1 : ref[k] \notin Elements(NewList)
  BY <1>2, <1>3 DEF Elements
<1>5. NewList[i] \in Elements(NewList) /\ NewList[j] \in Elements(NewList)
  BY <1>2 DEF Elements
<1>6. \/ e = NewList[i]
      \/ \E k \in 1 .. refp - 1 :
           e = ref[k] /\ node[ref[k]].dev = node[NewList[i]].dev
  BY <1>1, <1>2 DEF Holders
<1>7. \/ e = NewList[j]
      \/ \E k \in 1 .. refp - 1 :
           e = ref[k] /\ node[ref[k]].dev = node[NewList[j]].dev
  BY <1>1, <1>2 DEF Holders
<1> HIDE DEF e
<1>8. CASE e = NewList[i]
  BY <1>4, <1>5, <1>7, <1>8
<1>9. CASE e # NewList[i]
  <2>1. node[e].dev = node[NewList[i]].dev /\ e \notin Elements(NewList)
    BY <1>4, <1>6, <1>9
  <2>2. node[e].dev = node[NewList[j]].dev BY <1>5, <1>7, <2>1
  <2>3. i = j BY <1>1, <1>2, <2>1, <2>2 DEF Split
  <2>4. QED BY <2>3
<1>10. QED BY <1>8, <1>9

LEMMA RegSwap ==
  ASSUME LockInv, TypeOK, ListInv, RegInv, Swap
  PROVE  RegInv'
<1> DEFINE s == NewList
<1>0. Shape /\ Older BY DEF ListInv
<1>1. /\ NewList' = <<>> /\ Len(NewList') = 0 /\ Seen' = 0
      /\ ref' = s /\ refp' = 1 /\ refp = Len(ref) + 1
      /\ UNCHANGED <<allocated, node, lost>>
  BY SwapParts
<1>2. /\ UNCHANGED <<registry, adding, call, calls, unregistered, midway>>
      /\ entry' = Retarget
  BY DEF Swap
<1>3. /\ Len(s) \in Nat /\ Seen \in Nat /\ Seen <= Len(s) /\ Distinct(s)
      /\ Len(ref) \in Nat /\ \A i \in 1 .. Len(s) : s[i] \in Node
      /\ s \in Seq(Node) /\ allocated \in Nat
  BY <1>0, Places, ListParts
<1>4. Front = {s[i] : i \in 1 .. Seen} BY <1>0, FrontIs
<1>5. \A r \in Reg, i \in 1 .. Seen :
        node[s[i]].reg = r => entry'[r] = s[i]
  <2> SUFFICES ASSUME NEW i \in 1 .. Seen, NEW r \in Reg, node[s[i]].reg = r
               PROVE  entry'[r] = s[i]
    OBVIOUS
  <2>1. r # Null BY ActiveTypes
  <2>2. \A n \in Front : node[n].reg = r => n = s[i]
    <3> SUFFICES ASSUME NEW n \in Front, node[n].reg = r PROVE n = s[i]
      OBVIOUS
    <3>1. PICK j \in 1 .. Seen : n = s[j] BY <1>4
    <3>2. j \in 1 .. Len(s) BY <1>3
    <3>3. QED BY <2>1, <3>1, <3>2, OneHolder
  <2>3. s[i] \in Front BY <1>4
  <2>4. (CHOOSE n \in Front : node[n].reg = r) = s[i]
    BY <2>2, <2>3
  <2>5. \E n \in Front : node[n].reg = r BY <2>3
  <2>6. QED BY <1>2, <2>4, <2>5 DEF Retarget
<1>6. \A r \in Reg :
        (\A i \in 1 .. Seen : node[s[i]].reg # r) => entry'[r] = entry[r]
  <2> SUFFICES ASSUME NEW r \in Reg, \A i \in 1 .. Seen : node[s[i]].reg # r
               PROVE  entry'[r] = entry[r]
    OBVIOUS
  <2>1. ~ \E n \in Front : node[n].reg = r BY <1>4
  <2>2. QED BY <1>2, <2>1 DEF Retarget
<1> HIDE DEF s
<1>7. Numbers' /\ Flagged'
  BY <1>1, <1>2, NumbersKept DEF NoneMade, Flagged, RegInv
<1>8. \A i \in 1 .. Len(s) : s[i] \in Elements(s) BY DEF Elements
<1>9. Holders'
  <2> SUFFICES ASSUME NEW k \in 1 .. Len(s), node[s[k]].reg # Null
               PROVE  entry'[node[s[k]].reg] = s[k]
    BY <1>1 DEF Holders
  <2> DEFINE r == node[s[k]].reg
  <2>1. r \in Reg BY <1>3, ActiveTypes
  <2>2. CASE \E i \in 1 .. Seen : node[s[i]].reg = r
    <3>1. PICK i \in 1 .. Seen : node[s[i]].reg = r BY <2>2
    <3>2. s[i] = s[k] BY <3>1, OneHolder DEF s
    <3>3. QED BY <1>5, <2>1, <3>1, <3>2
  <2>3. CASE \A i \in 1 .. Seen : node[s[i]].reg # r
    <3>1. ~(k <= Seen) BY <1>3, <2>3
    <3>2. entry[r] = s[k] BY <3>1 DEF Holders, RegInv, s
    <3>3. QED BY <1>6, <2>1, <2>3, <3>2
  <2>4. QED BY <2>2, <2>3
<1>10. Held'
  <2>1. Active' = Active /\ Active \subseteq Reg
    BY <1>2, ActiveTypes DEF Active
  <2>2. Elements(NewList') = {} BY <1>1 DEF Elements
  <2>3. \A r \in Active : entry'[r] \in Elements(s) => node[entry'[r]].reg = r
    <3> SUFFICES ASSUME NEW r \in Active, entry'[r] \in Elements(s)
                 PROVE  node[entry'[r]].reg = r
      OBVIOUS
    <3>1. CASE \E i \in 1 .. Seen : node[s[i]].reg = r
      BY <1>5, <2>1, <3>1
    <3>2. CASE \A i \in 1 .. Seen : node[s[i]].reg # r
      BY <1>6, <2>1, <3>2 DEF Held, RegInv, s
    <3>3. QED BY <3>1, <3>2
  <2>4. \A r \in Active \ lost : entry'[r] \in Elements(s)
    <3> SUFFICES ASSUME NEW r \in Active \ lost PROVE entry'[r] \in Elements(s)
      OBVIOUS
    <3>1. CASE \E i \in 1 .. Seen : node[s[i]].reg = r
      <4>1. PICK i \in 1 .. Seen : node[s[i]].reg = r BY <3>1
      <4>2. i \in 1 .. Len(s) BY <1>3
      <4>3. QED BY <1>5, <1>8, <2>1, <4>1, <4>2
    <3>2. CASE \A i \in 1 .. Seen : node[s[i]].reg # r
      <4>1. entry'[r] = entry[r] BY <1>6, <2>1, <3>2
      <4>2. entry[r] \in Elements(ref) \cup Elements(s)
        BY DEF Held, RegInv, s
      <4>3. entry[r] \notin Elements(ref)
        <5>1. \A k \in 1 .. Len(ref) : k \in 1 .. refp - 1 BY <1>1, <1>3
        <5>2. \A k \in 1 .. Len(ref) : entry[r] # ref[k]
          BY <3>2, <5>1 DEF Held, RegInv, s
        <5>3. QED BY <5>2 DEF Elements
      <4>4. QED BY <4>1, <4>2, <4>3
    <3>3. QED BY <3>1, <3>2
  <2>5. 1 .. refp' - 1 = {} BY <1>1
  <2>6. QED BY <1>1, <2>1, <2>2, <2>3, <2>4, <2>5 DEF Held
<1>11. EntryOld'
  <2> SUFFICES ASSUME NEW r \in Reg PROVE entry'[r] <= allocated'
    BY DEF EntryOld
  <2>1. CASE \E i \in 1 .. Seen : node[s[i]].reg = r
    <3>1. PICK i \in 1 .. Seen : node[s[i]].reg = r BY <2>1
    <3>2. i \in 1 .. Len(s) BY <1>3
    <3>3. s[i] <= allocated BY <1>0, <1>8, <3>2, Apart DEF InLists, s
    <3>4. QED BY <1>1, <1>5, <3>1, <3>3
  <2>2. CASE \A i \in 1 .. Seen : node[s[i]].reg # r
    BY <1>1, <1>6, <2>2 DEF EntryOld, RegInv
  <2>3. QED BY <2>1, <2>2
<1>12. RegLive'
  <2>1. Nodes(ref') = Elements(s) /\ Nodes(Walk(new)) = Elements(s)
    BY <1>0, <1>1, OnLists, FrontIs DEF s
  <2>2. Nodes(Walk(new)') = {} BY <1>1 DEF Nodes, NewList
  <2>3. QED BY <1>1, <1>2, <2>1, <2>2 DEF RegLive, RegInv
<1>13. QED BY <1>7, <1>9, <1>10, <1>11, <1>12 DEF RegInv

\* A call is made; its number is new.
LEMMA RegCall ==
  ASSUME LockInv, TypeOK, ListInv, RegInv, NEW t \in Thread, Calls(t)
  PROVE  RegInv'
<1> USE DEF heap, lists, mutexes, events, cursors, history
<1>1. /\ UNCHANGED <<node, next, new, part, ref, refp, allocated, entry,
                     registry, adding, unregistered, midway, lost>>
      /\ calls' = calls + 1 /\ calls \in Nat /\ call[t] = NoCall
      /\ \/ call' = call
         \/ \E op \in Op, id \in told :
              call' = [call EXCEPT
                         ![t] = [op |-> op, id |-> id, nr |-> calls + 1]]
  BY WinAssumption DEF Calls, Call, Reenumerate, TypeOK
<1>2. NewList' = NewList /\ Seen' = Seen /\ Walk(new)' = Walk(new)
      /\ Active' = Active
  BY <1>1 DEF NewList, Seen, Walk, Active
<1>3. adding[t] = Null
  BY <1>1 DEF LockInv, CallsPlaced, NoCall
<1>4. /\ registry \cup unregistered \subseteq 1 .. calls
      /\ \A n \in Node : node[n].reg <= calls /\ node[n].reg \in Nat
  <2>1. \A n \in Node : node[n].reg \in Nat
    BY ActiveTypes, WinAssumption DEF Reg, Null
  <2>2. QED BY <2>1 DEF Numbers, RegInv
<1>5. \A u \in Thread : call[u] # NoCall => call[u].nr \in 1 .. calls
  BY DEF Numbers, RegInv
<1>6. \A u \in Thread :
        \/ call'[u] = call[u]
        \/ u = t /\ call'[u].nr = calls + 1
  BY <1>1 DEF LockInv, Placed
<1>7. Numbers'
  <2>1. ASSUME NEW u \in Thread
        PROVE  /\ call'[u] # NoCall => call'[u].nr \in 1 .. calls + 1
               /\ adding[u] # Null =>
                    /\ adding[u] = call'[u].nr
                    /\ adding[u] \notin registry \cup unregistered
               /\ call'[u] # NoCall /\ adding[u] = Null =>
                    /\ call'[u].nr \notin registry \cup unregistered
                    /\ \A n \in Node : node[n].reg # call'[u].nr
    <3>1. CASE call'[u] = call[u]
      <4>1. 1 .. calls \subseteq 1 .. calls + 1 BY <1>1
      <4>2. QED BY <1>5, <3>1, <4>1 DEF Numbers, RegInv
    <3>2. CASE u = t /\ call'[u].nr = calls + 1
      <4>1. calls + 1 \in 1 .. calls + 1 /\ calls + 1 \notin 1 .. calls
        BY <1>1
      <4>2. \A n \in Node : node[n].reg # calls + 1 BY <1>1, <1>4
      <4>3. QED BY <1>3, <1>4, <3>2, <4>1, <4>2
    <3>3. QED BY <1>6, <3>1, <3>2
  <2>2. ASSUME NEW u \in Thread, NEW v \in Thread,
               call'[u] # NoCall, call'[v] # NoCall,
               call'[u].nr = call'[v].nr
        PROVE  u = v
    <3>1. calls + 1 \notin 1 .. calls BY <1>1
    <3>2. QED BY <1>5, <1>6, <2>2, <3>1 DEF Numbers, RegInv
  <2>3. registry \cup unregistered \subseteq 1 .. calls + 1
    BY <1>1, <1>4
  <2>4. \A n \in Node : node[n].reg <= calls + 1 BY <1>1, <1>4
  <2>5. QED BY <1>1, <2>1, <2>2, <2>3, <2>4 DEF Numbers
<1>8. Flagged' /\ Holders' /\ EntryOld' /\ RegLive'
  BY <1>1, <1>2 DEF Flagged, Holders, EntryOld, RegLive, RegInv
<1>9. Held' BY <1>1, <1>2 DEF Held, RegInv
<1>10. QED BY <1>7, <1>8, <1>9 DEF RegInv

\* A call returns and leaves the registered nodes alone.
LEMMA RegReturn ==
  ASSUME LockInv, TypeOK, RegInv, NEW t \in Thread, call[t] # NoCall,
         adding[t] = Null, Return(t),
         UNCHANGED <<node, entry, adding, registry, unregistered, midway>>
  PROVE  RegInv'
<1> USE DEF heap, lists, mutexes, events, cursors, history
<1>1. /\ UNCHANGED <<node, next, new, part, ref, refp, allocated, entry,
                     registry, adding, unregistered, midway, lost, calls>>
      /\ call' = [call EXCEPT ![t] = NoCall]
  BY DEF Return
<1>2. NewList' = NewList /\ Seen' = Seen /\ Walk(new)' = Walk(new)
      /\ Active' = Active
  BY <1>1 DEF NewList, Seen, Walk, Active
<1>3. \A u \in Thread : call'[u] # NoCall => call'[u] = call[u] /\ u # t
  BY <1>1 DEF LockInv, Placed
<1>4. \A u \in Thread : adding[u] # Null => call'[u] = call[u]
  BY <1>1 DEF LockInv, Placed
<1>5. Numbers' BY <1>1, <1>3, <1>4 DEF Numbers, RegInv
<1>6. Flagged' /\ Holders' /\ EntryOld' /\ RegLive'
  BY <1>1, <1>2 DEF Flagged, Holders, EntryOld, RegLive, RegInv
<1>7. Held' BY <1>1, <1>2 DEF Held, RegInv
<1>8. QED BY <1>5, <1>6, <1>7 DEF RegInv

LEMMA RegAdd ==
  ASSUME LockInv, TypeOK, ListInv, RegInv, NEW t \in Thread, RegisterAdd(t)
  PROVE  RegInv'
<1>1. CASE UNCHANGED <<node, entry, adding>>
  <2>0. call[t] # NoCall /\ adding[t] = Null
    BY DEF RegisterAdd, NoCall
  <2>1. CASE Return(t) /\ UNCHANGED <<node, entry, adding, registry,
                                      unregistered, midway>>
    BY <2>0, <2>1, RegReturn
  <2>2. CASE UNCHANGED <<allocated, next, lists, mutexes, events,
                         cursors, todo, pc, call, calls, history>>
    <3>1. NewList' = NewList /\ Seen' = Seen
      BY <2>2 DEF NewList, Seen, Walk, lists, cursors
    <3>2. SameHeld BY <1>1 DEF SameHeld
    <3>3. QED
      BY <1>1, <2>2, <3>1, <3>2, RegStill DEF lists, cursors, history
  <2>3. QED BY <2>1, <2>2 DEF RegisterAdd
<1>2. CASE ~ UNCHANGED <<node, entry, adding>>
  <2> DEFINE n == call[t].id
             r == call[t].nr
  <2>0. Shape /\ Older BY DEF ListInv
  <2>1. /\ n \in Elements(NewList) /\ n \in Node
        /\ call[t].op = "register_add" /\ adding[t] = Null
        /\ node[n].registered # "yes"
        /\ Writes(n)
        /\ node'[n].reg = r
        /\ node'[n].registered = "yes"
        /\ entry' = [entry EXCEPT ![r] = n]
        /\ adding' = [adding EXCEPT ![t] = r]
        /\ UNCHANGED <<allocated, next, new, ref, registry, refp, part, call,
                       calls, unregistered, midway, lost>>
    BY <1>2, <2>0, RegisterAddWrites DEF lists, cursors, history
  <2>2. /\ r \in 1 .. calls /\ r \notin registry \cup unregistered
        /\ \A m \in Node : node[m].reg # r
    BY <2>1 DEF Numbers, RegInv, NoCall
  <2>3. r \in Reg /\ r # Null /\ calls \in Nat
    BY <2>2, WinAssumption DEF TypeOK, Reg, Null
  <2>4. node[n].reg = Null BY <2>1 DEF Flagged, RegInv
  <2> HIDE DEF n, r
  <2>5. \A m \in Node \ {n} : node'[m] = node[m] BY <2>1 DEF Writes
  <2>6. \A m \in Node : node'[m].dev = node[m].dev BY <2>1 DEF Writes
  <2>7. NewList' = NewList /\ Seen' = Seen /\ Walk(new)' = Walk(new)
    BY <2>1 DEF NewList, Seen, Walk
  <2>8. entry'[r] = n /\ \A q \in Reg \ {r} : entry'[q] = entry[q]
    BY <2>1, <2>3 DEF TypeOK
  <2>9. Active' = Active \cup {r}
    <3>1. {adding'[u] : u \in Thread} =
            {adding[u] : u \in Thread \ {t}} \cup {r}
      BY <2>1 DEF LockInv, Placed
    <3>2. {adding[u] : u \in Thread} =
            {adding[u] : u \in Thread \ {t}} \cup {Null}
      BY <2>1
    <3>3. registry' = registry BY <2>1
    <3>4. QED BY <2>3, <3>1, <3>2, <3>3 DEF Active
  <2>10. /\ \A k \in 1 .. Len(ref) : ref[k] \in Node /\ ref[k] # n
         /\ Elements(ref) \cap Elements(NewList) = {}
    <3>1. \A k \in 1 .. Len(ref) : ref[k] \in Elements(ref)
      BY DEF Elements
    <3>2. QED BY <2>0, <2>1, <3>1, Apart, Places
  <2>11. \A i \in 1 .. Len(NewList) : NewList[i] \in Node
    BY <2>0, Places
  <2>12. Numbers'
    <3>1. ASSUME NEW u \in Thread
          PROVE  /\ call[u] # NoCall => call[u].nr \in 1 .. calls
                 /\ adding'[u] # Null =>
                      /\ adding'[u] = call[u].nr
                      /\ adding'[u] \notin registry \cup unregistered
                 /\ call[u] # NoCall /\ adding'[u] = Null =>
                      /\ call[u].nr \notin registry \cup unregistered
                      /\ \A m \in Node : node'[m].reg # call[u].nr
      <4>1. CASE u = t
        <5>1. adding'[t] = r BY <2>1 DEF LockInv, Placed
        <5>2. QED BY <2>2, <2>3, <4>1, <5>1 DEF Numbers, RegInv, r
      <4>2. CASE u # t
        <5>1. adding'[u] = adding[u] BY <2>1, <4>2 DEF LockInv, Placed
        <5>2. call[u] # NoCall => call[u].nr # r
          BY <2>1, <4>2 DEF Numbers, RegInv, r, NoCall
        <5>3. ASSUME call[u] # NoCall, adding[u] = Null, NEW m \in Node
              PROVE  node'[m].reg # call[u].nr
          <6>1. CASE m = n BY <2>1, <5>2, <5>3, <6>1
          <6>2. CASE m # n
            BY <2>5, <5>3, <6>2 DEF Numbers, RegInv
          <6>3. QED BY <6>1, <6>2
        <5>4. QED BY <5>1, <5>3 DEF Numbers, RegInv
      <4>3. QED BY <4>1, <4>2
    <3>2. \A m \in Node : node'[m].reg <= calls
      <4>1. r <= calls BY <2>2, <2>3
      <4>2. QED BY <2>1, <2>5, <4>1 DEF Numbers, RegInv
    <3>3. QED BY <2>1, <3>1, <3>2 DEF Numbers, RegInv
  <2>13. Flagged' BY <2>1, <2>3, <2>5 DEF Flagged, RegInv
  <2>14. \A m \in Node \ {n} : node'[m].reg # Null =>
           node'[m].reg = node[m].reg /\ node[m].reg \in Reg \ {r}
    BY <2>2, <2>5, ActiveTypes
  <2>15. Holders'
    <3>1. \A k \in 1 .. Len(ref) :
            node'[ref[k]].reg # Null => entry'[node'[ref[k]].reg] = ref[k]
      BY <2>8, <2>10, <2>14 DEF Holders, RegInv
    <3>2. ASSUME NEW i \in 1 .. Len(NewList), node'[NewList[i]].reg # Null
          PROVE  \/ entry'[node'[NewList[i]].reg] = NewList[i]
                 \/ i <= Seen /\ \E k \in 1 .. refp - 1 :
                      /\ entry'[node'[NewList[i]].reg] = ref[k]
                      /\ node'[ref[k]].dev = node'[NewList[i]].dev
      <4>1. CASE NewList[i] = n BY <2>1, <2>8, <4>1
      <4>2. CASE NewList[i] # n
        <5>1. /\ node'[NewList[i]].reg = node[NewList[i]].reg
              /\ entry'[node'[NewList[i]].reg] = entry[node[NewList[i]].reg]
          BY <2>8, <2>11, <2>14, <3>2, <4>2
        <5>2. \A k \in 1 .. refp - 1 : ref[k] \in Node
          BY <2>0, Places
        <5>3. QED
          BY <2>6, <2>11, <3>2, <5>1, <5>2 DEF Holders, RegInv
      <4>3. QED BY <4>1, <4>2
    <3>3. QED BY <2>1, <2>7, <3>1, <3>2 DEF Holders
  <2>16. Held'
    <3>1. \A q \in Active : q \in Reg /\ q # Null BY ActiveTypes
    <3>2. ASSUME NEW q \in Active \cup {r},
                 entry'[q] \in Elements(ref) \cup Elements(NewList)
          PROVE  node'[entry'[q]].reg = q
      <4>1. CASE q = r BY <2>1, <2>8, <4>1
      <4>2. CASE q # r
        <5>1. q \in Active /\ entry'[q] = entry[q] BY <2>8, <3>1, <4>2
        <5>2. node[entry[q]].reg = q
          BY <3>2, <5>1 DEF Held, RegInv
        <5>3. entry[q] # n BY <2>4, <3>1, <5>1, <5>2
        <5>4. entry[q] \in Node
          BY <2>0, <3>2, <5>1, OnLists DEF InLists
        <5>5. QED BY <2>5, <5>1, <5>2, <5>3, <5>4
      <4>3. QED BY <4>1, <4>2
    <3>3. ASSUME NEW q \in (Active \cup {r}) \ lost
          PROVE  /\ entry'[q] \in Elements(ref) \cup Elements(NewList)
                 /\ \A k \in 1 .. refp - 1 : entry'[q] = ref[k] =>
                      \E i \in 1 .. Seen : node'[NewList[i]].reg = q
      <4>1. CASE q = r
        <5>1. \A k \in 1 .. refp - 1 : k \in 1 .. Len(ref)
          BY <2>0, Places
        <5>2. QED BY <2>1, <2>8, <2>10, <4>1, <5>1
      <4>2. CASE q # r
        <5>1. q \in Active \ lost /\ entry'[q] = entry[q]
          BY <2>8, <3>1, <4>2
        <5>2. ASSUME NEW k \in 1 .. refp - 1, entry[q] = ref[k]
              PROVE  \E i \in 1 .. Seen : node'[NewList[i]].reg = q
          <6>1. PICK i \in 1 .. Seen : node[NewList[i]].reg = q
            BY <5>1, <5>2 DEF Held, RegInv
          <6>2. i \in 1 .. Len(NewList) BY <2>0, Places
          <6>3. NewList[i] # n BY <2>4, <3>1, <5>1, <6>1
          <6>4. QED BY <2>5, <2>11, <6>1, <6>2, <6>3
        <5>3. QED BY <5>1, <5>2 DEF Held, RegInv
      <4>3. QED BY <4>1, <4>2
    <3>4. QED BY <2>1, <2>7, <2>9, <3>2, <3>3 DEF Held
  <2>17. EntryOld'
    <3>1. n <= allocated
      BY <2>0, <2>1, Apart DEF InLists
    <3>2. QED BY <2>1, <2>8, <3>1 DEF EntryOld, RegInv
  <2>18. RegLive'
    <3>1. \A m \in Nodes(ref) \cup Nodes(Walk(new)) : m \in Node
      BY <2>0, OnLists DEF InLists
    <3>2. QED
      BY <2>1, <2>2, <2>5, <2>7, <3>1 DEF RegLive, RegInv
  <2>19. QED BY <2>12, <2>13, <2>15, <2>16, <2>17, <2>18 DEF RegInv
<1>3. QED BY <1>1, <1>2

LEMMA RegLink ==
  ASSUME LockInv, TypeOK, ListInv, RegInv, NEW t \in Thread,
         RegisterAddLink(t)
  PROVE  RegInv'
<1> USE DEF heap, lists, mutexes, events, cursors, history
<1> DEFINE r == adding[t]
<1>1. /\ r # Null
      /\ registry' = registry \cup {r}
      /\ adding' = [adding EXCEPT ![t] = Null]
      /\ call' = [call EXCEPT ![t] = NoCall]
      /\ UNCHANGED <<node, next, new, part, ref, refp, allocated, entry,
                     unregistered, midway, lost, calls>>
  BY DEF RegisterAddLink, Return
<1>2. \A u \in Thread : adding[u] # Null =>
        call[u] # NoCall /\ adding[u] = call[u].nr
  BY DEF LockInv, CallsPlaced, NoCall, Numbers, RegInv
<1>3. /\ r = call[t].nr /\ call[t] # NoCall /\ r \in 1 .. calls
      /\ r \notin unregistered
  BY <1>1, <1>2 DEF Numbers, RegInv
<1> HIDE DEF r
<1>4. NewList' = NewList /\ Seen' = Seen /\ Walk(new)' = Walk(new)
  BY <1>1 DEF NewList, Seen, Walk
<1>5. Active' = Active
  <2>1. {adding'[u] : u \in Thread} =
          {adding[u] : u \in Thread \ {t}} \cup {Null}
    BY <1>1 DEF LockInv, Placed
  <2>2. {adding[u] : u \in Thread} = {adding[u] : u \in Thread \ {t}} \cup {r}
    BY DEF r
  <2>3. registry' = registry \cup {r} /\ r # Null BY <1>1
  <2>4. QED BY <2>1, <2>2, <2>3 DEF Active
<1>6. Numbers'
  <2>1. ASSUME NEW u \in Thread
        PROVE  /\ call'[u] # NoCall => call'[u] = call[u] /\ u # t
               /\ adding'[u] # Null => adding'[u] = adding[u] /\ u # t
                                         /\ call'[u] = call[u]
               /\ call'[u] # NoCall => adding'[u] = adding[u]
    BY <1>1 DEF LockInv, Placed
  <2>2. \A u \in Thread : u # t /\ call[u] # NoCall => call[u].nr # r
    BY <1>3 DEF Numbers, RegInv
  <2>3. ASSUME NEW u \in Thread
        PROVE  /\ call'[u] # NoCall => call'[u].nr \in 1 .. calls
               /\ adding'[u] # Null =>
                    /\ adding'[u] = call'[u].nr
                    /\ adding'[u] \notin registry' \cup unregistered
               /\ call'[u] # NoCall /\ adding'[u] = Null =>
                    /\ call'[u].nr \notin registry' \cup unregistered
                    /\ \A m \in Node : node[m].reg # call'[u].nr
    <3>1. call'[u] # NoCall => call'[u].nr \in 1 .. calls
      BY <2>1 DEF Numbers, RegInv
    <3>2. ASSUME adding'[u] # Null
          PROVE  /\ adding'[u] = call'[u].nr
                 /\ adding'[u] \notin registry' \cup unregistered
      <4>1. adding'[u] = adding[u] /\ u # t /\ call'[u] = call[u]
        BY <2>1, <3>2
      <4>2. adding[u] = call[u].nr /\ adding[u] # r
        BY <1>2, <2>2, <3>2, <4>1
      <4>3. adding[u] \notin registry \cup unregistered
        BY <3>2, <4>1 DEF Numbers, RegInv
      <4>4. QED BY <1>1, <4>1, <4>2, <4>3
    <3>3. ASSUME call'[u] # NoCall, adding'[u] = Null
          PROVE  /\ call'[u].nr \notin registry' \cup unregistered
                 /\ \A m \in Node : node[m].reg # call'[u].nr
      <4>1. call'[u] = call[u] /\ u # t /\ adding[u] = Null
        BY <2>1, <3>3
      <4>2. call[u].nr # r BY <2>2, <3>3, <4>1
      <4>3. /\ call[u].nr \notin registry \cup unregistered
            /\ \A m \in Node : node[m].reg # call[u].nr
        BY <3>3, <4>1 DEF Numbers, RegInv
      <4>4. QED BY <1>1, <4>1, <4>2, <4>3
    <3>4. QED BY <3>1, <3>2, <3>3
  <2>4. \A u, v \in Thread :
          call'[u] # NoCall /\ call'[v] # NoCall /\ call'[u].nr = call'[v].nr
            => u = v
    BY <2>1 DEF Numbers, RegInv
  <2>5. registry' \cup unregistered \subseteq 1 .. calls
    BY <1>1, <1>3 DEF Numbers, RegInv
  <2>6. QED BY <1>1, <2>3, <2>4, <2>5 DEF Numbers, RegInv
<1>7. Flagged' /\ Holders' /\ EntryOld' /\ RegLive'
  BY <1>1, <1>4 DEF Flagged, Holders, EntryOld, RegLive, RegInv
<1>8. Held' BY <1>1, <1>4, <1>5 DEF Held, RegInv
<1>9. QED BY <1>6, <1>7, <1>8 DEF RegInv

LEMMA RegDel ==
  ASSUME LockInv, TypeOK, ListInv, RegInv, NEW t \in Thread, RegisterDel(t)
  PROVE  RegInv'
<1> USE DEF heap, lists, mutexes, events, cursors, history
<1> DEFINE id == call[t].id
           R == Registered(id)
<1>0. Shape /\ Older BY DEF ListInv
<1>1. /\ call[t].op = "register_del" /\ call[t] # NoCall
      /\ registry' = registry \ R
      /\ unregistered' = unregistered \cup R
      /\ midway' = midway \cup {r \in R : TakenOver(r, id)}
      /\ R = {} => node' = node
      /\ call' = [call EXCEPT ![t] = NoCall]
      /\ UNCHANGED <<next, new, part, ref, refp, allocated, entry, adding,
                     lost, calls>>
  BY DEF RegisterDel, Return, NoCall
<1>2. adding[t] = Null BY <1>1 DEF LockInv, CallsPlaced
<1>3. R \subseteq registry /\ \A r \in R : entry[r] = id
  BY DEF Registered
<1>4. \A r \in registry : entry[r] = id => r \in R BY DEF Registered
<1>5. NewList' = NewList /\ Seen' = Seen /\ Walk(new)' = Walk(new)
  BY <1>1 DEF NewList, Seen, Walk
<1>6. /\ \A n \in Node \ {id} : node'[n] = node[n]
      /\ \A n \in Node : node'[n].dev = node[n].dev
      /\ \A n \in Node : node'[n].reg \in {node[n].reg, Null}
      /\ R # {} /\ id \in Node =>
           node'[id].reg = Null /\ node'[id].registered = "no"
  <2>1. CASE node' = node
    <3>1. R # {} /\ id \in Node =>
            node'[id].reg = Null /\ node'[id].registered = "no"
      <4> SUFFICES ASSUME R # {}, id \in Node
                   PROVE  node'[id].reg = Null /\ node'[id].registered = "no"
        OBVIOUS
      <4>1. node' = [node EXCEPT ![id].reg = Null, ![id].registered = "no"]
        BY DEF RegisterDel
      <4>2. node \in [Node -> NodeType] BY DEF TypeOK, NodeType
      <4> HIDE DEF id, R
      <4>3. QED BY <4>1, <4>2, RegisterWrites DEF Flag
    <3>2. QED BY <2>1, <3>1
  <2>2. CASE /\ id \in Node /\ Writes(id)
             /\ node'[id].reg = Null /\ node'[id].registered = "no"
    BY <2>2 DEF Writes
  <2>3. QED BY <2>1, <2>2, RegisterDelWrites
<1> HIDE DEF id, R
<1>7. /\ \A n \in Node : n # id \/ R = {} => node'[n] = node[n]
      /\ \A i \in 1 .. Len(NewList) : NewList[i] \in Node
      /\ \A k \in 1 .. Len(ref) : ref[k] \in Node
      /\ InLists \subseteq Node
  BY <1>0, <1>1, <1>6, Places, OnLists
<1>8. \A r \in Active : r \in Reg /\ r # Null BY ActiveTypes
<1>9. R \subseteq Active BY <1>3 DEF Active
<1>10. \A u \in Thread : adding[u] # Null => adding[u] \notin registry
  BY DEF Numbers, RegInv
<1>11. Active' = Active \ R
  <2>1. Active' = (registry \ R) \cup ({adding[u] : u \in Thread} \ {Null})
    BY <1>1 DEF Active
  <2>2. \A u \in Thread : adding[u] # Null => adding[u] \notin R
    BY <1>3, <1>10
  <2>3. QED BY <2>1, <2>2 DEF Active
\* The node that the registered node points to is the only one that loses it.
<1>12. ASSUME NEW q \in Active \ R, NEW r \in R, id \in InLists
       PROVE  node[id].reg # q
  <2>1. entry[r] = id /\ r \in Active BY <1>3, <1>9
  <2>2. node[id].reg = r BY <1>12, <2>1 DEF Held, RegInv, InLists
  <2>3. QED BY <2>2
<1>13. Numbers'
  <2>1. ASSUME NEW u \in Thread
        PROVE  /\ call'[u] # NoCall => call'[u] = call[u] /\ u # t
               /\ adding[u] # Null => call'[u] = call[u]
    BY <1>1, <1>2 DEF LockInv, Placed
  <2>2. registry' \cup unregistered' = registry \cup unregistered
    BY <1>1, <1>3
  <2>3. \A u \in Thread : call[u] # NoCall => call[u].nr # Null
    BY DEF Numbers, RegInv, Null
  <2>4. ASSUME NEW u \in Thread
        PROVE  /\ call'[u] # NoCall => call'[u].nr \in 1 .. calls
               /\ adding[u] # Null =>
                    /\ adding[u] = call'[u].nr
                    /\ adding[u] \notin registry' \cup unregistered'
               /\ call'[u] # NoCall /\ adding[u] = Null =>
                    /\ call'[u].nr \notin registry' \cup unregistered'
                    /\ \A m \in Node : node'[m].reg # call'[u].nr
    <3>1. call'[u] # NoCall => call'[u].nr \in 1 .. calls
      BY <2>1 DEF Numbers, RegInv
    <3>2. adding[u] # Null =>
            /\ adding[u] = call'[u].nr
            /\ adding[u] \notin registry' \cup unregistered'
      BY <2>1, <2>2 DEF Numbers, RegInv
    <3>3. ASSUME call'[u] # NoCall, adding[u] = Null
          PROVE  /\ call'[u].nr \notin registry' \cup unregistered'
                 /\ \A m \in Node : node'[m].reg # call'[u].nr
      <4>1. call'[u] = call[u] /\ call[u] # NoCall BY <2>1, <3>3
      <4>2. /\ call[u].nr \notin registry \cup unregistered
            /\ \A m \in Node : node[m].reg # call[u].nr
        BY <3>3, <4>1 DEF Numbers, RegInv
      <4>3. QED BY <1>6, <2>2, <2>3, <4>1, <4>2
    <3>4. QED BY <3>1, <3>2, <3>3
  <2>5. \A u, v \in Thread :
          call'[u] # NoCall /\ call'[v] # NoCall /\ call'[u].nr = call'[v].nr
            => u = v
    BY <2>1 DEF Numbers, RegInv
  <2>6. \A m \in Node : node'[m].reg <= calls
    BY <1>6, WinAssumption DEF Numbers, RegInv, TypeOK, Null
  <2>7. registry' \cup unregistered' \subseteq 1 .. calls
    BY <2>2 DEF Numbers, RegInv
  <2>8. QED BY <1>1, <2>4, <2>5, <2>6, <2>7 DEF Numbers
<1>14. Flagged'
  <2> SUFFICES ASSUME NEW n \in Node
               PROVE  node'[n].registered = "yes" <=> node'[n].reg # Null
    BY DEF Flagged
  <2>1. CASE n # id \/ R = {} BY <1>7, <2>1 DEF Flagged, RegInv
  <2>2. CASE n = id /\ R # {} BY <1>6, <2>2
  <2>3. QED BY <2>1, <2>2
<1>15. Holders'
  <2>1. \A k \in 1 .. Len(ref) :
          node'[ref[k]].reg # Null => entry[node'[ref[k]].reg] = ref[k]
    <3> TAKE k \in 1 .. Len(ref)
    <3>1. node'[ref[k]].reg \in {node[ref[k]].reg, Null} BY <1>6, <1>7
    <3>2. QED BY <3>1 DEF Holders, RegInv
  <2>2. ASSUME NEW i \in 1 .. Len(NewList), node'[NewList[i]].reg # Null
        PROVE  \/ entry[node'[NewList[i]].reg] = NewList[i]
               \/ i <= Seen /\ \E k \in 1 .. refp - 1 :
                    /\ entry[node'[NewList[i]].reg] = ref[k]
                    /\ node'[ref[k]].dev = node'[NewList[i]].dev
    <3>1. node'[NewList[i]].reg = node[NewList[i]].reg
      BY <1>6, <1>7, <2>2
    <3>2. \A k \in 1 .. refp - 1 : ref[k] \in Node BY <1>0, Places
    <3>3. QED BY <1>6, <1>7, <2>2, <3>1, <3>2 DEF Holders, RegInv
  <2>3. QED BY <1>1, <1>5, <2>1, <2>2 DEF Holders
<1>16. Held'
  <2>1. ASSUME NEW q \in Active \ R,
               entry[q] \in Elements(ref) \cup Elements(NewList)
        PROVE  node'[entry[q]].reg = q
    <3>1. node[entry[q]].reg = q /\ entry[q] \in InLists /\ entry[q] \in Node
      BY <1>7, <2>1 DEF Held, RegInv, InLists
    <3>2. CASE entry[q] = id /\ R # {} BY <1>12, <3>1, <3>2
    <3>3. CASE entry[q] # id \/ R = {} BY <1>7, <3>1, <3>3
    <3>4. QED BY <3>2, <3>3
  <2>2. ASSUME NEW q \in Active \ R, q \notin lost, NEW k \in 1 .. refp - 1,
               entry[q] = ref[k]
        PROVE  \E i \in 1 .. Seen : node'[NewList[i]].reg = q
    <3>1. PICK i \in 1 .. Seen : node[NewList[i]].reg = q
      BY <2>2 DEF Held, RegInv
    <3>2. i \in 1 .. Len(NewList) BY <1>0, Places
    <3>3. NewList[i] \in InLists BY <3>2 DEF InLists, Elements
    <3>4. CASE NewList[i] = id /\ R # {} BY <1>12, <3>1, <3>3, <3>4
    <3>5. CASE NewList[i] # id \/ R = {} BY <1>7, <3>1, <3>2, <3>5
    <3>6. QED BY <3>4, <3>5
  <2>3. \A q \in (Active \ R) \ lost :
          entry[q] \in Elements(ref) \cup Elements(NewList)
    BY DEF Held, RegInv
  <2>4. QED BY <1>1, <1>5, <1>11, <2>1, <2>2, <2>3 DEF Held
<1>17. EntryOld' BY <1>1 DEF EntryOld, RegInv
<1>18. RegLive'
  <2>1. /\ Nodes(ref) = Elements(ref) /\ Nodes(Walk(new)) = Elements(NewList)
    BY <1>0, OnLists
  <2>2. ASSUME NEW n \in InLists, node'[n].reg \in unregistered'
        PROVE  node'[n].reg \in midway'
    <3> DEFINE q == node'[n].reg
    <3>1. n \in Node /\ Null \notin Reg /\ unregistered' \subseteq Reg
      BY <1>1, <1>7, <1>8, <1>9, ActiveTypes
    <3>2. q # Null /\ q = node[n].reg BY <1>6, <2>2, <3>1
    <3>3. CASE q \in unregistered
      BY <1>1, <2>1, <3>2, <3>3 DEF RegLive, RegInv, InLists
    <3>4. CASE q \in R
      <4>1. n # id BY <1>6, <3>1, <3>2, <3>4
      <4>2. entry[q] = id BY <1>3, <3>4
      <4>3. n \notin Elements(ref)
        <5> SUFFICES ASSUME n \in Elements(ref) PROVE FALSE
          OBVIOUS
        <5>1. PICK k \in 1 .. Len(ref) : n = ref[k] BY DEF Elements
        <5>2. entry[q] = n BY <3>2, <5>1 DEF Holders, RegInv
        <5>3. QED BY <4>1, <4>2, <5>2
      <4>4. n \in Nodes(Walk(new)) \ {id} /\ node[n].reg = q
        BY <2>1, <2>2, <3>2, <4>1, <4>3 DEF InLists
      <4>5. TakenOver(q, id) BY <4>4 DEF TakenOver
      <4>6. QED BY <1>1, <3>4, <4>5
    <3>5. QED BY <1>1, <2>2, <3>3, <3>4
  <2>3. QED BY <1>1, <1>5, <2>1, <2>2 DEF RegLive, InLists
<1>19. QED BY <1>13, <1>14, <1>15, <1>16, <1>17, <1>18 DEF RegInv

LEMMA RegAnswer ==
  ASSUME LockInv, TypeOK, ListInv, RegInv, NEW t \in Thread, Answer(t)
  PROVE  RegInv'
<1>1. CASE Query(t) \/ Effect(t)
  <2>1. call[t] # NoCall /\ adding[t] = Null
    BY <1>1 DEF Query, Effect, LockInv, CallsPlaced, NoCall
  <2>2. QED BY <1>1, <2>1, RegReturn DEF Query, Effect
<1>2. QED BY <1>1, RegAdd, RegLink, RegDel DEF Answer

LEMMA RegInit == Init => RegInv
<1> SUFFICES ASSUME Init PROVE RegInv OBVIOUS
<1>1. /\ ref = <<>> /\ registry = {} /\ unregistered = {} /\ calls = 0
      /\ call = [t \in Thread |-> NoCall]
      /\ adding = [t \in Thread |-> Null]
      /\ entry = [r \in Reg |-> Null] /\ allocated = 0
  BY DEF Init
<1>2. \A n \in Node : node[n].reg = Null /\ node[n].registered # "yes"
  BY DEF Init, Fresh
<1>3. Active = {} BY <1>1 DEF Active
<1>4. Len(NewList) = 0
  <2>1. Shape /\ Phases /\ pc[DeviceThread] = "sleep"
    BY ListInit, Threads DEF ListInv, Init
  <2>2. QED BY <2>1, NothingNew
<1>5. Numbers BY <1>1, <1>2 DEF Numbers, Null
<1>6. Flagged BY <1>2 DEF Flagged
<1>7. Holders BY <1>1, <1>4 DEF Holders
<1>8. Held BY <1>3 DEF Held
<1>9. EntryOld BY <1>1 DEF EntryOld, Null
<1>10. RegLive BY <1>1 DEF RegLive
<1>11. QED BY <1>5, <1>6, <1>7, <1>8, <1>9, <1>10 DEF RegInv

LEMMA RegStep ==
  LockInv /\ TypeOK /\ ListInv /\ RegInv /\ [Next]_vars => RegInv'
<1> SUFFICES ASSUME LockInv, TypeOK, ListInv, RegInv, [Next]_vars
             PROVE  RegInv'
  OBVIOUS
<1>1. CASE UNCHANGED vars
  <2>1. UNCHANGED <<allocated, new, next, part, ref, refp, entry, registry,
                    adding, call, calls, unregistered, midway, lost, node>>
    BY <1>1 DEF vars, heap, lists, cursors, history
  <2>2. NewList' = NewList /\ Seen' = Seen BY <2>1 DEF NewList, Seen, Walk
  <2>3. SameHeld BY <2>1 DEF SameHeld
  <2>4. QED BY <2>1, <2>2, <2>3, RegStill
<1>2. CASE Device \/ Input
  BY <1>2, RegRefresh, RegMatch, RegUnplug, RegGoes, RegSwap DEF Device
<1>3. CASE \E t \in Thread : Calls(t) \/ Answer(t)
  BY <1>3, RegCall, RegAnswer
<1>4. QED BY <1>1, <1>2, <1>3 DEF Next

WinInv == WalkInv /\ RegInv

LEMMA WinInvariant == Spec => []WinInv
<1>1. Init => WinInv
  BY LockInit, TypeInit, ListInit, KnowingInit, RegInit DEF WalkInv, WinInv
<1>2. WinInv /\ [Next]_vars => WinInv'
  BY LockStep, TypeStep, ListStep, KnowingStep, RegStep DEF WalkInv, WinInv
<1>3. QED BY <1>1, <1>2, PTL DEF Spec

\* For any devices, calls and bounds, a registered node points to a node that
\* was freed only if its device was once found missing (win_helpers.c:357 to
\* 383); the swap leads all others to the new nodes (860 to 862).
THEOREM EntryStays == Spec => []EntryLive
<1>1. WinInv => EntryLive
  <2> SUFFICES ASSUME WinInv, NEW r \in registry \ lost
               PROVE  entry[r] \notin freed
    BY DEF EntryLive
  <2>1. TypeOK /\ Shape /\ Older /\ Held
    BY DEF WinInv, WalkInv, ListInv, RegInv
  <2>2. entry[r] \in InLists BY <2>1 DEF Held, Active, InLists
  <2>3. QED BY <2>1, <2>2, Apart
<1>2. QED BY <1>1, WinInvariant, PTL

\* For any devices, calls and bounds, a node in use points to a registered node
\* that was freed only if that one was unregistered while a new node had its
\* pointer already (win_helpers.c:285, win.c:842).
THEOREM RegStays == Spec => []RegLive
<1>1. WinInv => RegLive BY DEF WinInv, RegInv
<1>2. QED BY <1>1, WinInvariant, PTL
=============================================================================
