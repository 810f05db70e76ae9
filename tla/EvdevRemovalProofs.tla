------------------------- MODULE EvdevRemovalProofs -------------------------
(***************************************************************************)
(* Theorems about EvdevRemoval, for any set of devices and any threads.    *)
(*                                                                         *)
(* When removals are spaced (Spaced), exactly one thing at a time carries  *)
(* the removal in progress: register_del, the byte in the input pipe, the  *)
(* input thread, the byte in the device pipe, the device thread.  IInv     *)
(* says so, ties the semaphore and the list to that stage, and says from   *)
(* which stage on the input thread is known to hold no removed node.       *)
(***************************************************************************)
EXTENDS EvdevRemoval, TLAPS

-----------------------------------------------------------------------------
(* Types *)

\* Between the steps of register_del a caller works on a device.
TypeInv ==
    /\ TypeOK
    /\ \A t \in Thread : Removing(t) => target[t] \in Node

USE DEF lists, pipes, locals, callerLocals, WakeInput, WakeDevice, Ended

LEMMA InitTypes == ASSUME Init PROVE TypeInv
<1>1. ASSUME NEW t \in Thread
      PROVE  pc[t] \in Place \ RemovalPc
  BY DEF Init, Home, Place, RemovalPc
<1>2. pc \in [Thread -> Place] BY <1>1 DEF Init
<1>3. TypeOK BY <1>2 DEF Init, TypeOK, Byte, NoByte
<1>4. QED BY <1>1, <1>3 DEF TypeInv, Removing

\* A step moves one thread at most, to a place of its code.
LEMMA PlaceStep ==
    ASSUME TypeOK, NEW t \in Thread, NEW l \in Place, Goto(t, l)
    PROVE  /\ pc' \in [Thread -> Place]
           /\ pc'[t] = l
           /\ \A u \in Thread \ {t} : pc'[u] = pc[u]
BY DEF TypeOK, Goto

LEMMA HomePlace == ASSUME NEW t \in Thread
                   PROVE  Home(t) \in Place \ RemovalPc
BY DEF Home, Place, RemovalPc

LEMMA CallTypes ==
    ASSUME TypeInv, NEW t \in Caller, Call(t)
    PROVE  TypeInv'
<1>0. t \in Thread BY ThreadAssumption
<1>1. CASE \E n \in Node : RegisterAdd(t, n)
  BY <1>1 DEF RegisterAdd, TypeInv, TypeOK, Removing
<1>2. CASE \E n \in Node : DelBegin(t, n)
  <2>1. PICK n \in Node : DelBegin(t, n) BY <1>2
  <2>2. PICK l \in Place : Goto(t, l)
    BY <2>1 DEF DelBegin, Place, RemovalPc
  <2>3. /\ pc' \in [Thread -> Place]
        /\ \A u \in Thread \ {t} : pc'[u] = pc[u]
    BY <1>0, <2>2, PlaceStep DEF TypeInv
  <2>4. TypeOK'
    BY <1>0, <2>1, <2>3 DEF DelBegin, TypeInv, TypeOK
  <2>5. QED
    BY <1>0, <2>1, <2>3, <2>4 DEF DelBegin, TypeInv, TypeOK, Removing
<1>3. CASE Reenumerate(t)
  BY <1>3 DEF Reenumerate, TypeInv, TypeOK, Removing, Byte
<1>4. QED BY <1>1, <1>2, <1>3 DEF Call

LEMMA RemovalTypes ==
    ASSUME TypeInv, NEW t \in Caller, Removal(t)
    PROVE  TypeInv'
<1>0. t \in Thread BY ThreadAssumption
<1>1. PICK l \in Place : /\ Goto(t, l)
                         /\ Removing(t)
                         /\ l \in RemovalPc \/ l = Home(t)
  BY <1>0, HomePlace
     DEF Removal, DelTail, DelCut, DelUnlink, DelPush, DelPost, DelSignal,
         Removing, RemovalPc, Place
<1>2. /\ pc' \in [Thread -> Place]
      /\ \A u \in Thread \ {t} : pc'[u] = pc[u]
  BY <1>0, <1>1, PlaceStep DEF TypeInv
<1>3. target[t] \in Node BY <1>0, <1>1 DEF TypeInv
<1>4. TypeOK'
  <2>1. CASE DelUnlink(t)
    BY <1>0, <1>2, <1>3, <2>1 DEF DelUnlink, TypeInv, TypeOK
  <2>2. CASE DelPush(t)
    BY <1>0, <1>2, <1>3, <2>2 DEF DelPush, TypeInv, TypeOK
  <2>3. CASE DelPost(t) BY <1>2, <2>3 DEF DelPost, TypeInv, TypeOK
  <2>4. CASE DelSignal(t) BY <1>2, <2>4 DEF DelSignal, TypeInv, TypeOK
  <2>5. CASE DelTail(t) BY <1>2, <2>5 DEF DelTail, TypeInv, TypeOK
  <2>6. CASE DelCut(t)
    BY <1>0, <1>2, <1>3, <2>6 DEF DelCut, TypeInv, TypeOK
  <2>7. QED BY <2>1, <2>2, <2>3, <2>4, <2>5, <2>6 DEF Removal
<1>5. \/ target' = target
      \/ DelSignal(t)
  BY DEF Removal, DelTail, DelCut, DelUnlink, DelPush, DelPost, DelSignal
<1>6. ASSUME NEW u \in Thread, Removing(u)' PROVE target'[u] \in Node
  <2>0. u = t => target' = target
    BY <1>0, <1>5, <1>6, HomePlace, PlaceStep
       DEF DelSignal, Removing, TypeInv
  <2>1. CASE u = t BY <1>3, <2>0, <2>1
  <2>2. CASE u # t
    <3>1. pc'[u] = pc[u] BY <1>2, <2>2
    <3>2. Removing(u) BY <1>6, <3>1 DEF Removing
    <3>3. target'[u] = target[u]
      BY <1>0, <1>5, <2>2 DEF DelSignal, TypeInv, TypeOK
    <3>4. QED BY <3>2, <3>3 DEF TypeInv
  <2>3. QED BY <2>1, <2>2
<1>7. QED BY <1>4, <1>6 DEF TypeInv

LEMMA StopTypes ==
    ASSUME TypeInv, NEW t \in App, Stop(t)
    PROVE  TypeInv'
<1>0. t \in Thread BY DEF Thread
<1>1. PICK l \in Place \ RemovalPc : Goto(t, l)
  BY DEF Stop, StopRequest, StopJoinInput, StopJoinDevice, Place, RemovalPc
<1>2. /\ pc' \in [Thread -> Place]
      /\ pc'[t] = l
      /\ \A u \in Thread \ {t} : pc'[u] = pc[u]
  BY <1>0, <1>1, PlaceStep DEF TypeInv
<1>3. TypeOK'
  BY <1>2 DEF Stop, StopRequest, StopJoinInput, StopJoinDevice, TypeInv,
              TypeOK, Byte
<1>4. target' = target
  BY DEF Stop, StopRequest, StopJoinInput, StopJoinDevice
<1>5. QED BY <1>1, <1>2, <1>3, <1>4 DEF TypeInv, Removing

LEMMA InputTypes ==
    ASSUME TypeInv, Input
    PROVE  TypeInv'
<1>0. InputThread \in Thread BY DEF Thread
<1>1. \/ pc' = pc
      \/ \E l \in Place \ RemovalPc : Goto(InputThread, l)
  BY DEF Input, InputWait, InputNext, InputPurge, InputClosed, InputForward,
         InputEvent, InputSync, InputReturn, Place, RemovalPc
<1>2. /\ pc' \in [Thread -> Place]
      /\ \A u \in Thread : pc'[u] = pc[u] \/ pc'[u] \notin RemovalPc
  <2>1. CASE pc' = pc BY <2>1 DEF TypeInv, TypeOK
  <2>2. CASE \E l \in Place \ RemovalPc : Goto(InputThread, l)
    BY <1>0, <2>2, PlaceStep DEF TypeInv
  <2>3. QED BY <1>1, <2>1, <2>2
<1>3. TypeOK'
  <2>1. CASE InputWait BY <1>2, <2>1 DEF InputWait, TypeInv, TypeOK
  <2>2. CASE InputNext \/ InputPurge \/ InputClosed \/ InputForward
    BY <1>2, <2>2 DEF InputNext, InputPurge, InputClosed, InputForward,
                      TypeInv, TypeOK, Byte
  <2>3. CASE \E n \in Node : InputEvent(n)
    BY <1>2, <2>3 DEF InputEvent, TypeInv, TypeOK
  <2>4. CASE InputSync \/ InputReturn
    BY <1>2, <2>4 DEF InputSync, InputReturn, TypeInv, TypeOK
  <2>5. QED BY <2>1, <2>2, <2>3, <2>4 DEF Input
<1>4. target' = target
  BY DEF Input, InputWait, InputNext, InputPurge, InputClosed, InputForward,
         InputEvent, InputSync, InputReturn
<1>5. QED BY <1>2, <1>3, <1>4 DEF TypeInv, Removing

LEMMA DeviceTypes ==
    ASSUME TypeInv, Device \/ DeviceFails
    PROVE  TypeInv'
<1>0. DeviceThread \in Thread BY DEF Thread
<1>1. \/ pc' = pc
      \/ \E l \in Place \ RemovalPc : Goto(DeviceThread, l)
  BY DEF Device, DeviceRead, DeviceClosed, DeviceTryWait, DeviceValue,
         DeviceCollect, DeviceFree, DeviceForget, DeviceRelist,
         DeviceRelisted, DeviceFails, Place, RemovalPc
<1>2. /\ pc' \in [Thread -> Place]
      /\ \A u \in Thread : pc'[u] = pc[u] \/ pc'[u] \notin RemovalPc
  <2>1. CASE pc' = pc BY <2>1 DEF TypeInv, TypeOK
  <2>2. CASE \E l \in Place \ RemovalPc : Goto(DeviceThread, l)
    BY <1>0, <2>2, PlaceStep DEF TypeInv
  <2>3. QED BY <1>1, <2>1, <2>2
<1>3. TypeOK'
  <2> USE <1>0, <1>2 DEF TypeInv, TypeOK, Byte
  <2>1. CASE DeviceRead BY <2>1 DEF DeviceRead
  <2>2. CASE DeviceClosed \/ DeviceTryWait
    BY <2>2 DEF DeviceClosed, DeviceTryWait
  <2>3. CASE DeviceValue BY <2>3 DEF DeviceValue
  <2>4. CASE DeviceCollect \/ DeviceForget
    BY <2>4 DEF DeviceCollect, DeviceForget
  <2>5. CASE \E n \in Node : DeviceFree(n) BY <2>5 DEF DeviceFree
  <2>6. CASE DeviceRelist \/ DeviceRelisted \/ DeviceFails
    BY <2>6 DEF DeviceRelist, DeviceRelisted, DeviceFails
  <2>7. QED BY <2>1, <2>2, <2>3, <2>4, <2>5, <2>6 DEF Device
<1>4. target' = target
  BY DEF Device, DeviceRead, DeviceClosed, DeviceTryWait, DeviceValue,
         DeviceCollect, DeviceFree, DeviceForget, DeviceRelist,
         DeviceRelisted, DeviceFails
<1>5. QED BY <1>2, <1>3, <1>4 DEF TypeInv, Removing

LEMMA UnplugTypes ==
    ASSUME TypeInv, NEW n \in Node, Unplug(n)
    PROVE  TypeInv'
BY DEF Unplug, TypeInv, TypeOK, Removing

LEMMA NextTypes == TypeInv /\ [Next]_vars => TypeInv'
<1> SUFFICES ASSUME TypeInv, [Next]_vars PROVE TypeInv'
  OBVIOUS
<1>1. CASE \E t \in Caller : Call(t) BY <1>1, CallTypes
<1>2. CASE \E t \in Caller : Removal(t) BY <1>2, RemovalTypes
<1>3. CASE \E t \in App : Stop(t) BY <1>3, StopTypes
<1>4. CASE Input BY <1>4, InputTypes
<1>5. CASE Device \/ DeviceFails BY <1>5, DeviceTypes
<1>6. CASE \E n \in Node : Unplug(n)
  BY <1>6, UnplugTypes
<1>7. CASE UNCHANGED vars BY <1>7 DEF vars, TypeInv, TypeOK, Removing
<1>8. QED BY <1>1, <1>2, <1>3, <1>4, <1>5, <1>6, <1>7 DEF Next

\* Every variable keeps its type, however removals overlap.
THEOREM TypeCorrect == Spec => []TypeOK
<1>1. Init => TypeInv BY InitTypes
<1>2. TypeInv => TypeOK BY DEF TypeInv
<1>3. QED BY <1>1, <1>2, NextTypes, PTL DEF Spec

-----------------------------------------------------------------------------
(* The inductive invariant *)

Limbo == retired \ freed

\* The stages of the removal in progress.
Called == \E t \in Thread : Removing(t)
Announced == inputPipe /\ ~closed
Flushed ==
    \/ pc[InputThread] = "forward"
    \/ pc[InputThread] = "closed" /\ ~closed
Acknowledged == devicePipe = 0 /\ ~closed
Counted ==
    \/ pc[DeviceThread] = "trywait"
    \/ pc[DeviceThread] = "closed" /\ buf = 0 /\ ~closed
Freeing ==
    \/ pc[DeviceThread] \in {"value", "collect", "free"}
    \/ pc[DeviceThread] = "failed" /\ freeing # {}

OneCaller ==
    \A t, u \in Thread : Removing(t) /\ Removing(u) => t = u

OneStage ==
    /\ Called => ~(Announced \/ Flushed \/ Acknowledged \/ Counted \/ Freeing)
    /\ Announced => ~(Flushed \/ Acknowledged \/ Counted \/ Freeing)
    /\ Flushed => ~(Acknowledged \/ Counted \/ Freeing)
    /\ Acknowledged => ~(Counted \/ Freeing)

InProgress ==
    Announced \/ Flushed \/ Acknowledged \/ Counted \/ Freeing =>
      Limbo # {} \/ pc[DeviceThread] = "free"

Lists ==
    /\ polled \subseteq inputs \cup lost
    /\ inputs \cap lost = {}
    /\ (inputs \cup lost) \cap retired = {}
    /\ freed \subseteq retired \ shut

Targets ==
    \A t \in Thread :
      /\ Removing(t) => target[t] \notin polled
      /\ pc[t] \in {"tail", "cut", "unlink"} =>
           target[t] \in inputs /\ Limbo = {} /\ input_removed = {}
      /\ pc[t] = "push" =>
           Limbo = {target[t]} /\ input_removed = {} /\ saved[t] = {}
      /\ pc[t] \in {"post", "signal"} =>
           Limbo = {target[t]} /\ input_removed = {target[t]}
      /\ between[t] \subseteq
           IF pc[t] = "cut" THEN inputs \ {target[t]} ELSE {}

\* The list has one node at most, which is freed with it or never.
RemovedList ==
    /\ \A m, n \in Limbo : m = n
    /\ ~Called /\ (pc[DeviceThread] = "free" => Limbo # {}) =>
         input_removed = Limbo
    /\ freeing \subseteq Limbo
    /\ pc[DeviceThread] = "free" => freeing = Limbo
    /\ pc[DeviceThread] \notin {"free", "failed"} => freeing = {}

Semaphore ==
    remove_count =
      IF \/ Limbo = {}
         \/ Freeing
         \/ \E t \in Thread : pc[t] \in {"push", "post"}
        THEN 0 ELSE 1

\* The input thread has nothing to do with a removed node.
Quiet == Held \cap Limbo = {}

FlushedQuiet ==
    /\ Pipe \in batch /\ ~closed => inputPipe /\ Quiet
    /\ Flushed \/ Acknowledged \/ Counted \/ Freeing => Quiet

IInv ==
    /\ TypeInv
    /\ OneCaller
    /\ OneStage
    /\ InProgress
    /\ Lists
    /\ Targets
    /\ RemovedList
    /\ Semaphore
    /\ FlushedQuiet
-----------------------------------------------------------------------------
(* One lemma per action *)

\* A new device is linked and polled: it is in no removal.
LEMMA RegisterAddInv ==
    ASSUME Spaced, IInv, NEW t \in Caller, NEW n \in Node, RegisterAdd(t, n)
    PROVE  IInv'
<1>1. TypeInv'
  BY CallTypes DEF IInv, Call
<1>2. OneCaller' /\ OneStage' /\ InProgress' /\ Lists' /\ RemovedList' /\
      Semaphore' /\ FlushedQuiet'
  BY DEF RegisterAdd, IInv, OneCaller, Removing, OneStage, Called, Announced,
     Flushed, Acknowledged, Counted, Freeing, InProgress, Limbo, Lists,
     RemovedList, Semaphore, FlushedQuiet, Quiet, Held
<1>3. Targets'
  BY ThreadAssumption, HomePlace DEF RegisterAdd, IInv, TypeInv, TypeOK, Goto,
     Thread, RemovalPc, Targets, Removing, Limbo
<1>4. QED BY <1>1, <1>2, <1>3 DEF IInv

\* No removal is in progress when one starts.
LEMMA DelBeginInv ==
    ASSUME Spaced, IInv, NEW t \in Caller, NEW n \in Node, DelBegin(t, n)
    PROVE  IInv'
<1>1. TypeInv'
  BY CallTypes DEF IInv, Call
<1>2. Lists'
  BY DEF DelBegin, IInv, Lists
<1>3. OneCaller'
  BY ThreadAssumption, HomePlace, PipeAssumption DEF DelBegin, IInv,
     OneCaller, Removing, TypeInv, TypeOK, Goto, Thread, Home, Place,
     RemovalPc, NoByte, Called, Announced, Flushed, Acknowledged, Counted,
     Freeing, Limbo, RemovalOver, OneStage, InProgress, Lists, Targets,
     RemovedList, Semaphore, FlushedQuiet, Quiet, Held
<1>4. OneStage'
  BY ThreadAssumption, HomePlace, PipeAssumption DEF DelBegin, IInv, TypeInv,
     TypeOK, Goto, Thread, RemovalPc, OneStage, Called, Announced, Flushed,
     Acknowledged, Counted, Freeing, Removing, InProgress, RemovalOver,
     FlushedQuiet, NoByte, OneCaller, Limbo
<1>5. InProgress'
  BY ThreadAssumption, HomePlace DEF DelBegin, IInv, TypeInv, TypeOK, Goto,
     Thread, RemovalPc, InProgress, Announced, Flushed, Acknowledged, Counted,
     Freeing, Limbo, OneStage, Targets, RemovedList, NoByte, RemovalOver
<1>6. Targets'
  BY ThreadAssumption, HomePlace DEF DelBegin, IInv, TypeInv, TypeOK, Goto,
     Thread, RemovalPc, Targets, Removing, Limbo, Lists, OneCaller,
     RemovedList, Called, OneStage, Freeing, RemovalOver
<1>7. RemovedList'
  BY ThreadAssumption, HomePlace, PipeAssumption DEF DelBegin, IInv,
     RemovedList, Called, Removing, Limbo, TypeInv, TypeOK, Goto, Thread,
     Home, Place, RemovalPc, NoByte, Announced, Flushed, Acknowledged,
     Counted, Freeing, RemovalOver, OneCaller, OneStage, InProgress, Lists,
     Targets, Semaphore, FlushedQuiet, Quiet, Held
<1>8. Semaphore'
  BY ThreadAssumption, HomePlace, PipeAssumption DEF DelBegin, IInv,
     Semaphore, Freeing, Limbo, TypeInv, TypeOK, Goto, Thread, Home, Place,
     RemovalPc, NoByte, Called, Announced, Flushed, Acknowledged, Counted,
     Removing, RemovalOver, OneCaller, OneStage, InProgress, Lists, Targets,
     RemovedList, FlushedQuiet, Quiet, Held
<1>9. FlushedQuiet'
  BY ThreadAssumption, HomePlace, PipeAssumption DEF DelBegin, IInv,
     FlushedQuiet, Quiet, Held, Flushed, Acknowledged, Counted, Freeing,
     Limbo, TypeInv, TypeOK, Goto, Thread, Home, Place, RemovalPc, NoByte,
     Called, Announced, Removing, RemovalOver, OneCaller, OneStage,
     InProgress, Lists, Targets, RemovedList, Semaphore
<1>10. QED BY <1>1, <1>2, <1>3, <1>4, <1>5, <1>6, <1>7, <1>8, <1>9 DEF IInv

\* A re-enumeration request may only overwrite an acknowledgement.
LEMMA ReenumerateInv ==
    ASSUME Spaced, IInv, NEW t \in Caller, Reenumerate(t)
    PROVE  IInv'
<1>1. TypeInv'
  BY CallTypes DEF IInv, Call
<1>2. OneCaller' /\ OneStage' /\ InProgress' /\ Lists' /\ Targets' /\
      RemovedList' /\ Semaphore' /\ FlushedQuiet'
  BY DEF Reenumerate, IInv, OneCaller, Removing, OneStage, Called, Announced,
     Flushed, Acknowledged, Counted, Freeing, InProgress, Limbo, Lists,
     Targets, RemovedList, Semaphore, FlushedQuiet, Quiet, Held
<1>3. QED BY <1>1, <1>2 DEF IInv

LEMMA DelTailInv ==
    ASSUME Spaced, IInv, NEW t \in Caller, DelTail(t)
    PROVE  IInv'
<1>1. TypeInv'
  BY RemovalTypes DEF IInv, Removal
<1>2. Lists'
  BY DEF DelTail, IInv, Lists
<1>3. OneCaller'
  BY ThreadAssumption, HomePlace DEF DelTail, IInv, TypeInv, TypeOK, Goto,
     Thread, RemovalPc, OneCaller, Removing
<1>4. OneStage'
  BY ThreadAssumption, HomePlace DEF DelTail, IInv, TypeInv, TypeOK, Goto,
     Thread, RemovalPc, OneStage, Called, Announced, Flushed, Acknowledged,
     Counted, Freeing, Removing
<1>5. InProgress'
  BY ThreadAssumption DEF DelTail, IInv, InProgress, Announced, Flushed,
     Acknowledged, Counted, Freeing, Limbo, TypeInv, TypeOK, Goto, Thread
<1>6. Targets'
  BY ThreadAssumption, HomePlace DEF DelTail, IInv, TypeInv, TypeOK, Goto,
     Thread, RemovalPc, Targets, Removing, Limbo, Lists, OneCaller,
     RemovedList, Called, OneStage, Freeing, RemovalOver
<1>7. RemovedList'
  BY ThreadAssumption, HomePlace DEF DelTail, IInv, TypeInv, TypeOK, Goto,
     Thread, RemovalPc, RemovedList, Called, Removing, Limbo
<1>8. Semaphore'
  BY ThreadAssumption DEF DelTail, IInv, Semaphore, Freeing, Limbo, TypeInv,
     TypeOK, Goto, Thread
<1>9. FlushedQuiet'
  BY ThreadAssumption, HomePlace DEF DelTail, IInv, TypeInv, TypeOK, Goto,
     Thread, RemovalPc, FlushedQuiet, Quiet, Held, Flushed, Acknowledged,
     Counted, Freeing, Limbo
<1>10. QED BY <1>1, <1>2, <1>3, <1>4, <1>5, <1>6, <1>7, <1>8, <1>9 DEF IInv

\* The removed node enters limbo; what it takes off the list stays linked.
LEMMA DelCutInv ==
    ASSUME Spaced, IInv, NEW t \in Caller, DelCut(t)
    PROVE  IInv'
<1>1. TypeInv'
  BY RemovalTypes DEF IInv, Removal
<1>2. OneCaller'
  BY ThreadAssumption, HomePlace DEF DelCut, IInv, TypeInv, TypeOK, Goto,
     Thread, RemovalPc, OneCaller, Removing
<1>3. OneStage'
  BY ThreadAssumption, HomePlace DEF DelCut, IInv, TypeInv, TypeOK, Goto,
     Thread, RemovalPc, OneStage, Called, Announced, Flushed, Acknowledged,
     Counted, Freeing, Removing
<1>4. InProgress'
  BY ThreadAssumption DEF DelCut, IInv, InProgress, Announced, Flushed,
     Acknowledged, Counted, Freeing, Limbo, TypeInv, TypeOK, Goto, Thread
<1>5. Lists'
  BY ThreadAssumption, HomePlace DEF DelCut, IInv, TypeInv, TypeOK, Goto,
     Thread, RemovalPc, Lists, Targets, Removing
<1>6. Targets'
  BY ThreadAssumption, HomePlace DEF DelCut, IInv, TypeInv, TypeOK, Goto,
     Thread, RemovalPc, Targets, Removing, Limbo, Lists, OneCaller,
     RemovedList, Called, OneStage, Freeing, RemovalOver
<1>7. RemovedList'
  BY ThreadAssumption, HomePlace DEF DelCut, IInv, TypeInv, TypeOK, Goto,
     Thread, RemovalPc, RemovedList, Called, Removing, Limbo, Targets,
     OneStage, Freeing, Lists, OneCaller
<1>8. Semaphore'
  BY ThreadAssumption, HomePlace DEF DelCut, IInv, TypeInv, TypeOK, Goto,
     Thread, RemovalPc, Semaphore, Freeing, Limbo, Targets, OneStage,
     OneCaller, Called, Counted, InProgress, RemovedList, Removing
<1>9. FlushedQuiet'
  BY ThreadAssumption, HomePlace DEF DelCut, IInv, TypeInv, TypeOK, Goto,
     Thread, RemovalPc, FlushedQuiet, Quiet, Held, Flushed, Acknowledged,
     Counted, Freeing, Limbo, Lists, OneStage, InProgress, Called, Announced,
     Removing, Targets, NoByte
<1>10. QED BY <1>1, <1>2, <1>3, <1>4, <1>5, <1>6, <1>7, <1>8, <1>9 DEF IInv

\* The removed node enters limbo.
LEMMA DelUnlinkInv ==
    ASSUME Spaced, IInv, NEW t \in Caller, DelUnlink(t)
    PROVE  IInv'
<1>1. TypeInv'
  BY RemovalTypes DEF IInv, Removal
<1>2. OneCaller'
  BY ThreadAssumption, HomePlace DEF DelUnlink, IInv, TypeInv, TypeOK, Goto,
     Thread, RemovalPc, OneCaller, Removing
<1>3. OneStage'
  BY ThreadAssumption, HomePlace DEF DelUnlink, IInv, TypeInv, TypeOK, Goto,
     Thread, RemovalPc, OneStage, Called, Announced, Flushed, Acknowledged,
     Counted, Freeing, Removing
<1>4. InProgress'
  BY ThreadAssumption DEF DelUnlink, IInv, InProgress, Announced, Flushed,
     Acknowledged, Counted, Freeing, Limbo, TypeInv, TypeOK, Goto, Thread
<1>5. Lists'
  BY ThreadAssumption, HomePlace DEF DelUnlink, IInv, TypeInv, TypeOK, Goto,
     Thread, RemovalPc, Lists, Targets, Removing
<1>6. Targets'
  BY ThreadAssumption, HomePlace DEF DelUnlink, IInv, TypeInv, TypeOK, Goto,
     Thread, RemovalPc, Targets, Removing, Limbo, Lists, OneCaller,
     RemovedList, Called, OneStage, Freeing, RemovalOver
<1>7. RemovedList'
  BY ThreadAssumption, HomePlace DEF DelUnlink, IInv, TypeInv, TypeOK, Goto,
     Thread, RemovalPc, RemovedList, Called, Removing, Limbo, Targets,
     OneStage, Freeing, Lists, OneCaller
<1>8. Semaphore'
  BY ThreadAssumption, HomePlace DEF DelUnlink, IInv, TypeInv, TypeOK, Goto,
     Thread, RemovalPc, Semaphore, Freeing, Limbo, Targets, OneStage,
     OneCaller, Called, Counted, InProgress, RemovedList, Removing
<1>9. FlushedQuiet'
  BY ThreadAssumption, HomePlace DEF DelUnlink, IInv, TypeInv, TypeOK, Goto,
     Thread, RemovalPc, FlushedQuiet, Quiet, Held, Flushed, Acknowledged,
     Counted, Freeing, Limbo, Lists, OneStage, InProgress, Called, Announced,
     Removing, Targets, NoByte
<1>10. QED BY <1>1, <1>2, <1>3, <1>4, <1>5, <1>6, <1>7, <1>8, <1>9 DEF IInv

LEMMA DelPushInv ==
    ASSUME Spaced, IInv, NEW t \in Caller, DelPush(t)
    PROVE  IInv'
<1>1. TypeInv'
  BY RemovalTypes DEF IInv, Removal
<1>2. Lists'
  BY DEF DelPush, IInv, Lists
<1>3. OneCaller'
  BY ThreadAssumption, HomePlace DEF DelPush, IInv, TypeInv, TypeOK, Goto,
     Thread, RemovalPc, OneCaller, Removing
<1>4. OneStage'
  BY ThreadAssumption, HomePlace DEF DelPush, IInv, TypeInv, TypeOK, Goto,
     Thread, RemovalPc, OneStage, Called, Announced, Flushed, Acknowledged,
     Counted, Freeing, Removing
<1>5. InProgress'
  BY ThreadAssumption DEF DelPush, IInv, InProgress, Announced, Flushed,
     Acknowledged, Counted, Freeing, Limbo, TypeInv, TypeOK, Goto, Thread
<1>6. Targets'
  BY ThreadAssumption, HomePlace DEF DelPush, IInv, TypeInv, TypeOK, Goto,
     Thread, RemovalPc, Targets, Removing, Limbo, Lists, OneCaller,
     RemovedList, Called, OneStage, Freeing, RemovalOver
<1>7. RemovedList'
  BY ThreadAssumption, HomePlace DEF DelPush, IInv, TypeInv, TypeOK, Goto,
     Thread, RemovalPc, RemovedList, Called, Removing, Limbo
<1>8. Semaphore'
  BY ThreadAssumption DEF DelPush, IInv, Semaphore, Freeing, Limbo, TypeInv,
     TypeOK, Goto, Thread
<1>9. FlushedQuiet'
  BY ThreadAssumption, HomePlace DEF DelPush, IInv, TypeInv, TypeOK, Goto,
     Thread, RemovalPc, FlushedQuiet, Quiet, Held, Flushed, Acknowledged,
     Counted, Freeing, Limbo
<1>10. QED BY <1>1, <1>2, <1>3, <1>4, <1>5, <1>6, <1>7, <1>8, <1>9 DEF IInv

LEMMA DelPostInv ==
    ASSUME Spaced, IInv, NEW t \in Caller, DelPost(t)
    PROVE  IInv'
<1>1. TypeInv'
  BY RemovalTypes DEF IInv, Removal
<1>2. Lists'
  BY DEF DelPost, IInv, Lists
<1>3. OneCaller'
  BY ThreadAssumption, HomePlace DEF DelPost, IInv, TypeInv, TypeOK, Goto,
     Thread, RemovalPc, OneCaller, Removing
<1>4. OneStage'
  BY ThreadAssumption, HomePlace DEF DelPost, IInv, TypeInv, TypeOK, Goto,
     Thread, RemovalPc, OneStage, Called, Announced, Flushed, Acknowledged,
     Counted, Freeing, Removing
<1>5. InProgress'
  BY ThreadAssumption DEF DelPost, IInv, InProgress, Announced, Flushed,
     Acknowledged, Counted, Freeing, Limbo, TypeInv, TypeOK, Goto, Thread
<1>6. Targets'
  BY ThreadAssumption, HomePlace DEF DelPost, IInv, TypeInv, TypeOK, Goto,
     Thread, RemovalPc, Targets, Removing, Limbo
<1>7. RemovedList'
  BY ThreadAssumption, HomePlace DEF DelPost, IInv, TypeInv, TypeOK, Goto,
     Thread, RemovalPc, RemovedList, Called, Removing, Limbo
<1>8. Semaphore'
  BY ThreadAssumption, HomePlace DEF DelPost, IInv, TypeInv, TypeOK, Goto,
     Thread, RemovalPc, Semaphore, Freeing, Limbo, Targets, OneStage,
     OneCaller, Called, Counted, InProgress, RemovedList, Removing
<1>9. FlushedQuiet'
  BY ThreadAssumption, HomePlace DEF DelPost, IInv, TypeInv, TypeOK, Goto,
     Thread, RemovalPc, FlushedQuiet, Quiet, Held, Flushed, Acknowledged,
     Counted, Freeing, Limbo
<1>10. QED BY <1>1, <1>2, <1>3, <1>4, <1>5, <1>6, <1>7, <1>8, <1>9 DEF IInv

\* The byte takes the removal over from the caller.
LEMMA DelSignalInv ==
    ASSUME Spaced, IInv, NEW t \in Caller, DelSignal(t)
    PROVE  IInv'
<1>1. TypeInv'
  BY RemovalTypes DEF IInv, Removal
<1>2. Lists'
  BY DEF DelSignal, IInv, Lists
<1>3. OneCaller'
  BY ThreadAssumption, HomePlace DEF DelSignal, IInv, TypeInv, TypeOK, Goto,
     Thread, RemovalPc, OneCaller, Removing
<1>4. OneStage'
  BY ThreadAssumption, HomePlace, PipeAssumption DEF DelSignal, IInv,
     OneStage, Called, Announced, Flushed, Acknowledged, Counted, Freeing,
     Removing, TypeInv, TypeOK, Goto, Thread, Home, Place, RemovalPc, NoByte,
     Limbo, RemovalOver, OneCaller, InProgress, Lists, Targets, RemovedList,
     Semaphore, FlushedQuiet, Quiet, Held
<1>5. InProgress'
  BY ThreadAssumption, HomePlace DEF DelSignal, IInv, TypeInv, TypeOK, Goto,
     Thread, RemovalPc, InProgress, Announced, Flushed, Acknowledged, Counted,
     Freeing, Limbo, OneStage, Targets, RemovedList, NoByte, RemovalOver
<1>6. Targets'
  BY ThreadAssumption, HomePlace DEF DelSignal, IInv, TypeInv, TypeOK, Goto,
     Thread, RemovalPc, Targets, Removing, Limbo
<1>7. RemovedList'
  BY ThreadAssumption, HomePlace, PipeAssumption DEF DelSignal, IInv,
     RemovedList, Called, Removing, Limbo, TypeInv, TypeOK, Goto, Thread,
     Home, Place, RemovalPc, NoByte, Announced, Flushed, Acknowledged,
     Counted, Freeing, RemovalOver, OneCaller, OneStage, InProgress, Lists,
     Targets, Semaphore, FlushedQuiet, Quiet, Held
<1>8. Semaphore'
  BY ThreadAssumption, HomePlace, PipeAssumption DEF DelSignal, IInv,
     Semaphore, Freeing, Limbo, TypeInv, TypeOK, Goto, Thread, Home, Place,
     RemovalPc, NoByte, Called, Announced, Flushed, Acknowledged, Counted,
     Removing, RemovalOver, OneCaller, OneStage, InProgress, Lists, Targets,
     RemovedList, FlushedQuiet, Quiet, Held
<1>9. FlushedQuiet'
  BY ThreadAssumption, HomePlace, PipeAssumption DEF DelSignal, IInv,
     FlushedQuiet, Quiet, Held, Flushed, Acknowledged, Counted, Freeing,
     Limbo, TypeInv, TypeOK, Goto, Thread, Home, Place, RemovalPc, NoByte,
     Called, Announced, Removing, RemovalOver, OneCaller, OneStage,
     InProgress, Lists, Targets, RemovedList, Semaphore
<1>10. QED BY <1>1, <1>2, <1>3, <1>4, <1>5, <1>6, <1>7, <1>8, <1>9 DEF IInv

\* Once closed is set the bytes of both pipes mean nothing more.
LEMMA StopRequestInv ==
    ASSUME Spaced, IInv, NEW t \in App, StopRequest(t)
    PROVE  IInv'
<1>1. TypeInv'
  BY StopTypes DEF IInv, Stop
<1>2. Lists'
  BY DEF StopRequest, IInv, Lists
<1>3. OneCaller'
  BY ThreadAssumption, HomePlace DEF StopRequest, IInv, TypeInv, TypeOK, Goto,
     Thread, RemovalPc, OneCaller, Removing
<1>4. OneStage'
  BY ThreadAssumption, HomePlace DEF StopRequest, IInv, TypeInv, TypeOK, Goto,
     Thread, RemovalPc, OneStage, Called, Announced, Flushed, Acknowledged,
     Counted, Freeing, Removing
<1>5. InProgress'
  BY ThreadAssumption DEF StopRequest, IInv, InProgress, Announced, Flushed,
     Acknowledged, Counted, Freeing, Limbo, TypeInv, TypeOK, Goto, Thread
<1>6. Targets'
  BY ThreadAssumption, HomePlace DEF StopRequest, IInv, TypeInv, TypeOK, Goto,
     Thread, RemovalPc, Targets, Removing, Limbo
<1>7. RemovedList'
  BY ThreadAssumption, HomePlace DEF StopRequest, IInv, TypeInv, TypeOK, Goto,
     Thread, RemovalPc, RemovedList, Called, Removing, Limbo
<1>8. Semaphore'
  BY ThreadAssumption DEF StopRequest, IInv, Semaphore, Freeing, Limbo,
     TypeInv, TypeOK, Goto, Thread
<1>9. FlushedQuiet'
  BY ThreadAssumption DEF StopRequest, IInv, FlushedQuiet, Quiet, Held,
     Flushed, Acknowledged, Counted, Freeing, Limbo, TypeInv, TypeOK, Goto,
     Thread
<1>10. QED BY <1>1, <1>2, <1>3, <1>4, <1>5, <1>6, <1>7, <1>8, <1>9 DEF IInv

LEMMA StopJoinInputInv ==
    ASSUME Spaced, IInv, NEW t \in App, StopJoinInput(t)
    PROVE  IInv'
<1>1. TypeInv'
  BY StopTypes DEF IInv, Stop
<1>2. Lists'
  BY DEF StopJoinInput, IInv, Lists
<1>3. OneCaller'
  BY ThreadAssumption, HomePlace DEF StopJoinInput, IInv, TypeInv, TypeOK,
     Goto, Thread, RemovalPc, OneCaller, Removing
<1>4. OneStage'
  BY ThreadAssumption, HomePlace DEF StopJoinInput, IInv, TypeInv, TypeOK,
     Goto, Thread, RemovalPc, OneStage, Called, Announced, Flushed,
     Acknowledged, Counted, Freeing, Removing
<1>5. InProgress'
  BY ThreadAssumption DEF StopJoinInput, IInv, InProgress, Announced, Flushed,
     Acknowledged, Counted, Freeing, Limbo, TypeInv, TypeOK, Goto, Thread
<1>6. Targets'
  BY ThreadAssumption, HomePlace DEF StopJoinInput, IInv, TypeInv, TypeOK,
     Goto, Thread, RemovalPc, Targets, Removing, Limbo
<1>7. RemovedList'
  BY ThreadAssumption, HomePlace DEF StopJoinInput, IInv, TypeInv, TypeOK,
     Goto, Thread, RemovalPc, RemovedList, Called, Removing, Limbo
<1>8. Semaphore'
  BY ThreadAssumption DEF StopJoinInput, IInv, Semaphore, Freeing, Limbo,
     TypeInv, TypeOK, Goto, Thread
<1>9. FlushedQuiet'
  BY ThreadAssumption DEF StopJoinInput, IInv, FlushedQuiet, Quiet, Held,
     Flushed, Acknowledged, Counted, Freeing, Limbo, TypeInv, TypeOK, Goto,
     Thread
<1>10. QED BY <1>1, <1>2, <1>3, <1>4, <1>5, <1>6, <1>7, <1>8, <1>9 DEF IInv

LEMMA StopJoinDeviceInv ==
    ASSUME Spaced, IInv, NEW t \in App, StopJoinDevice(t)
    PROVE  IInv'
<1>1. TypeInv'
  BY StopTypes DEF IInv, Stop
<1>2. Lists'
  BY DEF StopJoinDevice, IInv, Lists
<1>3. OneCaller'
  BY ThreadAssumption, HomePlace DEF StopJoinDevice, IInv, TypeInv, TypeOK,
     Goto, Thread, RemovalPc, OneCaller, Removing
<1>4. OneStage'
  BY ThreadAssumption, HomePlace DEF StopJoinDevice, IInv, TypeInv, TypeOK,
     Goto, Thread, RemovalPc, OneStage, Called, Announced, Flushed,
     Acknowledged, Counted, Freeing, Removing
<1>5. InProgress'
  BY ThreadAssumption DEF StopJoinDevice, IInv, InProgress, Announced,
     Flushed, Acknowledged, Counted, Freeing, Limbo, TypeInv, TypeOK, Goto,
     Thread
<1>6. Targets'
  BY ThreadAssumption, HomePlace DEF StopJoinDevice, IInv, TypeInv, TypeOK,
     Goto, Thread, RemovalPc, Targets, Removing, Limbo
<1>7. RemovedList'
  BY ThreadAssumption, HomePlace DEF StopJoinDevice, IInv, TypeInv, TypeOK,
     Goto, Thread, RemovalPc, RemovedList, Called, Removing, Limbo
<1>8. Semaphore'
  BY ThreadAssumption DEF StopJoinDevice, IInv, Semaphore, Freeing, Limbo,
     TypeInv, TypeOK, Goto, Thread
<1>9. FlushedQuiet'
  BY ThreadAssumption DEF StopJoinDevice, IInv, FlushedQuiet, Quiet, Held,
     Flushed, Acknowledged, Counted, Freeing, Limbo, TypeInv, TypeOK, Goto,
     Thread
<1>10. QED BY <1>1, <1>2, <1>3, <1>4, <1>5, <1>6, <1>7, <1>8, <1>9 DEF IInv

\* A new batch holds polled nodes only, none of them removed.
LEMMA InputWaitInv ==
    ASSUME Spaced, IInv, InputWait
    PROVE  IInv'
<1>1. TypeInv'
  BY InputTypes DEF IInv, Input
<1>2. Lists'
  BY DEF InputWait, IInv, Lists
<1>3. OneCaller'
  BY ThreadAssumption DEF InputWait, IInv, TypeInv, TypeOK, Goto, Thread,
     RemovalPc, OneCaller, Removing
<1>4. OneStage'
  BY ThreadAssumption DEF InputWait, IInv, TypeInv, TypeOK, Goto, Thread,
     RemovalPc, OneStage, Called, Announced, Flushed, Acknowledged, Counted,
     Freeing, Removing
<1>5. InProgress'
  BY ThreadAssumption DEF InputWait, IInv, InProgress, Announced, Flushed,
     Acknowledged, Counted, Freeing, Limbo, TypeInv, TypeOK, Goto, Thread
<1>6. Targets'
  BY ThreadAssumption DEF InputWait, IInv, TypeInv, TypeOK, Goto, Thread,
     RemovalPc, Targets, Removing, Limbo
<1>7. RemovedList'
  BY ThreadAssumption DEF InputWait, IInv, TypeInv, TypeOK, Goto, Thread,
     RemovalPc, RemovedList, Called, Removing, Limbo
<1>8. Semaphore'
  BY ThreadAssumption DEF InputWait, IInv, Semaphore, Freeing, Limbo, TypeInv,
     TypeOK, Goto, Thread
<1>9. FlushedQuiet'
  BY ThreadAssumption, PipeAssumption DEF InputWait, IInv, TypeInv, TypeOK,
     Goto, Thread, RemovalPc, FlushedQuiet, Quiet, Held, Flushed,
     Acknowledged, Counted, Freeing, Limbo, Lists, OneStage, InProgress,
     Called, Announced, Removing, Targets, NoByte
<1>10. QED BY <1>1, <1>2, <1>3, <1>4, <1>5, <1>6, <1>7, <1>8, <1>9 DEF IInv

LEMMA InputNextInv ==
    ASSUME Spaced, IInv, InputNext
    PROVE  IInv'
<1>1. TypeInv'
  BY InputTypes DEF IInv, Input
<1>2. Lists'
  BY DEF InputNext, IInv, Lists
<1>3. OneCaller'
  BY ThreadAssumption DEF InputNext, IInv, TypeInv, TypeOK, Goto, Thread,
     RemovalPc, OneCaller, Removing
<1>4. OneStage'
  BY ThreadAssumption DEF InputNext, IInv, TypeInv, TypeOK, Goto, Thread,
     RemovalPc, OneStage, Called, Announced, Flushed, Acknowledged, Counted,
     Freeing, Removing
<1>5. InProgress'
  BY ThreadAssumption DEF InputNext, IInv, InProgress, Announced, Flushed,
     Acknowledged, Counted, Freeing, Limbo, TypeInv, TypeOK, Goto, Thread
<1>6. Targets'
  BY ThreadAssumption DEF InputNext, IInv, TypeInv, TypeOK, Goto, Thread,
     RemovalPc, Targets, Removing, Limbo
<1>7. RemovedList'
  BY ThreadAssumption DEF InputNext, IInv, TypeInv, TypeOK, Goto, Thread,
     RemovalPc, RemovedList, Called, Removing, Limbo
<1>8. Semaphore'
  BY ThreadAssumption DEF InputNext, IInv, Semaphore, Freeing, Limbo, TypeInv,
     TypeOK, Goto, Thread
<1>9. FlushedQuiet'
  BY ThreadAssumption DEF InputNext, IInv, TypeInv, TypeOK, Goto, Thread,
     RemovalPc, FlushedQuiet, Quiet, Held, Flushed, Acknowledged, Counted,
     Freeing, Limbo
<1>10. QED BY <1>1, <1>2, <1>3, <1>4, <1>5, <1>6, <1>7, <1>8, <1>9 DEF IInv

\* The byte was written after the node had left the epoll set, so a batch
\* that reports the pipe does not hold the node.
LEMMA InputPurgeInv ==
    ASSUME Spaced, IInv, InputPurge
    PROVE  IInv'
<1>1. TypeInv'
  BY InputTypes DEF IInv, Input
<1>2. Lists'
  BY DEF InputPurge, IInv, Lists
<1>3. OneCaller'
  BY ThreadAssumption DEF InputPurge, IInv, TypeInv, TypeOK, Goto, Thread,
     RemovalPc, OneCaller, Removing
<1>4. OneStage'
  BY ThreadAssumption DEF InputPurge, IInv, TypeInv, TypeOK, Goto, Thread,
     RemovalPc, OneStage, Called, Announced, Flushed, Acknowledged, Counted,
     Freeing, Removing, InProgress, RemovalOver, FlushedQuiet, NoByte,
     OneCaller
<1>5. InProgress'
  BY ThreadAssumption, HomePlace, PipeAssumption DEF InputPurge, IInv,
     InProgress, Announced, Flushed, Acknowledged, Counted, Freeing, Limbo,
     TypeInv, TypeOK, Goto, Thread, Home, Place, RemovalPc, NoByte, Called,
     Removing, RemovalOver, OneCaller, OneStage, Lists, Targets, RemovedList,
     Semaphore, FlushedQuiet, Quiet, Held
<1>6. Targets'
  BY ThreadAssumption DEF InputPurge, IInv, TypeInv, TypeOK, Goto, Thread,
     RemovalPc, Targets, Removing, Limbo
<1>7. RemovedList'
  BY ThreadAssumption DEF InputPurge, IInv, TypeInv, TypeOK, Goto, Thread,
     RemovalPc, RemovedList, Called, Removing, Limbo
<1>8. Semaphore'
  BY ThreadAssumption DEF InputPurge, IInv, Semaphore, Freeing, Limbo,
     TypeInv, TypeOK, Goto, Thread
<1>9. FlushedQuiet'
  BY ThreadAssumption DEF InputPurge, IInv, TypeInv, TypeOK, Goto, Thread,
     RemovalPc, FlushedQuiet, Quiet, Held, Flushed, Acknowledged, Counted,
     Freeing, Limbo
<1>10. QED BY <1>1, <1>2, <1>3, <1>4, <1>5, <1>6, <1>7, <1>8, <1>9 DEF IInv

LEMMA InputClosedInv ==
    ASSUME Spaced, IInv, InputClosed
    PROVE  IInv'
<1>1. TypeInv'
  BY InputTypes DEF IInv, Input
<1>2. Lists'
  BY DEF InputClosed, IInv, Lists
<1>3. OneCaller'
  BY ThreadAssumption DEF InputClosed, IInv, TypeInv, TypeOK, Goto, Thread,
     RemovalPc, OneCaller, Removing
<1>4. OneStage'
  BY ThreadAssumption DEF InputClosed, IInv, TypeInv, TypeOK, Goto, Thread,
     RemovalPc, OneStage, Called, Announced, Flushed, Acknowledged, Counted,
     Freeing, Removing
<1>5. InProgress'
  BY ThreadAssumption DEF InputClosed, IInv, InProgress, Announced, Flushed,
     Acknowledged, Counted, Freeing, Limbo, TypeInv, TypeOK, Goto, Thread
<1>6. Targets'
  BY ThreadAssumption DEF InputClosed, IInv, TypeInv, TypeOK, Goto, Thread,
     RemovalPc, Targets, Removing, Limbo
<1>7. RemovedList'
  BY ThreadAssumption DEF InputClosed, IInv, TypeInv, TypeOK, Goto, Thread,
     RemovalPc, RemovedList, Called, Removing, Limbo
<1>8. Semaphore'
  BY ThreadAssumption DEF InputClosed, IInv, Semaphore, Freeing, Limbo,
     TypeInv, TypeOK, Goto, Thread
<1>9. FlushedQuiet'
  BY ThreadAssumption DEF InputClosed, IInv, TypeInv, TypeOK, Goto, Thread,
     RemovalPc, FlushedQuiet, Quiet, Held, Flushed, Acknowledged, Counted,
     Freeing, Limbo
<1>10. QED BY <1>1, <1>2, <1>3, <1>4, <1>5, <1>6, <1>7, <1>8, <1>9 DEF IInv

LEMMA InputForwardInv ==
    ASSUME Spaced, IInv, InputForward
    PROVE  IInv'
<1>1. TypeInv'
  BY InputTypes DEF IInv, Input
<1>2. Lists'
  BY DEF InputForward, IInv, Lists
<1>3. OneCaller'
  BY ThreadAssumption DEF InputForward, IInv, TypeInv, TypeOK, Goto, Thread,
     RemovalPc, OneCaller, Removing
<1>4. OneStage'
  BY ThreadAssumption DEF InputForward, IInv, TypeInv, TypeOK, Goto, Thread,
     RemovalPc, OneStage, Called, Announced, Flushed, Acknowledged, Counted,
     Freeing, Removing
<1>5. InProgress'
  BY ThreadAssumption DEF InputForward, IInv, InProgress, Announced, Flushed,
     Acknowledged, Counted, Freeing, Limbo, TypeInv, TypeOK, Goto, Thread
<1>6. Targets'
  BY ThreadAssumption DEF InputForward, IInv, TypeInv, TypeOK, Goto, Thread,
     RemovalPc, Targets, Removing, Limbo
<1>7. RemovedList'
  BY ThreadAssumption DEF InputForward, IInv, TypeInv, TypeOK, Goto, Thread,
     RemovalPc, RemovedList, Called, Removing, Limbo
<1>8. Semaphore'
  BY ThreadAssumption DEF InputForward, IInv, Semaphore, Freeing, Limbo,
     TypeInv, TypeOK, Goto, Thread
<1>9. FlushedQuiet'
  BY ThreadAssumption DEF InputForward, IInv, TypeInv, TypeOK, Goto, Thread,
     RemovalPc, FlushedQuiet, Quiet, Held, Flushed, Acknowledged, Counted,
     Freeing, Limbo
<1>10. QED BY <1>1, <1>2, <1>3, <1>4, <1>5, <1>6, <1>7, <1>8, <1>9 DEF IInv

\* The node being handled comes out of the batch.
LEMMA InputEventInv ==
    ASSUME Spaced, IInv, NEW n \in Node, InputEvent(n)
    PROVE  IInv'
<1>1. TypeInv'
  BY InputTypes DEF IInv, Input
<1>2. Lists'
  BY DEF InputEvent, IInv, Lists
<1>3. OneCaller'
  BY ThreadAssumption DEF InputEvent, IInv, TypeInv, TypeOK, Goto, Thread,
     RemovalPc, OneCaller, Removing
<1>4. OneStage'
  BY ThreadAssumption DEF InputEvent, IInv, TypeInv, TypeOK, Goto, Thread,
     RemovalPc, OneStage, Called, Announced, Flushed, Acknowledged, Counted,
     Freeing, Removing
<1>5. InProgress'
  BY ThreadAssumption DEF InputEvent, IInv, InProgress, Announced, Flushed,
     Acknowledged, Counted, Freeing, Limbo, TypeInv, TypeOK, Goto, Thread
<1>6. Targets'
  BY ThreadAssumption DEF InputEvent, IInv, TypeInv, TypeOK, Goto, Thread,
     RemovalPc, Targets, Removing, Limbo
<1>7. RemovedList'
  BY ThreadAssumption DEF InputEvent, IInv, TypeInv, TypeOK, Goto, Thread,
     RemovalPc, RemovedList, Called, Removing, Limbo
<1>8. Semaphore'
  BY ThreadAssumption DEF InputEvent, IInv, Semaphore, Freeing, Limbo,
     TypeInv, TypeOK, Goto, Thread
<1>9. FlushedQuiet'
  BY ThreadAssumption, PipeAssumption DEF InputEvent, IInv, TypeInv, TypeOK,
     Goto, Thread, RemovalPc, FlushedQuiet, Quiet, Held, Flushed,
     Acknowledged, Counted, Freeing, Limbo, Lists, OneStage, InProgress,
     Called, Announced, Removing, Targets, NoByte
<1>10. QED BY <1>1, <1>2, <1>3, <1>4, <1>5, <1>6, <1>7, <1>8, <1>9 DEF IInv

LEMMA InputSyncInv ==
    ASSUME Spaced, IInv, InputSync
    PROVE  IInv'
<1>1. TypeInv'
  BY InputTypes DEF IInv, Input
<1>2. Lists'
  BY DEF InputSync, IInv, Lists
<1>3. OneCaller'
  BY ThreadAssumption DEF InputSync, IInv, TypeInv, TypeOK, Goto, Thread,
     RemovalPc, OneCaller, Removing
<1>4. OneStage'
  BY ThreadAssumption DEF InputSync, IInv, TypeInv, TypeOK, Goto, Thread,
     RemovalPc, OneStage, Called, Announced, Flushed, Acknowledged, Counted,
     Freeing, Removing
<1>5. InProgress'
  BY ThreadAssumption DEF InputSync, IInv, InProgress, Announced, Flushed,
     Acknowledged, Counted, Freeing, Limbo, TypeInv, TypeOK, Goto, Thread
<1>6. Targets'
  BY ThreadAssumption DEF InputSync, IInv, TypeInv, TypeOK, Goto, Thread,
     RemovalPc, Targets, Removing, Limbo
<1>7. RemovedList'
  BY ThreadAssumption DEF InputSync, IInv, TypeInv, TypeOK, Goto, Thread,
     RemovalPc, RemovedList, Called, Removing, Limbo
<1>8. Semaphore'
  BY ThreadAssumption DEF InputSync, IInv, Semaphore, Freeing, Limbo, TypeInv,
     TypeOK, Goto, Thread
<1>9. FlushedQuiet'
  BY ThreadAssumption, PipeAssumption DEF InputSync, IInv, FlushedQuiet, Quiet, Held,
     Flushed, Acknowledged, Counted, Freeing, Limbo, TypeInv, TypeOK, Goto,
     Thread, RemovalPc
<1>10. QED BY <1>1, <1>2, <1>3, <1>4, <1>5, <1>6, <1>7, <1>8, <1>9 DEF IInv

LEMMA InputReturnInv ==
    ASSUME Spaced, IInv, InputReturn
    PROVE  IInv'
<1>1. TypeInv'
  BY InputTypes DEF IInv, Input
<1>2. Lists'
  BY DEF InputReturn, IInv, Lists
<1>3. OneCaller'
  BY ThreadAssumption DEF InputReturn, IInv, TypeInv, TypeOK, Goto, Thread,
     RemovalPc, OneCaller, Removing
<1>4. OneStage'
  BY ThreadAssumption DEF InputReturn, IInv, TypeInv, TypeOK, Goto, Thread,
     RemovalPc, OneStage, Called, Announced, Flushed, Acknowledged, Counted,
     Freeing, Removing
<1>5. InProgress'
  BY ThreadAssumption DEF InputReturn, IInv, InProgress, Announced, Flushed,
     Acknowledged, Counted, Freeing, Limbo, TypeInv, TypeOK, Goto, Thread
<1>6. Targets'
  BY ThreadAssumption DEF InputReturn, IInv, TypeInv, TypeOK, Goto, Thread,
     RemovalPc, Targets, Removing, Limbo
<1>7. RemovedList'
  BY ThreadAssumption DEF InputReturn, IInv, TypeInv, TypeOK, Goto, Thread,
     RemovalPc, RemovedList, Called, Removing, Limbo
<1>8. Semaphore'
  BY ThreadAssumption DEF InputReturn, IInv, Semaphore, Freeing, Limbo,
     TypeInv, TypeOK, Goto, Thread
<1>9. FlushedQuiet'
  BY ThreadAssumption, PipeAssumption DEF InputReturn, IInv, FlushedQuiet, Quiet, Held,
     Flushed, Acknowledged, Counted, Freeing, Limbo, TypeInv, TypeOK, Goto,
     Thread, RemovalPc
<1>10. QED BY <1>1, <1>2, <1>3, <1>4, <1>5, <1>6, <1>7, <1>8, <1>9 DEF IInv

LEMMA DeviceReadInv ==
    ASSUME Spaced, IInv, DeviceRead
    PROVE  IInv'
<1>1. TypeInv'
  BY DeviceTypes DEF IInv, Device
<1>2. Lists'
  BY DEF DeviceRead, IInv, Lists
<1>3. OneCaller'
  BY ThreadAssumption DEF DeviceRead, IInv, TypeInv, TypeOK, Goto, Thread,
     RemovalPc, OneCaller, Removing
<1>4. OneStage'
  BY ThreadAssumption DEF DeviceRead, IInv, TypeInv, TypeOK, Goto, Thread,
     RemovalPc, OneStage, Called, Announced, Flushed, Acknowledged, Counted,
     Freeing, Removing, InProgress, RemovalOver, FlushedQuiet, NoByte,
     OneCaller
<1>5. InProgress'
  BY ThreadAssumption DEF DeviceRead, IInv, TypeInv, TypeOK, Goto, Thread,
     RemovalPc, InProgress, Announced, Flushed, Acknowledged, Counted,
     Freeing, Limbo, OneStage, Targets, RemovedList, NoByte, RemovalOver
<1>6. Targets'
  BY ThreadAssumption DEF DeviceRead, IInv, TypeInv, TypeOK, Goto, Thread,
     RemovalPc, Targets, Removing, Limbo
<1>7. RemovedList'
  BY ThreadAssumption DEF DeviceRead, IInv, TypeInv, TypeOK, Goto, Thread,
     RemovalPc, RemovedList, Called, Removing, Limbo
<1>8. Semaphore'
  BY ThreadAssumption DEF DeviceRead, IInv, Semaphore, Freeing, Limbo,
     TypeInv, TypeOK, Goto, Thread
<1>9. FlushedQuiet'
  BY ThreadAssumption DEF DeviceRead, IInv, TypeInv, TypeOK, Goto, Thread,
     RemovalPc, FlushedQuiet, Quiet, Held, Flushed, Acknowledged, Counted,
     Freeing, Limbo, Lists, OneStage, InProgress, Called, Announced, Removing,
     Targets, NoByte
<1>10. QED BY <1>1, <1>2, <1>3, <1>4, <1>5, <1>6, <1>7, <1>8, <1>9 DEF IInv

LEMMA DeviceClosedInv ==
    ASSUME Spaced, IInv, DeviceClosed
    PROVE  IInv'
<1>1. TypeInv'
  BY DeviceTypes DEF IInv, Device
<1>2. Lists'
  BY DEF DeviceClosed, IInv, Lists
<1>3. OneCaller'
  BY ThreadAssumption DEF DeviceClosed, IInv, TypeInv, TypeOK, Goto, Thread,
     RemovalPc, OneCaller, Removing
<1>4. OneStage'
  BY ThreadAssumption DEF DeviceClosed, IInv, TypeInv, TypeOK, Goto, Thread,
     RemovalPc, OneStage, Called, Announced, Flushed, Acknowledged, Counted,
     Freeing, Removing
<1>5. InProgress'
  BY ThreadAssumption DEF DeviceClosed, IInv, InProgress, Announced, Flushed,
     Acknowledged, Counted, Freeing, Limbo, TypeInv, TypeOK, Goto, Thread
<1>6. Targets'
  BY ThreadAssumption DEF DeviceClosed, IInv, TypeInv, TypeOK, Goto, Thread,
     RemovalPc, Targets, Removing, Limbo
<1>7. RemovedList'
  BY ThreadAssumption DEF DeviceClosed, IInv, TypeInv, TypeOK, Goto, Thread,
     RemovalPc, RemovedList, Called, Removing, Limbo
<1>8. Semaphore'
  BY ThreadAssumption DEF DeviceClosed, IInv, Semaphore, Freeing, Limbo,
     TypeInv, TypeOK, Goto, Thread
<1>9. FlushedQuiet'
  BY ThreadAssumption DEF DeviceClosed, IInv, FlushedQuiet, Quiet, Held,
     Flushed, Acknowledged, Counted, Freeing, Limbo, TypeInv, TypeOK, Goto,
     Thread
<1>10. QED BY <1>1, <1>2, <1>3, <1>4, <1>5, <1>6, <1>7, <1>8, <1>9 DEF IInv

LEMMA DeviceTryWaitInv ==
    ASSUME Spaced, IInv, DeviceTryWait
    PROVE  IInv'
<1>1. TypeInv'
  BY DeviceTypes DEF IInv, Device
<1>2. InProgress' /\ Lists'
  BY DEF DeviceTryWait, IInv, InProgress, Announced, Flushed, Acknowledged,
     Counted, Freeing, Limbo, Lists
<1>3. OneCaller'
  BY ThreadAssumption DEF DeviceTryWait, IInv, TypeInv, TypeOK, Goto, Thread,
     RemovalPc, OneCaller, Removing
<1>4. OneStage'
  BY ThreadAssumption DEF DeviceTryWait, IInv, TypeInv, TypeOK, Goto, Thread,
     RemovalPc, OneStage, Called, Announced, Flushed, Acknowledged, Counted,
     Freeing, Removing
<1>5. Targets'
  BY ThreadAssumption DEF DeviceTryWait, IInv, TypeInv, TypeOK, Goto, Thread,
     RemovalPc, Targets, Removing, Limbo
<1>6. RemovedList'
  BY ThreadAssumption DEF DeviceTryWait, IInv, TypeInv, TypeOK, Goto, Thread,
     RemovalPc, RemovedList, Called, Removing, Limbo
<1>7. Semaphore'
  BY ThreadAssumption DEF DeviceTryWait, IInv, Semaphore, Freeing, Limbo,
     TypeInv, TypeOK, Goto, Thread
<1>8. FlushedQuiet'
  BY ThreadAssumption DEF DeviceTryWait, IInv, FlushedQuiet, Quiet, Held,
     Flushed, Acknowledged, Counted, Freeing, Limbo, TypeInv, TypeOK, Goto,
     Thread
<1>9. QED BY <1>1, <1>2, <1>3, <1>4, <1>5, <1>6, <1>7, <1>8 DEF IInv

LEMMA DeviceValueInv ==
    ASSUME Spaced, IInv, DeviceValue
    PROVE  IInv'
<1>1. TypeInv'
  BY DeviceTypes DEF IInv, Device
<1>2. InProgress' /\ Lists'
  BY DEF DeviceValue, IInv, InProgress, Announced, Flushed, Acknowledged,
     Counted, Freeing, Limbo, Lists
<1>3. OneCaller'
  BY ThreadAssumption DEF DeviceValue, IInv, TypeInv, TypeOK, Goto, Thread,
     RemovalPc, OneCaller, Removing
<1>4. OneStage'
  BY ThreadAssumption DEF DeviceValue, IInv, TypeInv, TypeOK, Goto, Thread,
     RemovalPc, OneStage, Called, Announced, Flushed, Acknowledged, Counted,
     Freeing, Removing
<1>5. Targets'
  BY ThreadAssumption DEF DeviceValue, IInv, TypeInv, TypeOK, Goto, Thread,
     RemovalPc, Targets, Removing, Limbo
<1>6. RemovedList'
  BY ThreadAssumption DEF DeviceValue, IInv, TypeInv, TypeOK, Goto, Thread,
     RemovalPc, RemovedList, Called, Removing, Limbo
<1>7. Semaphore'
  BY ThreadAssumption DEF DeviceValue, IInv, Semaphore, Freeing, Limbo,
     TypeInv, TypeOK, Goto, Thread
<1>8. FlushedQuiet'
  BY ThreadAssumption DEF DeviceValue, IInv, FlushedQuiet, Quiet, Held,
     Flushed, Acknowledged, Counted, Freeing, Limbo, TypeInv, TypeOK, Goto,
     Thread
<1>9. QED BY <1>1, <1>2, <1>3, <1>4, <1>5, <1>6, <1>7, <1>8 DEF IInv

LEMMA DeviceCollectInv ==
    ASSUME Spaced, IInv, DeviceCollect
    PROVE  IInv'
<1>1. TypeInv'
  BY DeviceTypes DEF IInv, Device
<1>2. InProgress' /\ Lists'
  BY DEF DeviceCollect, IInv, InProgress, Announced, Flushed, Acknowledged,
     Counted, Freeing, Limbo, Lists
<1>3. OneCaller'
  BY ThreadAssumption DEF DeviceCollect, IInv, TypeInv, TypeOK, Goto, Thread,
     RemovalPc, OneCaller, Removing
<1>4. OneStage'
  BY ThreadAssumption DEF DeviceCollect, IInv, TypeInv, TypeOK, Goto, Thread,
     RemovalPc, OneStage, Called, Announced, Flushed, Acknowledged, Counted,
     Freeing, Removing
<1>5. Targets'
  BY ThreadAssumption DEF DeviceCollect, IInv, TypeInv, TypeOK, Goto, Thread,
     RemovalPc, Targets, Removing, Limbo
<1>6. RemovedList'
  BY ThreadAssumption DEF DeviceCollect, IInv, TypeInv, TypeOK, Goto, Thread,
     RemovalPc, RemovedList, Called, Removing, Limbo, Targets, OneStage,
     Freeing, Lists, OneCaller
<1>7. Semaphore'
  BY ThreadAssumption DEF DeviceCollect, IInv, Semaphore, Freeing, Limbo,
     TypeInv, TypeOK, Goto, Thread
<1>8. FlushedQuiet'
  BY ThreadAssumption DEF DeviceCollect, IInv, FlushedQuiet, Quiet, Held,
     Flushed, Acknowledged, Counted, Freeing, Limbo, TypeInv, TypeOK, Goto,
     Thread
<1>9. QED BY <1>1, <1>2, <1>3, <1>4, <1>5, <1>6, <1>7, <1>8 DEF IInv

\* A node is given back to the allocator, or the thread ends at one whose file
\* was closed before.
LEMMA DeviceFreeInv ==
    ASSUME Spaced, IInv, NEW n \in Node, DeviceFree(n)
    PROVE  IInv'
<1>1. TypeInv'
  BY DeviceTypes DEF IInv, Device
<1>2. Limbo = {n} /\ freeing = {n} /\ n \notin freed
  BY DEF DeviceFree, IInv, RemovedList, Limbo
<1>3. ~Called
  BY DEF DeviceFree, IInv, OneStage, Freeing
<1>4. CASE n \in shut
  <2>1. /\ Goto(DeviceThread, "failed")
        /\ UNCHANGED <<mutex, closed, lists, dead, remove_count, pipes,
                       callerLocals, locals>>
    BY <1>4 DEF DeviceFree
  <2>2. Limbo' = Limbo BY <2>1 DEF Limbo
  <2>3. /\ pc'[DeviceThread] = "failed"
        /\ \A t \in Thread \ {DeviceThread} : pc'[t] = pc[t]
    BY <2>1, ThreadAssumption DEF Goto, IInv, TypeInv, TypeOK, Thread
  <2>4. DeviceThread \in Thread /\ pc[DeviceThread] = "free"
    BY DEF DeviceFree, Thread
  <2>5. \A t \in Thread : pc'[t] \in RemovalPc \cup {"cut"} => pc'[t] = pc[t]
    BY <2>3, <2>4 DEF RemovalPc
  <2>6. ~Called'
    BY <1>3, <2>5 DEF Called, Removing, RemovalPc
  <2>7. OneCaller' /\ OneStage' /\ InProgress' /\ FlushedQuiet'
    BY <1>2, <2>1, <2>2, <2>3, <2>4, <2>6, ThreadAssumption
       DEF IInv, OneCaller, Called, OneStage, InProgress, FlushedQuiet,
           Announced, Flushed, Acknowledged, Counted, Freeing, Quiet, Held,
           RemovalPc, Thread
  <2>8. Lists' BY <2>1 DEF IInv, Lists
  <2>9. Targets'
    BY <1>3, <2>1, <2>6 DEF IInv, Targets, Called, Removing, RemovalPc
  <2>10. RemovedList'
    BY <1>2, <1>3, <2>1, <2>2, <2>3, <2>4 DEF IInv, RemovedList
  <2>11. Semaphore'
    BY <1>2, <2>1, <2>2, <2>3, <2>4 DEF IInv, Semaphore, Freeing
  <2>12. QED BY <1>1, <2>7, <2>8, <2>9, <2>10, <2>11 DEF IInv
<1>5. CASE n \notin shut
  <2>1. /\ Limbo' = {}
        /\ freeing' = {}
        /\ UNCHANGED <<pc, mutex, closed, inputs, lost, shut, polled,
                       input_removed, retired, remove_count, pipes,
                       callerLocals, batch, cur, buf>>
    BY <1>2, <1>5 DEF DeviceFree, Limbo
  <2>2. OneCaller' /\ OneStage' /\ InProgress' /\ FlushedQuiet'
    BY <1>3, <2>1
       DEF DeviceFree, IInv, OneCaller, Called, Removing, OneStage,
           InProgress, FlushedQuiet, Announced, Flushed, Acknowledged,
           Counted, Freeing, Quiet, Held
  <2>3. Lists'
    BY <1>2, <1>5, <2>1 DEF DeviceFree, IInv, Lists, Limbo
  <2>4. Targets'
    BY <1>3, <2>1 DEF IInv, Targets, Called, Removing, RemovalPc
  <2>5. RemovedList'
    BY <2>1 DEF DeviceFree, RemovedList
  <2>6. Semaphore'
    BY <1>2, <2>1 DEF DeviceFree, IInv, Semaphore, Freeing
  <2>7. QED BY <1>1, <2>2, <2>3, <2>4, <2>5, <2>6 DEF IInv
<1>6. QED BY <1>4, <1>5

LEMMA DeviceForgetInv ==
    ASSUME Spaced, IInv, DeviceForget
    PROVE  IInv'
<1>1. TypeInv'
  BY DeviceTypes DEF IInv, Device
<1>2. Lists' /\ RemovedList'
  BY DEF DeviceForget, IInv, Lists, RemovedList, Called, Removing, Limbo
<1>3. OneCaller'
  BY ThreadAssumption DEF DeviceForget, IInv, TypeInv, TypeOK, Goto, Thread,
     RemovalPc, OneCaller, Removing
<1>4. OneStage'
  BY ThreadAssumption DEF DeviceForget, IInv, OneStage, Called, Announced,
     Flushed, Acknowledged, Counted, Freeing, Removing, TypeInv, TypeOK, Goto,
     Thread
<1>5. InProgress'
  BY ThreadAssumption DEF DeviceForget, IInv, TypeInv, TypeOK, Goto, Thread,
     RemovalPc, InProgress, Announced, Flushed, Acknowledged, Counted,
     Freeing, Limbo, OneStage, Targets, RemovedList, NoByte, RemovalOver
<1>6. Targets'
  BY ThreadAssumption DEF DeviceForget, IInv, TypeInv, TypeOK, Goto, Thread,
     RemovalPc, Targets, Removing, Limbo, Lists, OneCaller, RemovedList,
     Called, OneStage, Freeing, RemovalOver
<1>7. Semaphore'
  BY ThreadAssumption DEF DeviceForget, IInv, TypeInv, TypeOK, Goto, Thread,
     RemovalPc, Semaphore, Freeing, Limbo, Targets, OneStage, OneCaller,
     Called, Counted, InProgress, RemovedList, Removing
<1>8. FlushedQuiet'
  BY ThreadAssumption DEF DeviceForget, IInv, FlushedQuiet, Quiet, Held,
     Flushed, Acknowledged, Counted, Freeing, Limbo, TypeInv, TypeOK, Goto,
     Thread
<1>9. QED BY <1>1, <1>2, <1>3, <1>4, <1>5, <1>6, <1>7, <1>8 DEF IInv

LEMMA DeviceRelistInv ==
    ASSUME Spaced, IInv, DeviceRelist
    PROVE  IInv'
<1>1. TypeInv'
  BY DeviceTypes DEF IInv, Device
<1>2. Lists'
  BY DEF DeviceRelist, IInv, Lists
<1>3. OneCaller'
  BY ThreadAssumption DEF DeviceRelist, IInv, TypeInv, TypeOK, Goto, Thread,
     RemovalPc, OneCaller, Removing
<1>4. OneStage'
  BY ThreadAssumption DEF DeviceRelist, IInv, TypeInv, TypeOK, Goto, Thread,
     RemovalPc, OneStage, Called, Announced, Flushed, Acknowledged, Counted,
     Freeing, Removing
<1>5. InProgress'
  BY ThreadAssumption DEF DeviceRelist, IInv, InProgress, Announced, Flushed,
     Acknowledged, Counted, Freeing, Limbo, TypeInv, TypeOK, Goto, Thread
<1>6. Targets'
  BY ThreadAssumption DEF DeviceRelist, IInv, TypeInv, TypeOK, Goto, Thread,
     RemovalPc, Targets, Removing, Limbo
<1>7. RemovedList'
  BY ThreadAssumption DEF DeviceRelist, IInv, TypeInv, TypeOK, Goto, Thread,
     RemovalPc, RemovedList, Called, Removing, Limbo
<1>8. Semaphore'
  BY ThreadAssumption DEF DeviceRelist, IInv, Semaphore, Freeing, Limbo,
     TypeInv, TypeOK, Goto, Thread
<1>9. FlushedQuiet'
  BY ThreadAssumption DEF DeviceRelist, IInv, FlushedQuiet, Quiet, Held,
     Flushed, Acknowledged, Counted, Freeing, Limbo, TypeInv, TypeOK, Goto,
     Thread
<1>10. QED BY <1>1, <1>2, <1>3, <1>4, <1>5, <1>6, <1>7, <1>8, <1>9 DEF IInv

LEMMA DeviceRelistedInv ==
    ASSUME Spaced, IInv, DeviceRelisted
    PROVE  IInv'
<1>1. TypeInv'
  BY DeviceTypes DEF IInv, Device
<1>2. Lists'
  BY DEF DeviceRelisted, IInv, Lists
<1>3. OneCaller'
  BY ThreadAssumption DEF DeviceRelisted, IInv, TypeInv, TypeOK, Goto, Thread,
     RemovalPc, OneCaller, Removing
<1>4. OneStage'
  BY ThreadAssumption DEF RemovedList, DeviceRelisted, IInv, TypeInv, TypeOK, Goto, Thread,
     RemovalPc, OneStage, Called, Announced, Flushed, Acknowledged, Counted,
     Freeing, Removing
<1>5. InProgress'
  BY ThreadAssumption DEF RemovedList, DeviceRelisted, IInv, InProgress, Announced,
     Flushed, Acknowledged, Counted, Freeing, Limbo, TypeInv, TypeOK, Goto,
     Thread
<1>6. Targets'
  BY ThreadAssumption DEF DeviceRelisted, IInv, TypeInv, TypeOK, Goto, Thread,
     RemovalPc, Targets, Removing, Limbo
<1>7. RemovedList'
  BY ThreadAssumption DEF DeviceRelisted, IInv, TypeInv, TypeOK, Goto, Thread,
     RemovalPc, RemovedList, Called, Removing, Limbo
<1>8. Semaphore'
  BY ThreadAssumption DEF RemovedList, DeviceRelisted, IInv, Semaphore, Freeing, Limbo,
     TypeInv, TypeOK, Goto, Thread
<1>9. FlushedQuiet'
  BY ThreadAssumption DEF RemovedList, DeviceRelisted, IInv, FlushedQuiet, Quiet, Held,
     Flushed, Acknowledged, Counted, Freeing, Limbo, TypeInv, TypeOK, Goto,
     Thread
<1>10. QED BY <1>1, <1>2, <1>3, <1>4, <1>5, <1>6, <1>7, <1>8, <1>9 DEF IInv

LEMMA DeviceFailsInv ==
    ASSUME Spaced, IInv, DeviceFails
    PROVE  IInv'
<1>1. TypeInv'
  BY DeviceTypes DEF IInv
<1>2. Lists'
  BY DEF DeviceFails, IInv, Lists
<1>3. OneCaller'
  BY ThreadAssumption DEF DeviceFails, IInv, TypeInv, TypeOK, Goto, Thread,
     RemovalPc, OneCaller, Removing
<1>4. OneStage'
  BY ThreadAssumption DEF RemovedList, DeviceFails, IInv, TypeInv, TypeOK, Goto, Thread,
     RemovalPc, OneStage, Called, Announced, Flushed, Acknowledged, Counted,
     Freeing, Removing
<1>5. InProgress'
  BY ThreadAssumption DEF RemovedList, DeviceFails, IInv, InProgress, Announced,
     Flushed, Acknowledged, Counted, Freeing, Limbo, TypeInv, TypeOK, Goto,
     Thread
<1>6. Targets'
  BY ThreadAssumption DEF DeviceFails, IInv, TypeInv, TypeOK, Goto, Thread,
     RemovalPc, Targets, Removing, Limbo
<1>7. RemovedList'
  BY ThreadAssumption DEF DeviceFails, IInv, TypeInv, TypeOK, Goto, Thread,
     RemovalPc, RemovedList, Called, Removing, Limbo
<1>8. Semaphore'
  BY ThreadAssumption DEF RemovedList, DeviceFails, IInv, Semaphore, Freeing, Limbo,
     TypeInv, TypeOK, Goto, Thread
<1>9. FlushedQuiet'
  BY ThreadAssumption DEF RemovedList, DeviceFails, IInv, FlushedQuiet, Quiet, Held,
     Flushed, Acknowledged, Counted, Freeing, Limbo, TypeInv, TypeOK, Goto,
     Thread
<1>10. QED BY <1>1, <1>2, <1>3, <1>4, <1>5, <1>6, <1>7, <1>8, <1>9 DEF IInv

LEMMA UnplugInv ==
    ASSUME Spaced, IInv, NEW n \in Node, Unplug(n)
    PROVE  IInv'
<1>1. TypeInv'
  BY UnplugTypes DEF IInv
<1>2. OneCaller' /\ OneStage' /\ InProgress' /\ Lists' /\ Targets' /\
      RemovedList' /\ Semaphore' /\ FlushedQuiet'
  BY DEF Unplug, IInv, OneCaller, Removing, OneStage, Called, Announced,
     Flushed, Acknowledged, Counted, Freeing, InProgress, Limbo, Lists,
     Targets, RemovedList, Semaphore, FlushedQuiet, Quiet, Held
<1>3. QED BY <1>1, <1>2 DEF IInv

LEMMA InitInv == ASSUME Init PROVE IInv
<1>1. TypeInv BY InitTypes
<1>2. \A t \in Thread : ~Removing(t)
  BY DEF Init, Home, RemovalPc, Removing
<1>3. /\ pc[InputThread] = "wait"
      /\ pc[DeviceThread] = "poll"
      /\ \A t \in Thread : pc[t] \notin RemovalPc
  BY <1>2, ThreadAssumption DEF Init, Home, Removing, Thread
<1>4. Limbo = {} BY DEF Init, Limbo
<1>5. QED
  BY <1>1, <1>2, <1>3, <1>4
     DEF Init, IInv, OneCaller, OneStage, InProgress, Lists, Targets,
         RemovedList, Semaphore, FlushedQuiet, Called, Announced, Flushed,
         Acknowledged, Counted, Freeing, NoByte, RemovalPc, Quiet

\* IInv is inductive when removals are spaced.
LEMMA NextInv ==
    ASSUME Spaced, IInv, [Next]_vars
    PROVE  IInv'
<1>1. CASE \E t \in Caller : Call(t)
  BY <1>1, RegisterAddInv, DelBeginInv, ReenumerateInv DEF Call
<1>2. CASE \E t \in Caller : Removal(t)
  BY <1>2, DelTailInv, DelCutInv, DelUnlinkInv, DelPushInv, DelPostInv,
     DelSignalInv DEF Removal
<1>3. CASE \E t \in App : Stop(t)
  BY <1>3, StopRequestInv, StopJoinInputInv, StopJoinDeviceInv DEF Stop
<1>4. CASE Input
  BY <1>4, InputWaitInv, InputNextInv, InputPurgeInv, InputClosedInv,
     InputForwardInv, InputEventInv, InputSyncInv, InputReturnInv DEF Input
<1>5. CASE Device
  BY <1>5, DeviceReadInv, DeviceClosedInv, DeviceTryWaitInv, DeviceValueInv,
     DeviceCollectInv, DeviceFreeInv, DeviceForgetInv, DeviceRelistInv,
     DeviceRelistedInv DEF Device
<1>6. CASE (\E n \in Node : Unplug(n)) \/ DeviceFails
  BY <1>6, UnplugInv, DeviceFailsInv
<1>7. CASE UNCHANGED vars
  BY <1>7
     DEF vars, IInv, TypeInv, TypeOK, OneCaller, OneStage, InProgress, Lists,
         Targets, RemovedList, Semaphore, FlushedQuiet, Called, Announced,
         Flushed, Acknowledged, Counted, Freeing, Removing, Limbo, Quiet, Held
<1>8. QED BY <1>1, <1>2, <1>3, <1>4, <1>5, <1>6, <1>7 DEF Next

-----------------------------------------------------------------------------
(* What spaced removals guarantee *)

THEOREM SpacedInvariant == ASSUME Spaced PROVE Spec => []IInv
<1>1. Init => IInv BY InitInv
<1>2. IInv /\ [Next]_vars => IInv' BY NextInv
<1>3. QED BY <1>1, <1>2, PTL DEF Spec

\* sem_trywait never fails and so never ends the device thread: each byte it
\* takes for an acknowledgement stands for one counted removal.
THEOREM SpacedAcks == ASSUME Spaced PROVE Spec => []AckHasRemoval
<1>1. ASSUME IInv PROVE AckHasRemoval
  <2>1. SUFFICES ASSUME pc[DeviceThread] = "trywait"
                 PROVE  remove_count > 0
    BY DEF AckHasRemoval
  <2>2. DeviceThread \in Thread BY DEF Thread
  <2>3. Limbo # {} BY <1>1, <2>1 DEF IInv, InProgress, Counted
  <2>4. ~Called /\ ~Freeing BY <1>1, <2>1 DEF IInv, OneStage, Counted, Freeing
  <2>5. remove_count = 1
    BY <1>1, <2>3, <2>4 DEF IInv, Semaphore, Called, Removing, RemovalPc
  <2>6. QED BY <2>5
<1>2. QED BY <1>1, SpacedInvariant, PTL

\* A removed node is neither lost nor freed twice, and one that register_add
\* closed is never freed.
THEOREM SpacedAccounted == ASSUME Spaced PROVE Spec => []Accounted
<1>1. ASSUME IInv PROVE Accounted
  <2>1. freed \cap (freeing \cup shut) = {}
    BY <1>1 DEF IInv, RemovedList, Lists, Limbo
  <2>2. CASE \E t \in Thread : pc[t] \in {"push", "post", "signal"}
    BY <1>1, <2>1, <2>2 DEF IInv, Targets, Limbo, Accounted
  <2>3. CASE \E t \in Thread : pc[t] \in {"tail", "cut", "unlink"}
    BY <1>1, <2>1, <2>3 DEF IInv, Targets, Limbo, Accounted
  <2>4. CASE ~Called
    <3>1. CASE pc[DeviceThread] = "free"
      BY <1>1, <2>1, <3>1 DEF IInv, RemovedList, Limbo, Accounted
    <3>2. CASE pc[DeviceThread] # "free"
      BY <1>1, <2>1, <2>4, <3>2 DEF IInv, RemovedList, Limbo, Accounted
    <3>3. QED BY <3>1, <3>2
  <2>5. QED BY <2>2, <2>3, <2>4 DEF Called, Removing, RemovalPc
<1>2. QED BY <1>1, SpacedInvariant, PTL

-----------------------------------------------------------------------------
(* A removal without the mutex comes after a refused registration only *)

\* A listed node that is not polled was refused, or is being removed.
Refused ==
    /\ \A n \in inputs \ polled :
         \/ n \in shut
         \/ \E t \in Thread : pc[t] = "unlink" /\ target[t] = n
    /\ (lost # {} \/ \E t \in Thread : pc[t] \in {"tail", "cut"}) => shut # {}

LEMMA CallRefused ==
    ASSUME Spaced, IInv, Refused, NEW t \in Caller, Call(t)
    PROVE  Refused'
<1>0. t \in Thread BY ThreadAssumption
<1>1. CASE Reenumerate(t) BY <1>1 DEF Reenumerate, Refused
<1>2. CASE \E n \in Node : RegisterAdd(t, n)
  BY <1>2 DEF RegisterAdd, Refused
<1>3. CASE \E n \in Node : DelBegin(t, n)
  <2>1. PICK n \in Node : DelBegin(t, n) BY <1>3
  <2>2. \A u \in Thread : ~Removing(u) BY <2>1 DEF DelBegin, RemovalOver
  <2>3. inputs \ polled \subseteq shut
    BY <2>2 DEF Refused, Removing, RemovalPc
  <2>4. CASE n \in polled
    <3>1. pc'[t] = "unlink" /\ target'[t] = n
      BY <1>0, <2>1, <2>4 DEF DelBegin, Goto, IInv, TypeInv, TypeOK
    <3>2. \A u \in Thread : pc'[u] \notin {"tail", "cut"}
      BY <1>0, <2>1, <2>2, <2>4
         DEF DelBegin, Goto, IInv, TypeInv, TypeOK, Removing, RemovalPc
    <3>3. QED BY <1>0, <2>1, <2>3, <3>1, <3>2 DEF DelBegin, Refused
  <2>5. CASE n \notin polled
    BY <2>1, <2>3, <2>5 DEF DelBegin, Refused
  <2>6. QED BY <2>4, <2>5
<1>4. QED BY <1>1, <1>2, <1>3 DEF Call

LEMMA RemovalRefused ==
    ASSUME Spaced, IInv, Refused, NEW t \in Caller, Removal(t)
    PROVE  Refused'
<1>0. t \in Thread /\ Home(t) \in Place \ RemovalPc
  BY ThreadAssumption, HomePlace
<1> USE <1>0 DEF IInv, TypeInv, TypeOK, Goto
<1>1. ASSUME pc[t] \in {"tail", "cut"} PROVE inputs \ polled \subseteq shut
  BY <1>1 DEF Refused, OneCaller, Removing, RemovalPc
<1>2. CASE DelTail(t)
  BY <1>1, <1>2 DEF DelTail, Refused
<1>3. CASE DelCut(t)
  BY <1>1, <1>3 DEF DelCut, Refused
<1>4. CASE DelUnlink(t)
  BY <1>4 DEF DelUnlink, Refused
<1>5. CASE DelPush(t) \/ DelPost(t)
  BY <1>5 DEF DelPush, DelPost, Refused
<1>6. CASE DelSignal(t)
  <2>1. \A u \in Thread : pc[u] = "unlink" =>
          pc'[u] = "unlink" /\ target'[u] = target[u]
    BY <1>6 DEF DelSignal
  <2>2. \A u \in Thread : pc'[u] \in {"tail", "cut"} => pc[u] = pc'[u]
    BY <1>6 DEF DelSignal, RemovalPc
  <2>3. QED BY <1>6, <2>1, <2>2 DEF DelSignal, Refused
<1>7. QED BY <1>2, <1>3, <1>4, <1>5, <1>6 DEF Removal

LEMMA NextRefused ==
    ASSUME Spaced, IInv, Refused, [Next]_vars
    PROVE  Refused'
<1>1. CASE \E t \in Caller : Call(t) BY <1>1, CallRefused
<1>2. CASE \E t \in Caller : Removal(t) BY <1>2, RemovalRefused
<1>3. CASE \/ \E t \in App : Stop(t)
           \/ Input \/ Device \/ DeviceFails
           \/ \E n \in Node : Unplug(n)
  <2>1. UNCHANGED <<inputs, polled, lost, shut, target>>
    BY <1>3
       DEF Stop, StopRequest, StopJoinInput, StopJoinDevice, Input, InputWait,
           InputNext, InputPurge, InputClosed, InputForward, InputEvent,
           InputSync, InputReturn, Device, DeviceRead, DeviceClosed,
           DeviceTryWait, DeviceValue, DeviceCollect, DeviceFree,
           DeviceForget, DeviceRelist, DeviceRelisted, DeviceFails, Unplug
  <2>2. \A t \in Thread :
          pc[t] # pc'[t] => {pc[t], pc'[t]} \cap {"tail", "cut", "unlink"} = {}
    <3> USE ThreadAssumption DEF IInv, TypeInv, TypeOK, Goto, Thread
    <3>1. CASE (\E t \in App : Stop(t)) \/ \E n \in Node : Unplug(n)
      BY <3>1
         DEF Stop, StopRequest, StopJoinInput, StopJoinDevice, Unplug
    <3>2. CASE Input
      BY <3>2
         DEF Input, InputWait, InputNext, InputPurge, InputClosed,
             InputForward, InputEvent, InputSync, InputReturn
    <3>3. CASE Device \/ DeviceFails
      BY <3>3
         DEF Device, DeviceRead, DeviceClosed, DeviceTryWait, DeviceValue,
             DeviceCollect, DeviceFree, DeviceForget, DeviceRelist,
             DeviceRelisted, DeviceFails
    <3>4. QED BY <1>3, <3>1, <3>2, <3>3
  <2>3. QED BY <2>1, <2>2 DEF Refused
<1>4. CASE UNCHANGED vars BY <1>4 DEF vars, Refused
<1>5. QED BY <1>1, <1>2, <1>3, <1>4 DEF Next

\* A device the input thread reads is on the list register_del searches, unless
\* a registration was refused before.
THEOREM SpacedFindable == ASSUME Spaced PROVE Spec => []Findable
<1>1. Init => Refused
  BY DEF Init, Refused, Home
<1>2. IInv /\ Refused /\ [Next]_vars => Refused' BY NextRefused
<1>3. IInv /\ Refused => Findable BY DEF IInv, Lists, Refused, Findable
<1>4. QED BY <1>1, <1>2, <1>3, SpacedInvariant, PTL DEF Spec

-----------------------------------------------------------------------------
(* Spaced removals implement safe reclamation *)

BatchDone == pc[InputThread] = "wait" => batch = {}

LEMMA NextBatchDone ==
    ASSUME TypeInv, BatchDone, [Next]_vars
    PROVE  BatchDone'
<1> USE ThreadAssumption DEF Thread, Goto, TypeInv, TypeOK, BatchDone
<1>1. CASE \E t \in Caller : Call(t)
  <2>1. PICK t \in Caller : Call(t) BY <1>1
  <2>2. CASE \E n \in Node : RegisterAdd(t, n)
    BY <2>2 DEF RegisterAdd
  <2>3. CASE \E n \in Node : DelBegin(t, n)
    BY <2>3 DEF DelBegin
  <2>4. CASE Reenumerate(t)
    BY <2>4 DEF Reenumerate
  <2>5. QED BY <2>1, <2>2, <2>3, <2>4 DEF Call
<1>2. CASE \E t \in Caller : Removal(t)
  BY <1>2 DEF Removal, DelTail, DelCut, DelUnlink, DelPush, DelPost,
     DelSignal, Home
<1>3. CASE \E t \in App : Stop(t)
  BY <1>3 DEF Stop, StopRequest, StopJoinInput, StopJoinDevice
<1>4. CASE Input
  BY <1>4 DEF Input, InputWait, InputNext, InputPurge, InputClosed,
     InputForward, InputEvent, InputSync, InputReturn
<1>5. CASE Device
  BY <1>5 DEF Device, DeviceRead, DeviceClosed, DeviceTryWait, DeviceValue,
     DeviceCollect, DeviceFree, DeviceForget, DeviceRelist, DeviceRelisted
<1>6. CASE (\E n \in Node : Unplug(n)) \/ DeviceFails
  BY <1>6 DEF Unplug, DeviceFails
<1>7. CASE UNCHANGED vars
  BY <1>7 DEF vars
<1>8. QED BY <1>1, <1>2, <1>3, <1>4, <1>5, <1>6, <1>7 DEF Next

\* A step that neither moves nodes between the sets nor lets the input thread
\* take hold of another one is a stuttering step or a release.
LEMMA Letting ==
    ASSUME UNCHANGED <<inputs, lost, retired, freed>>, Held' \subseteq Held
    PROVE  R!Next
BY DEF R!Next, R!Release

\* Where the input thread is matters to Held only inside a callback.
LEMMA CallerHeld ==
    ASSUME TypeInv, NEW t \in Thread, NEW l,
           Goto(t, l), UNCHANGED <<batch, cur>>,
           \/ t # InputThread
           \/ pc[t] \in {"callback"} \cup RemovalPc
    PROVE  Held' \subseteq Held
BY DEF TypeInv, TypeOK, Goto, Held, Thread

LEMMA CallRefines ==
    ASSUME IInv, NEW t \in Caller, Call(t)
    PROVE  R!Next
<1>0. t \in Thread BY ThreadAssumption
<1>1. ASSUME NEW n \in Node, RegisterAdd(t, n) PROVE R!Next
  <2>1. Held' = Held BY <1>1 DEF RegisterAdd, Held
  <2>2. R!Add(n) BY <1>1, <2>1 DEF RegisterAdd, R!Add, IInv, Lists
  <2>3. QED BY <2>2 DEF R!Next
<1>2. ASSUME NEW n \in Node, DelBegin(t, n) PROVE R!Next
  <2>1. t # InputThread \/ pc[t] = "callback"
    BY <1>2, ThreadAssumption DEF DelBegin, Home
  <2>2. Held' \subseteq Held
    BY <1>0, <1>2, <2>1, CallerHeld DEF DelBegin, IInv
  <2>3. QED BY <1>2, <2>2, Letting DEF DelBegin
<1>3. ASSUME Reenumerate(t) PROVE R!Next
  BY <1>3, Letting DEF Reenumerate, Held
<1>4. QED BY <1>1, <1>2, <1>3 DEF Call

LEMMA RemovalRefines ==
    ASSUME IInv, NEW t \in Caller, Removal(t)
    PROVE  R!Next
<1>0. t \in Thread BY ThreadAssumption
<1>1. PICK l \in Place : Goto(t, l) /\ pc[t] \in RemovalPc
  BY DEF Removal, DelTail, DelCut, DelUnlink, DelPush, DelPost, DelSignal,
         RemovalPc, Home, Place
<1>2. UNCHANGED <<batch, cur>>
  BY DEF Removal, DelTail, DelCut, DelUnlink, DelPush, DelPost, DelSignal
<1>3. Held' \subseteq Held BY <1>0, <1>1, <1>2, CallerHeld DEF IInv
<1>4. CASE DelUnlink(t)
  <2>1. target[t] \in inputs /\ target[t] \in Node
    BY <1>0, <1>4
       DEF DelUnlink, IInv, Targets, TypeInv, Removing, RemovalPc
  <2>2. Held' = Held
    BY <1>0, <1>4 DEF DelUnlink, Goto, Held, IInv, TypeInv, TypeOK, RemovalPc
  <2>3. R!Retire(target[t])
    BY <1>4, <2>1, <2>2 DEF DelUnlink, R!Retire, IInv, Lists
  <2>4. QED BY <2>1, <2>3 DEF R!Next
<1>5. CASE DelCut(t)
  <2>1. target[t] \in inputs /\ target[t] \in Node
    BY <1>0, <1>5
       DEF DelCut, IInv, Targets, TypeInv, Removing, RemovalPc
  <2>2. Held' = Held
    BY <1>0, <1>5 DEF DelCut, Goto, Held, IInv, TypeInv, TypeOK, RemovalPc
  <2>3. between[t] \subseteq inputs \ {target[t]}
    BY <1>0, <1>5 DEF DelCut, IInv, Targets
  <2>4. (inputs \cup lost)' = (inputs \cup lost) \ {target[t]}
    BY <1>5, <2>1, <2>3 DEF DelCut, IInv, Lists
  <2>5. R!Retire(target[t])
    BY <1>5, <2>1, <2>2, <2>4 DEF DelCut, R!Retire, IInv, Lists
  <2>6. QED BY <2>1, <2>5 DEF R!Next
<1>6. CASE DelTail(t) \/ DelPush(t) \/ DelPost(t) \/ DelSignal(t)
  BY <1>3, <1>6, Letting DEF DelTail, DelPush, DelPost, DelSignal
<1>7. QED BY <1>4, <1>5, <1>6 DEF Removal

LEMMA InputRefines ==
    ASSUME IInv, BatchDone, Input
    PROVE  R!Next
<1>0. InputThread \in Thread BY DEF Thread
<1>1. CASE InputWait
  <2>1. Held = {}
    BY <1>1 DEF InputWait, BatchDone, Held, RemovalPc
  <2>2. Held' \subseteq polled
    BY <1>0, <1>1, PipeAssumption
       DEF InputWait, Goto, Held, IInv, TypeInv, TypeOK, RemovalPc
  <2>3. R!Acquire
    BY <1>1, <2>1, <2>2 DEF InputWait, R!Acquire, IInv, Lists
  <2>4. QED BY <2>3 DEF R!Next
<1>2. CASE InputNext \/ InputPurge \/ InputClosed \/ InputForward
  <2>1. Held' \subseteq Held
    BY <1>0, <1>2
       DEF InputNext, InputPurge, InputClosed, InputForward, Goto, Held,
           IInv, TypeInv, TypeOK, RemovalPc
  <2>2. QED
    BY <1>2, <2>1, Letting
       DEF InputNext, InputPurge, InputClosed, InputForward
<1>3. ASSUME NEW n \in Node, InputEvent(n) PROVE R!Next
  <2>1. Held' \subseteq Held
    BY <1>0, <1>3, PipeAssumption
       DEF InputEvent, Goto, Held, IInv, TypeInv, TypeOK, RemovalPc
  <2>2. QED BY <1>3, <2>1, Letting DEF InputEvent
<1>4. CASE InputSync \/ InputReturn
  <2>1. Held' \subseteq Held
    BY <1>0, <1>4
       DEF InputSync, InputReturn, Goto, Held, IInv, TypeInv, TypeOK,
           RemovalPc
  <2>2. QED BY <1>4, <2>1, Letting DEF InputSync, InputReturn
<1>5. QED BY <1>1, <1>2, <1>3, <1>4 DEF Input

LEMMA DeviceRefines ==
    ASSUME IInv, Device
    PROVE  R!Next
<1>0. DeviceThread \in Thread /\ DeviceThread # InputThread
  BY ThreadAssumption DEF Thread
<1>1. Held' = Held
  BY <1>0 DEF Device, DeviceRead, DeviceClosed, DeviceTryWait, DeviceValue,
     DeviceCollect, DeviceFree, DeviceForget, DeviceRelist, DeviceRelisted,
     Goto, Held, IInv, TypeInv, TypeOK, Thread
<1>2. ASSUME NEW n \in Node, DeviceFree(n) PROVE R!Next
  <2>1. n \in Limbo
    BY <1>2 DEF DeviceFree, IInv, RemovedList
  <2>2. n \notin Held
    BY <1>2, <2>1 DEF DeviceFree, IInv, FlushedQuiet, Freeing, Quiet
  <2>3. CASE n \in shut
    BY <1>1, <1>2, <2>3, Letting DEF DeviceFree
  <2>4. CASE n \notin shut
    <3>1. R!Free(n)
      BY <1>1, <1>2, <2>1, <2>2, <2>4 DEF DeviceFree, R!Free, Limbo
    <3>2. QED BY <3>1 DEF R!Next
  <2>5. QED BY <2>3, <2>4
<1>3. CASE \/ DeviceRead \/ DeviceClosed \/ DeviceTryWait \/ DeviceValue
           \/ DeviceCollect \/ DeviceForget \/ DeviceRelist \/ DeviceRelisted
  BY <1>1, <1>3, Letting
     DEF DeviceRead, DeviceClosed, DeviceTryWait, DeviceValue, DeviceCollect,
         DeviceForget, DeviceRelist, DeviceRelisted
<1>4. QED BY <1>2, <1>3 DEF Device

\* No removed node is freed while the input thread may use it, whatever the
\* number of devices and threads, as long as removals do not overlap.
THEOREM SpacedReclaims == ASSUME Spaced PROVE Spec => Reclaims
<1>1. Init => R!Init
  BY ThreadAssumption DEF Init, R!Init, Held, Home, RemovalPc, Thread
<1>2. Init => BatchDone BY DEF Init, BatchDone
<1>3. TypeInv /\ BatchDone /\ [Next]_vars => BatchDone' BY NextBatchDone
<1>4. IInv => TypeInv BY DEF IInv
<1>5. IInv /\ BatchDone /\ [Next]_vars => [R!Next]_(R!vars)
  <2> SUFFICES ASSUME IInv, BatchDone, [Next]_vars
               PROVE  [R!Next]_(R!vars)
    OBVIOUS
  <2>1. CASE \E t \in Caller : Call(t) BY <2>1, CallRefines
  <2>2. CASE \E t \in Caller : Removal(t) BY <2>2, RemovalRefines
  <2>3. CASE \E t \in App : Stop(t)
    <3>1. PICK t \in App : Stop(t) BY <2>3
    <3>2. PICK l \in Place : Goto(t, l)
      BY <3>1 DEF Stop, StopRequest, StopJoinInput, StopJoinDevice, Place
    <3>3. t \in Thread /\ t # InputThread BY ThreadAssumption DEF Thread
    <3>4. UNCHANGED <<batch, cur, inputs, lost, retired, freed>>
      BY <3>1 DEF Stop, StopRequest, StopJoinInput, StopJoinDevice, lists
    <3>5. Held' \subseteq Held BY <3>2, <3>3, <3>4, CallerHeld DEF IInv
    <3>6. QED BY <3>4, <3>5, Letting
  <2>4. CASE Input BY <2>4, InputRefines
  <2>5. CASE Device BY <2>5, DeviceRefines
  <2>6. CASE (\E n \in Node : Unplug(n)) \/ DeviceFails
    <3>1. Held' = Held
      BY <2>6, ThreadAssumption
         DEF Unplug, DeviceFails, Goto, Held, IInv, TypeInv, TypeOK, Thread
    <3>2. QED BY <2>6, <3>1, Letting DEF Unplug, DeviceFails
  <2>7. CASE UNCHANGED vars BY <2>7 DEF vars, R!vars, Held
  <2>8. QED BY <2>1, <2>2, <2>3, <2>4, <2>5, <2>6, <2>7 DEF Next
<1>6. QED
  BY <1>1, <1>2, <1>3, <1>4, <1>5, SpacedInvariant, PTL
     DEF Spec, Reclaims, R!Spec

\* Hence nothing the input thread may dereference has been freed.
THEOREM SpacedNoUseAfterFree ==
    ASSUME Spaced
    PROVE  Spec => [](Held \cap freed = {})
<1>1. R!Spec => []R!HeldNotFreed BY R!Safe
<1>2. R!HeldNotFreed <=> Held \cap freed = {} BY DEF R!HeldNotFreed
<1>3. QED BY <1>1, <1>2, SpacedReclaims, PTL DEF Reclaims

\* The flush that evdev_epoll.c:792 asks for has happened when a node is freed.
THEOREM SpacedFlush == ASSUME Spaced PROVE Spec => FlushBeforeFree
<1>1. ASSUME IInv, Next
      PROVE  \A n \in Node : n \in freed' \ freed => n \notin Held
  <2>1. CASE \E n \in Node : DeviceFree(n)
    <3>1. PICK n \in Node : DeviceFree(n) BY <2>1
    <3>2. n \in Limbo BY <1>1, <3>1 DEF DeviceFree, IInv, RemovedList
    <3>3. n \notin Held
      BY <1>1, <3>1, <3>2 DEF DeviceFree, IInv, FlushedQuiet, Freeing, Quiet
    <3>4. QED BY <3>1, <3>3 DEF DeviceFree
  <2>2. CASE ~\E n \in Node : DeviceFree(n)
    <3>1. freed' = freed
      BY <1>1, <2>2
         DEF Next, Call, RegisterAdd, DelBegin, Reenumerate, Removal,
             DelTail, DelCut, DelUnlink, DelPush, DelPost, DelSignal, Stop,
             StopRequest, DeviceFails,
             StopJoinInput, StopJoinDevice, Input, InputWait, InputNext,
             InputPurge, InputClosed, InputForward, InputEvent, InputSync,
             InputReturn, Device, DeviceRead, DeviceClosed, DeviceTryWait,
             DeviceValue, DeviceCollect, DeviceForget, DeviceRelist,
             DeviceRelisted, Unplug
    <3>2. QED BY <3>1
  <2>3. QED BY <2>1, <2>2
<1>2. IInv /\ [Next]_vars =>
        [\A n \in Node : n \in freed' \ freed => n \notin Held]_vars
  BY <1>1
<1>3. QED BY <1>2, SpacedInvariant, PTL DEF Spec, FlushBeforeFree
=============================================================================
