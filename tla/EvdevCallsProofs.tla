-------------------------- MODULE EvdevCallsProofs --------------------------
(***************************************************************************)
(* What EvdevCalls keeps for any threads, devices and calls: its types,    *)
(* the reasons the mutex may be locked for, and that nothing changes under *)
(* a re-enumeration.                                                       *)
(***************************************************************************)
EXTENDS EvdevCalls, SequenceTheorems, TLAPS

Event == [mask : {"create", "delete"}, id : Device]

LEMMA NoIdType == NoId \in Device
<1>1. PICK e \in Device : TRUE BY CallsAssumption
<1>2. QED BY <1>1 DEF NoId

LEMMA NoCallType == NoCall \in [op : AllOps \cup {"none"}, id : Device]
BY NoIdType DEF NoCall

LEMMA InitType == Init => TypeOK
<1> SUFFICES ASSUME Init PROVE TypeOK OBVIOUS
<1>1. queue \in Seq(Event) /\ effects \in [Device -> 0 .. Slots]
  BY CallsAssumption DEF Init
<1>2. place \in [Thread -> Place]
  BY DEF Init, Place, Calling
<1>3. call \in [Thread -> [op : AllOps \cup {"none"}, id : Device]]
  BY NoCallType DEF Init
<1>4. subject \in Device BY NoIdType DEF Init
<1>5. calls \in 0 .. MaxCalls BY CallsAssumption DEF Init
<1>6. answer \in [Thread -> {"none", "ok", "error", "lock"}] BY DEF Init
<1>7. QED
  BY <1>1, <1>2, <1>3, <1>4, <1>5, <1>6 DEF Init, TypeOK, Event

\* The variables a step may touch keep their types, one group of steps each.
LEMMA CallsType ==
    ASSUME TypeOK, NEW t \in Thread, Calls(t)
    PROVE  TypeOK'
<1>1. ASSUME NEW op \in Ops \cap AllOps, NEW d \in Device, Call(t, op, d)
      PROVE  TypeOK'
  <2>1. calls' \in 0 .. MaxCalls
    BY <1>1, CallsAssumption DEF Call, TypeOK
  <2>2. call' \in [Thread -> [op : AllOps \cup {"none"}, id : Device]]
    BY <1>1 DEF Call, TypeOK
  <2>3. QED
    BY <1>1, <2>1, <2>2 DEF Call, TypeOK, kernel, registry, pipes, loop
<1>2. CASE Reenumerate(t)
  <2>1. calls' \in 0 .. MaxCalls
    BY <1>2, CallsAssumption DEF Reenumerate, TypeOK
  <2>2. QED
    BY <1>2, <2>1 DEF Reenumerate, TypeOK, kernel, registry, loop
<1>3. QED BY <1>1, <1>2 DEF Calls

LEMMA ReturnType ==
    ASSUME TypeOK, NEW t \in Thread, NEW outcome \in {"ok", "error", "lock"},
           Return(t, outcome),
           mutex' \in Thread \cup {NoThread}, registered' \subseteq Device,
           effects' \in [Device -> 0 .. Slots], removal' \in BOOLEAN,
           refused' \subseteq Thread
    PROVE  TypeOK'
BY NoCallType DEF Return, TypeOK, kernel, loop

LEMMA AnswerType ==
    ASSUME TypeOK, NEW t \in Thread, Answer(t)
    PROVE  TypeOK'
<1>0. call[t].id \in Device BY DEF TypeOK
<1>1. CASE Deadlk(t) BY <1>1, ReturnType DEF Deadlk, TypeOK
<1>2. CASE RegisterAdd(t)
  <2>1. effects' \in [Device -> 0 .. Slots]
    BY <1>0, <1>2, CallsAssumption DEF RegisterAdd, TypeOK
  <2>2. registered' \subseteq Device BY <1>0, <1>2 DEF RegisterAdd, TypeOK
  <2>3. PICK outcome \in {"ok", "error"} : Return(t, outcome)
    BY <1>2 DEF RegisterAdd
  <2>4. QED BY <1>2, <2>1, <2>2, <2>3, ReturnType DEF RegisterAdd, TypeOK
<1>3. CASE RegisterDel(t)
  <2>1. PICK outcome \in {"ok", "error"} : Return(t, outcome)
    BY <1>3 DEF RegisterDel
  <2>2. removal' \in BOOLEAN BY <1>3 DEF RegisterDel, TypeOK
  <2>3. QED BY <1>3, <2>1, <2>2, ReturnType DEF RegisterDel, TypeOK
<1>4. CASE RequestUnknown(t)
  BY <1>4, ReturnType DEF RequestUnknown, TypeOK
<1>5. CASE RequestDone(t)
  <2>1. effects' = [effects EXCEPT ![call[t].id] =
                      Stored(call[t].op, effects[call[t].id])]
    BY <1>5 DEF RequestDone
  <2>2. Stored(call[t].op, effects[call[t].id]) \in 0 .. Slots
    BY <1>0, <1>5, CallsAssumption DEF RequestDone, Grants, Stored, TypeOK
  <2>3. effects' \in [Device -> 0 .. Slots] BY <1>0, <2>1, <2>2 DEF TypeOK
  <2>4. QED BY <1>5, <2>3, ReturnType DEF RequestDone, TypeOK
<1>6. CASE RequestRefused(t)
  BY <1>6, ReturnType DEF RequestRefused, TypeOK
<1>7. QED BY <1>1, <1>2, <1>3, <1>4, <1>5, <1>6 DEF Answer

LEMMA QueueTail ==
    ASSUME TypeOK, queue # <<>>
    PROVE  Head(queue) \in Event /\ Tail(queue) \in Seq(Event)
<1>1. queue \in Seq(Event) BY DEF TypeOK, Event
<1>2. QED BY <1>1, HeadTailProperties

LEMMA DeviceType ==
    ASSUME TypeOK, DeviceLoop
    PROVE  TypeOK'
<1>0. DeviceThread \in Thread BY DEF Thread
<1>1. CASE DeviceLockFails
  BY <1>0, <1>1 DEF DeviceLockFails, Goto, Keeps, TypeOK, Place, loop
<1>2. CASE HandleCreate
  <2>1. Head(queue).id \in Device /\ queue' \in Seq(Event)
    BY <1>2, QueueTail DEF HandleCreate, Event
  <2>2. QED
    BY <1>0, <1>2, <2>1
       DEF HandleCreate, Report, Goto, Keeps, TypeOK, Place, Calling, Event
<1>3. CASE HandleDelete
  BY <1>0, <1>3, QueueTail
     DEF HandleDelete, Goto, Keeps, TypeOK, Place, Event
<1>4. CASE Unlist
  BY <1>0, <1>4
     DEF Unlist, Report, Goto, Keeps, TypeOK, Place, Calling, loop
<1>5. CASE RelistBegin \/ RelistReport \/ RelistEnd
  BY <1>0, <1>5
     DEF RelistBegin, RelistReport, RelistEnd, Report, Goto, Keeps, TypeOK,
         Place, Calling, loop
<1>6. CASE \/ CallbackReturns(DeviceThread, "report", "wait")
           \/ CallbackReturns(DeviceThread, "relist", "relisting")
  BY <1>0, <1>6
     DEF CallbackReturns, Goto, Keeps, TypeOK, Place, Calling, loop
<1>7. QED BY <1>1, <1>2, <1>3, <1>4, <1>5, <1>6 DEF DeviceLoop

LEMMA InputType ==
    ASSUME TypeOK, InputLoop
    PROVE  TypeOK'
<1>0. InputThread \in Thread BY DEF Thread
<1>1. QED
  BY <1>0
     DEF InputLoop, InputCallback, InputPing, CallbackReturns, Report, Goto,
         Keeps, TypeOK, Place, Calling, kernel, registry, loop

LEMMA KernelType ==
    ASSUME TypeOK, NEW d \in Device, Plug(d) \/ Unplug(d)
    PROVE  TypeOK'
<1>1. [mask |-> "create", id |-> d] \in Event
      /\ [mask |-> "delete", id |-> d] \in Event
  BY DEF Event
<1>2. queue \in Seq(Event) BY DEF TypeOK, Event
<1>3. \E e \in Event : queue' = Append(queue, e)
  BY <1>1 DEF Plug, Unplug
<1>4. queue' \in Seq(Event) BY <1>2, <1>3, AppendProperties
<1>5. QED
  BY <1>4 DEF Plug, Unplug, TypeOK, Event, registry, pipes, loop

LEMMA NextType == TypeOK /\ [Next]_vars => TypeOK'
<1>1. TypeOK /\ UNCHANGED vars => TypeOK'
  BY DEF vars, kernel, registry, pipes, loop, TypeOK
<1>2. QED
  BY <1>1, CallsType, AnswerType, DeviceType, InputType, KernelType DEF Next

\* Every variable keeps its type, for any threads, devices and calls.
THEOREM CallsTypeCorrect == Spec => []TypeOK
BY InitType, NextType, PTL DEF Spec

-----------------------------------------------------------------------------
(* The mutex.  That a re-enumeration owns it, and that it is locked for a  *)
(* reason, are inductive together with the types.                          *)

LockInv == TypeOK /\ LockedForAReason /\ RelistOwns

LEMMA InitLock == Init => LockInv
<1>1. Init => LockedForAReason
  BY CallsAssumption DEF Init, LockedForAReason
<1>2. Init => RelistOwns
  BY CallsAssumption DEF Init, RelistOwns, Relisting, Thread
<1>3. QED BY <1>1, <1>2, InitType DEF LockInv

LEMMA CallsLock ==
    ASSUME LockInv, NEW t \in Thread, Calls(t) \/ Answer(t)
    PROVE  (LockedForAReason /\ RelistOwns)'
<1>1. place' = place
  BY DEF Calls, Call, Reenumerate, Answer, Deadlk, RegisterAdd, RegisterDel,
         RequestUnknown, RequestDone, RequestRefused, Return
<1>2. CASE mutex' = mutex /\ refused' = refused
  BY <1>1, <1>2
     DEF LockInv, LockedForAReason, RelistOwns, Relisting, Abandoned
<1>3. CASE RequestRefused(t)
  BY <1>1, <1>3, CallsAssumption
     DEF RequestRefused, Locked, LockInv, LockedForAReason, RelistOwns,
         Relisting, Abandoned, Thread
<1>4. QED
  BY <1>2, <1>3
     DEF Calls, Call, Reenumerate, Answer, Deadlk, RegisterAdd, RegisterDel,
         RequestUnknown, RequestDone

LEMMA DeviceLock ==
    ASSUME LockInv, DeviceLoop
    PROVE  (LockedForAReason /\ RelistOwns)'
<1>0. DeviceThread \in Thread /\ DeviceThread # NoThread
  BY CallsAssumption DEF Thread
<1>1. refused' = refused
  BY DEF DeviceLoop, DeviceLockFails, HandleCreate, HandleDelete, Unlist,
         RelistBegin, RelistReport, RelistEnd, CallbackReturns, Keeps
<1>2. CASE RelistBegin \/ RelistReport \/ RelistEnd
  BY <1>0, <1>1, <1>2, CallsAssumption
     DEF RelistBegin, RelistReport, RelistEnd, Report, Goto, At, LockInv,
         TypeOK, LockedForAReason, RelistOwns, Relisting, Abandoned
<1>3. CASE CallbackReturns(DeviceThread, "relist", "relisting")
  BY <1>0, <1>1, <1>3
     DEF CallbackReturns, Goto, At, LockInv, TypeOK, LockedForAReason,
         RelistOwns, Relisting, Abandoned
<1>4. CASE \/ DeviceLockFails \/ HandleCreate \/ HandleDelete \/ Unlist
           \/ CallbackReturns(DeviceThread, "report", "wait")
  <2>1. mutex' = mutex
    BY <1>4
       DEF DeviceLockFails, HandleCreate, HandleDelete, Unlist,
           CallbackReturns
  <2>2. ~Relisting
    BY <1>4
       DEF DeviceLockFails, HandleCreate, HandleDelete, Unlist,
           CallbackReturns, At, Relisting
  <2>3. ~Relisting'
    BY <1>0, <1>4
       DEF DeviceLockFails, HandleCreate, HandleDelete, Unlist, At,
           CallbackReturns, Report, Goto, Relisting, LockInv, TypeOK
  <2>4. place[DeviceThread] # "ended"
    BY <1>4
       DEF DeviceLockFails, HandleCreate, HandleDelete, Unlist,
           CallbackReturns, At
  <2>5. QED
    BY <1>1, <2>1, <2>2, <2>3, <2>4
       DEF LockInv, LockedForAReason, RelistOwns, Abandoned
<1>5. QED BY <1>2, <1>3, <1>4 DEF DeviceLoop

LEMMA OtherLock ==
    ASSUME LockInv, InputLoop \/ (\E d \in Device : Plug(d) \/ Unplug(d))
    PROVE  (LockedForAReason /\ RelistOwns)'
<1>1. mutex' = mutex /\ refused' = refused
  BY DEF InputLoop, InputCallback, InputPing, CallbackReturns, Keeps, Plug,
         Unplug
<1>2. place'[DeviceThread] = place[DeviceThread]
  BY CallsAssumption
     DEF InputLoop, InputCallback, InputPing, CallbackReturns, Report, Goto,
         Plug, Unplug, LockInv, TypeOK, Thread
<1>3. QED
  BY <1>1, <1>2 DEF LockInv, LockedForAReason, RelistOwns, Relisting, Abandoned

LEMMA NextLock == LockInv /\ [Next]_vars => LockInv'
<1>1. LockInv /\ UNCHANGED vars => LockInv'
  BY NextType
     DEF vars, LockInv, LockedForAReason, RelistOwns, Relisting, Abandoned
<1>2. QED
  BY <1>1, NextType, CallsLock, DeviceLock, OtherLock DEF Next, LockInv

THEOREM LockInvariant == Spec => []LockInv
BY InitLock, NextLock, PTL DEF Spec

\* The mutex is never left locked but by a refused request or inside a
\* re-enumeration.
THEOREM MutexLockedForAReason == Spec => []LockedForAReason
BY LockInvariant, PTL DEF LockInv

\* No call, of whatever thread, changes the registry during a re-enumeration.
THEOREM RelistIsFrozen == Spec => RelistFrozen
<1>1. LockInv /\ [Next]_vars
        => [Relisting /\ Relisting' => UNCHANGED registry]_vars
  <2> SUFFICES ASSUME LockInv, Next, Relisting, Relisting'
               PROVE  UNCHANGED registry
    OBVIOUS
  <2>1. mutex = DeviceThread /\ mutex # NoThread
    BY CallsAssumption DEF LockInv, RelistOwns, Thread
  <2>2. CASE \E t \in Thread : Calls(t) \/ Answer(t)
    BY <2>1, <2>2
       DEF Calls, Call, Reenumerate, Answer, Deadlk, RegisterAdd, RegisterDel,
           RequestUnknown, RequestDone, RequestRefused, Return, Locked,
           registry
  <2>3. CASE DeviceLoop
    BY <2>1, <2>3
       DEF DeviceLoop, DeviceLockFails, HandleCreate, HandleDelete, Unlist,
           RelistBegin, RelistReport, RelistEnd, CallbackReturns, Locked,
           Keeps, registry
  <2>4. CASE InputLoop \/ (\E d \in Device : Plug(d) \/ Unplug(d))
    BY <2>4
       DEF InputLoop, InputCallback, InputPing, CallbackReturns, Keeps, Plug,
           Unplug, registry
  <2>5. QED BY <2>2, <2>3, <2>4 DEF Next
<1>2. QED BY <1>1, LockInvariant, PTL DEF Spec, RelistFrozen
=============================================================================
