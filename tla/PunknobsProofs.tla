--------------------------- MODULE PunknobsProofs ---------------------------
(***************************************************************************)
(* What the life of a context keeps for any number of starts: its types,   *)
(* that evdev's threads do not use what clean frees, that a second start   *)
(* of evdev is deaf, that stop with evdev ends its threads, what ends a    *)
(* thread of Windows, and what a life without failures leaves behind.      *)
(***************************************************************************)
EXTENDS Punknobs, TLAPS

USE DEF At, Goto, Return, Returned, Continue, Begin, Stray, EvdevOn, WinOn,
        memory, history, vars, evdev, lists, allVars

(* Threads are pairs. *)

LEMMA ThreadParts ==
    ASSUME NEW t \in Thread
    PROVE  /\ t = <<t[1], t[2]>>
           /\ t[1] \in {Device, Input}
           /\ t[2] \in 1 .. MaxStarts
BY DEF Thread, Session

-----------------------------------------------------------------------------
(* Who takes a step: a backend's steps are those of a context that has it. *)

LEMMA ApplicationOn == Application => config' = config
BY DEF Application, PunknobsInit, Check, PunknobsStart, PunknobsStop, Clean,
       PunknobsClean

LEMMA EvdevCallsOn == EvdevCalls => config = "evdev" /\ config' = config
BY DEF EvdevCalls, EvdevInit, EvdevStart, EvdevCreateDevice, EvdevCreateInput,
       EvdevCreate, EvdevList, EvdevStop, EvdevJoinInput, EvdevJoinDevice,
       EvdevJoin, EvdevUnwatch, EvdevCleanNull, EvdevCleanPipes,
       EvdevCleanLists, EvdevCleanMutex

LEMMA EvdevThreadOn ==
    \A t \in Thread : EvdevThread(t) => config = "evdev" /\ config' = config
BY DEF EvdevThread, EvdevEnter, EvdevTurn, EvdevFail, EvdevEnd

LEMMA WinCallsOn == WinCalls => config = "win" /\ config' = config
BY DEF WinCalls, WinInit, WinStart, WinStartInput, WinCreate, WinStarted,
       WinStop, WinStopInput, WinClose, WinStopRefs, WinStopReg, WinStopped,
       WinCleanNull, WinCleanHandle, WinCleanFree

LEMMA WinThreadOn ==
    \A t \in Thread : WinThread(t) => config = "win" /\ config' = config
BY DEF WinThread, WinEnter, WinUpdate, WinCheck, WinRefresh, WinSwap, WinPoll

-----------------------------------------------------------------------------
(* Types.                                                                  *)

TypeInv == TypeOK /\ (call = "none" => pc \in {"idle", "done"})

AllStates == {"none", "entered", "looping", "update", "check", "turn", "swap",
              "ended"}

LEMMA TypeInit == PunknobsInitial => TypeInv
<1> SUFFICES ASSUME PunknobsInitial PROVE TypeInv OBVIOUS
<1> USE DEF PunknobsInitial, Init
<1>1. EvdevTypeOK BY DEF EvdevTypeOK
<1>2. WinTypeOK BY DEF WinTypeOK
<1>3. starts \in 0 .. MaxStarts BY LifecycleAssumption
<1>4. QED BY <1>1, <1>2, <1>3 DEF TypeInv, TypeOK

LEMMA ApplicationType ==
    ASSUME TypeInv, Application, UNCHANGED <<evdev, author, lists>>
    PROVE  TypeInv'
<1> USE DEF TypeInv, TypeOK, EvdevTypeOK, WinTypeOK
<1>1. CASE PunknobsInit BY <1>1 DEF PunknobsInit
<1>2. CASE Check BY <1>2 DEF Check
<1>3. CASE PunknobsStart
  <2>1. starts + 1 \in 0 .. MaxStarts
    BY <1>3, LifecycleAssumption DEF PunknobsStart
  <2>2. QED BY <1>3, <2>1 DEF PunknobsStart
<1>4. CASE PunknobsStop BY <1>4 DEF PunknobsStop
<1>5. CASE Clean BY <1>5 DEF Clean
<1>6. CASE PunknobsClean BY <1>6 DEF PunknobsClean
<1>7. QED BY <1>1, <1>2, <1>3, <1>4, <1>5, <1>6 DEF Application

LEMMA MadeType == \A n \in 0 .. Len(Made) :
                    {Made[k] : k \in 1 .. n} \subseteq EvdevResources
BY DEF Made, EvdevResources

LEMMA EvdevCallsType ==
    ASSUME TypeInv, EvdevCalls, UNCHANGED <<author, lists>>
    PROVE  TypeInv'
<1> config = "evdev" BY EvdevCallsOn
<1> USE DEF TypeInv, TypeOK, EvdevTypeOK, WinTypeOK
<1>1. CASE EvdevInit
  <2>1. held' \subseteq EvdevResources BY <1>1, MadeType DEF EvdevInit
  <2>2. backend' \in {"none", "held", "freed"} BY <1>1 DEF EvdevInit
  <2>3. error' \in BOOLEAN
    <3>1. \A n : (n < Len(Made)) \in BOOLEAN OBVIOUS
    <3>2. QED BY <1>1, <3>1, Zenon DEF EvdevInit
  <2>4. call' = "init" /\ pc' = "returned" BY <1>1 DEF EvdevInit
  <2>5. failed' \subseteq failed \cup {"init"} BY <1>1 DEF EvdevInit
  <2>6. QED BY <1>1, <2>1, <2>2, <2>3, <2>4, <2>5 DEF EvdevInit
<1>2. CASE EvdevStart BY <1>2 DEF EvdevStart, EvdevResources
<1>3. CASE EvdevCreateDevice BY <1>3 DEF EvdevCreateDevice, EvdevCreate
<1>4. CASE EvdevCreateInput BY <1>4 DEF EvdevCreateInput, EvdevCreate
<1>5. CASE EvdevList BY <1>5 DEF EvdevList, EvdevResources, Kept
<1>6. CASE EvdevStop BY <1>6 DEF EvdevStop
<1>7. CASE EvdevJoinInput BY <1>7 DEF EvdevJoinInput, EvdevJoin
<1>8. CASE EvdevJoinDevice BY <1>8 DEF EvdevJoinDevice, EvdevJoin
<1>9. CASE EvdevUnwatch BY <1>9 DEF EvdevUnwatch
<1>10. CASE EvdevCleanNull BY <1>10 DEF EvdevCleanNull
<1>11. CASE EvdevCleanPipes BY <1>11 DEF EvdevCleanPipes
<1>12. CASE EvdevCleanLists BY <1>12 DEF EvdevCleanLists
<1>13. CASE EvdevCleanMutex BY <1>13 DEF EvdevCleanMutex
<1>14. QED
  BY <1>1, <1>2, <1>3, <1>4, <1>5, <1>6, <1>7, <1>8, <1>9, <1>10, <1>11,
     <1>12, <1>13 DEF EvdevCalls

LEMMA EvdevThreadType ==
    ASSUME TypeInv, NEW t \in Thread, EvdevThread(t),
           UNCHANGED <<author, lists>>
    PROVE  TypeInv'
<1> config = "evdev" BY EvdevThreadOn
<1> t[1] \in {Device, Input} BY ThreadParts
<1> USE DEF TypeInv, TypeOK, EvdevTypeOK, WinTypeOK
<1>1. Kept(t) \subseteq SUBSET (Thread \cup {App}) BY DEF Kept
<1>2. owner' \subseteq Thread \cup {App}
  BY <1>1 DEF EvdevThread, EvdevEnter, EvdevTurn, EvdevFail, EvdevEnd
<1>3. ASSUME Use(t)
      PROVE  stray' \subseteq {App, Device, Input}
                               \X {"null", "zero", "backend", "refs", "regs",
                                   "entry", "reg"}
  BY <1>3 DEF Use
<1>4. CASE EvdevEnter(t) BY <1>2, <1>3, <1>4 DEF EvdevEnter, Become
<1>5. CASE EvdevTurn(t) BY <1>2, <1>3, <1>5 DEF EvdevTurn, EvdevResources
<1>6. CASE EvdevFail(t) BY <1>2, <1>3, <1>6 DEF EvdevFail, Become
<1>7. CASE EvdevEnd(t) BY <1>2, <1>3, <1>7 DEF EvdevEnd, Become
<1>8. QED BY <1>4, <1>5, <1>6, <1>7 DEF EvdevThread

LEMMA WinCallsType ==
    ASSUME TypeInv, WinCalls, UNCHANGED evdev
    PROVE  TypeInv'
<1> config = "win" BY WinCallsOn
<1> USE DEF TypeInv, TypeOK, EvdevTypeOK, WinTypeOK, WinReturn, WinThrow,
            WinContinue
<1>1. CASE WinInit BY <1>1 DEF WinInit, Mutexes, WinResources
<1>2. CASE WinStart BY <1>2 DEF WinStart, WinCreate, WinResources
<1>3. CASE WinStartInput BY <1>3 DEF WinStartInput, WinCreate, WinResources
<1>4. CASE WinStarted BY <1>4 DEF WinStarted
<1>5. CASE WinStop BY <1>5 DEF WinStop, WinClose
<1>6. CASE WinStopInput BY <1>6 DEF WinStopInput, WinClose
<1>7. ASSUME NEW name \in {"refs", "regs"}, NEW l, Free(name, l)
      PROVE  stray' \subseteq {App, Device, Input}
                               \X {"null", "zero", "backend", "refs", "regs",
                                   "entry", "reg"}
  BY <1>7 DEF Free
<1>8. CASE WinStopRefs
  <2>1. stray' \subseteq {App, Device, Input}
                          \X {"null", "zero", "backend", "refs", "regs",
                              "entry", "reg"}
    BY <1>7, <1>8 DEF WinStopRefs
  <2>2. refs' \in {"empty", "linked", "dangling"}
    BY <1>8 DEF WinStopRefs, Freed
  <2>3. leads' \subseteq {"entry", "reg"} BY <1>8 DEF WinStopRefs, LeadAstray
  <2>4. /\ error' \in BOOLEAN /\ author' \in Thread \cup {App}
        /\ pc' \in {"reg", "returned"} /\ failed' \subseteq failed \cup {"stop"}
        /\ call' = "stop"
    BY <1>8 DEF WinStopRefs
  <2>5. QED BY <1>8, <2>1, <2>2, <2>3, <2>4 DEF WinStopRefs
<1>9. CASE WinStopReg
  <2>1. stray' \subseteq {App, Device, Input}
                          \X {"null", "zero", "backend", "refs", "regs",
                              "entry", "reg"}
    BY <1>7, <1>9 DEF WinStopReg
  <2>2. regs' \in {"empty", "linked", "dangling"}
    BY <1>9 DEF WinStopReg, Freed
  <2>3. leads' \subseteq {"entry", "reg"} BY <1>9 DEF WinStopReg
  <2>4. /\ error' \in BOOLEAN /\ author' \in Thread \cup {App}
        /\ pc' \in {"stopped", "returned"}
        /\ failed' \subseteq failed \cup {"stop"}
        /\ call' = "stop"
    BY <1>9 DEF WinStopReg
  <2>5. QED BY <1>9, <2>1, <2>2, <2>3, <2>4 DEF WinStopReg
<1>10. CASE WinStopped BY <1>10 DEF WinStopped
<1>11. CASE WinCleanNull BY <1>11 DEF WinCleanNull
<1>12. CASE WinCleanHandle
  <2>1. pc \in DOMAIN Closes => AfterClose[pc] \in {"enum", "reg", "event", "free"}
    BY DEF Closes, AfterClose
  <2>2. pc' \in {"returned", "enum", "reg", "event", "free"} /\ call' = call
    BY <1>12, <2>1 DEF WinCleanHandle
  <2>3. error' \in BOOLEAN /\ author' \in Thread \cup {App}
    BY <1>12 DEF WinCleanHandle
  <2>4. stray' \subseteq {App, Device, Input}
                          \X {"null", "zero", "backend", "refs", "regs",
                              "entry", "reg"}
    BY <1>12 DEF WinCleanHandle, UseOfApp
  <2>5. held' \subseteq WinResources BY <1>12 DEF WinCleanHandle
  <2>6. failed' \subseteq failed \cup {call} BY <1>12 DEF WinCleanHandle
  <2>7. QED BY <1>12, <2>2, <2>3, <2>4, <2>5, <2>6 DEF WinCleanHandle
<1>13. CASE WinCleanFree BY <1>13 DEF WinCleanFree
<1>14. QED
  BY <1>1, <1>2, <1>3, <1>4, <1>5, <1>6, <1>8, <1>9, <1>10, <1>11, <1>12,
     <1>13 DEF WinCalls

\* A thread of Windows takes a step to l that uses some lists.
Lists == {"refs", "regs", "entry", "reg"}

LEMMA WinUseType ==
    ASSUME TypeInv, NEW t \in Thread, NEW what \in SUBSET Lists,
           WinUse(t, what)
    PROVE  stray' \subseteq {App, Device, Input}
                             \X {"null", "zero", "backend", "refs", "regs",
                                 "entry", "reg"}
BY ThreadParts DEF WinUse, TypeInv, TypeOK, Lists

\* What the callbacks of a thread do to the record and the lists.
LEMMA WinCallbacksType ==
    ASSUME TypeInv, config = "win", NEW t \in Thread, WinCallbacks(t)
    PROVE  /\ error' \in BOOLEAN
           /\ author' \in Thread \cup {App}
           /\ regs' \in {"empty", "linked", "dangling"}
           /\ leads' \subseteq {"entry", "reg"}
<1> USE DEF TypeInv, TypeOK, WinTypeOK
<1>1. ASSUME NEW e \in BOOLEAN, WinThrow(t, e)
      PROVE  error' \in BOOLEAN /\ author' \in Thread \cup {App}
  BY <1>1 DEF WinThrow
<1>2. ASSUME Register
      PROVE  regs' = "linked" /\ leads' = leads
  BY <1>2 DEF Register
<1>3. ASSUME Unregister(t)
      PROVE  regs' \in {"empty", "linked"} /\ leads' \subseteq {"entry", "reg"}
  BY <1>3 DEF Unregister
<1>4. CASE UNCHANGED <<error, author, regs, leads>> BY <1>4
<1>5. CASE /\ \E e \in BOOLEAN : WinThrow(t, e)
           /\ \/ UNCHANGED <<regs, leads>>
              \/ Register
              \/ Unregister(t)
  <2>1. error' \in BOOLEAN /\ author' \in Thread \cup {App} BY <1>1, <1>5
  <2>2. /\ regs' \in {"empty", "linked", "dangling"}
        /\ leads' \subseteq {"entry", "reg"}
    BY <1>2, <1>3, <1>5
  <2>3. QED BY <2>1, <2>2
<1>6. QED BY <1>4, <1>5 DEF WinCallbacks

LEMMA WinThreadType ==
    ASSUME TypeInv, NEW t \in Thread, WinThread(t), UNCHANGED evdev
    PROVE  TypeInv'
<1> config = "win" BY WinThreadOn
<1> DEFINE StrayOK == stray' \subseteq {App, Device, Input}
                        \X {"null", "zero", "backend", "refs", "regs",
                            "entry", "reg"}
           States == {"none", "entered", "update", "check", "turn", "swap",
                      "ended"}
<1>1. ASSUME NEW what \in SUBSET Lists, WinUse(t, what) PROVE StrayOK
  BY <1>1, WinUseType
<1>2. /\ {} \in SUBSET Lists
      /\ Dangling("refs", refs) \in SUBSET Lists
      /\ Dangling("refs", refs) \cup Dangling("regs", regs)
           \cup (leads \cap {"reg"}) \in SUBSET Lists
      /\ Dangling("regs", regs)
           \cup (IF regs = "linked" THEN leads \cap {"entry"} ELSE {})
           \in SUBSET Lists
  BY DEF Dangling, Lists
<1>3. ASSUME NEW l \in States, WinGoto(t, l)
      PROVE  thread' \in [Thread -> States]
  BY <1>3 DEF WinGoto, TypeInv, TypeOK, WinTypeOK
<1>4. ASSUME WinFatal(t)
      PROVE  /\ error' \in BOOLEAN
             /\ author' \in Thread \cup {App}
             /\ thread' \in [Thread -> States]
  BY <1>3, <1>4 DEF WinFatal, WinThrow
<1> USE DEF TypeInv, TypeOK, EvdevTypeOK, WinTypeOK
<1>5. CASE WinEnter(t)
  <2>1. StrayOK BY <1>1, <1>2, <1>5 DEF WinEnter
  <2>2. thread' \in [Thread -> States] BY <1>3, <1>4, <1>5 DEF WinEnter
  <2>3. error' \in BOOLEAN /\ author' \in Thread \cup {App}
    BY <1>4, <1>5 DEF WinEnter
  <2>4. held' \subseteq WinResources BY <1>5 DEF WinEnter, WinResources
  <2>5. QED BY <1>5, <2>1, <2>2, <2>3, <2>4 DEF WinEnter
<1>6. CASE WinUpdate(t)
  <2>1. StrayOK BY <1>1, <1>2, <1>6 DEF WinUpdate
  <2>2. thread' \in [Thread -> States] BY <1>3, <1>6 DEF WinUpdate
  <2>3. error' \in BOOLEAN /\ author' \in Thread \cup {App}
    BY <1>6 DEF WinUpdate, WinThrow
  <2>4. QED BY <1>6, <2>1, <2>2, <2>3 DEF WinUpdate
<1>7. CASE WinCheck(t)
  <2>1. thread' \in [Thread -> States] BY <1>3, <1>7 DEF WinCheck
  <2>2. QED BY <1>7, <2>1 DEF WinCheck
<1>8. CASE WinRefresh(t)
  <2>1. StrayOK BY <1>1, <1>2, <1>8 DEF WinRefresh
  <2>2. thread' \in [Thread -> States] BY <1>3, <1>4, <1>8 DEF WinRefresh
  <2>3. /\ error' \in BOOLEAN
        /\ author' \in Thread \cup {App}
        /\ regs' \in {"empty", "linked", "dangling"}
        /\ leads' \subseteq {"entry", "reg"}
    BY <1>4, <1>8, WinCallbacksType DEF WinRefresh
  <2>4. QED BY <1>8, <2>1, <2>2, <2>3 DEF WinRefresh
<1>9. CASE WinSwap(t)
  <2>1. StrayOK BY <1>1, <1>2, <1>9 DEF WinSwap
  <2>2. thread' \in [Thread -> States] BY <1>3, <1>4, <1>9 DEF WinSwap
  <2>3. error' \in BOOLEAN /\ author' \in Thread \cup {App}
    BY <1>4, <1>9 DEF WinSwap
  <2>4. leads' \subseteq {"entry", "reg"} BY <1>9 DEF WinSwap, LeadAstray
  <2>5. refs' \in {"empty", "linked", "dangling"} BY <1>9 DEF WinSwap
  <2>6. held' \subseteq WinResources
    BY <1>9 DEF WinSwap, WinResources, OfDevices
  <2>7. QED BY <1>9, <2>1, <2>2, <2>3, <2>4, <2>5, <2>6 DEF WinSwap
<1>10. CASE WinPoll(t)
  <2>1. StrayOK BY <1>1, <1>2, <1>10 DEF WinPoll
  <2>2. thread' \in [Thread -> States] BY <1>3, <1>4, <1>10 DEF WinPoll
  <2>3. /\ error' \in BOOLEAN
        /\ author' \in Thread \cup {App}
        /\ regs' \in {"empty", "linked", "dangling"}
        /\ leads' \subseteq {"entry", "reg"}
    BY <1>4, <1>10, WinCallbacksType DEF WinPoll
  <2>4. QED BY <1>10, <2>1, <2>2, <2>3 DEF WinPoll
<1>11. QED BY <1>5, <1>6, <1>7, <1>8, <1>9, <1>10 DEF WinThread

LEMMA TypeStep == TypeInv /\ [Next]_allVars => TypeInv'
<1> SUFFICES ASSUME TypeInv, [Next]_allVars PROVE TypeInv' OBVIOUS
<1>1. CASE UNCHANGED allVars
  <2>1. EvdevTypeOK => EvdevTypeOK' BY <1>1 DEF EvdevTypeOK
  <2>2. WinTypeOK => WinTypeOK' BY <1>1 DEF WinTypeOK
  <2>3. QED BY <1>1, <2>1, <2>2 DEF TypeInv, TypeOK
<1>2. QED
  BY <1>1, ApplicationType, EvdevCallsType, EvdevThreadType, WinCallsType,
     WinThreadType DEF Next

\* The variables keep their types, and a backend's variables are left alone by
\* the other one, however often the library is started.
THEOREM TypeCorrect == Spec => []TypeOK
<1>1. TypeInv => TypeOK BY DEF TypeInv
<1>2. QED BY TypeInit, TypeStep, <1>1, PTL DEF Spec

-----------------------------------------------------------------------------
(* Evdev: a second start is deaf.                                          *)

DeafInv ==
    config = "evdev" =>
      /\ call \in {"none", "init"} => starts = 0
      /\ starts > 1 => closed
      /\ At("stop", pc) /\ pc # "begin" =>
           closed \/ (pc = "returned" /\ error)
      /\ \A t \in Thread :
           t[2] > 1 => /\ thread[t] # "looping"
                       /\ thread[t] = "entered" => closed
      /\ \A t \in heard : t[2] = 1

LEMMA DeafInit == PunknobsInitial => DeafInv
BY DEF PunknobsInitial, Init, DeafInv

LEMMA DeafStep == TypeInv /\ DeafInv /\ [Next]_allVars => DeafInv'
<1> SUFFICES ASSUME TypeInv, DeafInv, [Next]_allVars, config' = "evdev"
             PROVE  DeafInv'
  BY DEF DeafInv
<1>0. config = "evdev"
  BY ApplicationOn, EvdevCallsOn, EvdevThreadOn, WinCallsOn, WinThreadOn
  DEF Next
<1> starts \in Nat /\ thread \in [Thread -> AllStates]
  BY <1>0 DEF TypeInv, TypeOK, EvdevTypeOK, AllStates
<1> USE <1>0 DEF DeafInv
<1>1. CASE Application /\ UNCHANGED <<evdev, author, lists>>
  <2>1. CASE PunknobsInit BY <1>1, <2>1 DEF PunknobsInit
  <2>2. CASE Check BY <1>1, <2>2 DEF Check
  <2>3. CASE PunknobsStart BY <1>1, <2>3 DEF PunknobsStart
  <2>4. CASE PunknobsStop BY <1>1, <2>4 DEF PunknobsStop
  <2>5. CASE Clean BY <1>1, <2>5 DEF Clean
  <2>6. CASE PunknobsClean BY <1>1, <2>6 DEF PunknobsClean
  <2>7. QED BY <1>1, <2>1, <2>2, <2>3, <2>4, <2>5, <2>6 DEF Application
<1>2. CASE EvdevCalls /\ UNCHANGED <<author, lists>>
  <2>1. ASSUME NEW loop \in {Device, Input}, NEW l, call = "start",
               EvdevCreate(loop, l)
        PROVE  DeafInv'
    BY <2>1 DEF EvdevCreate
  <2>2. CASE EvdevCreateDevice \/ EvdevCreateInput
    BY <2>1, <2>2 DEF EvdevCreateDevice, EvdevCreateInput
  <2>3. CASE EvdevStop
    <3>1. call = "stop" /\ call' = "stop" /\ pc = "begin"
      BY <2>3 DEF EvdevStop
    <3>2. closed' \/ (closed' = closed /\ pc' = "returned" /\ error')
      BY <2>3 DEF EvdevStop
    <3>3. closed => closed'
      <4>1. closed' = closed \/ closed' = TRUE BY <2>3 DEF EvdevStop
      <4>2. QED BY <4>1
    <3>4. UNCHANGED <<config, starts, thread, heard>> BY <2>3 DEF EvdevStop
    <3>5. QED BY <3>1, <3>2, <3>3, <3>4
  <2>4. ASSUME NEW loop, NEW l, call = "stop", pc \in {"join", "join_device"},
               l # "begin", EvdevJoin(loop, l)
        PROVE  DeafInv'
    BY <2>4 DEF EvdevJoin
  <2>5. CASE EvdevJoinInput \/ EvdevJoinDevice
    BY <2>4, <2>5 DEF EvdevJoinInput, EvdevJoinDevice
  <2>6. CASE EvdevUnwatch BY <2>6 DEF EvdevUnwatch
  <2>7. QED
    BY <1>2, <2>2, <2>3, <2>5, <2>6
    DEF EvdevCalls, EvdevInit, EvdevStart, EvdevList, EvdevCleanNull,
        EvdevCleanPipes, EvdevCleanLists, EvdevCleanMutex
<1>3. ASSUME NEW t \in Thread, EvdevThread(t) PROVE DeafInv'
  <2> t[2] \in Nat \ {0} BY ThreadParts, LifecycleAssumption
  <2>1. CASE EvdevEnter(t) BY <2>1 DEF EvdevEnter, Become
  <2>2. CASE EvdevTurn(t) BY <2>2 DEF EvdevTurn
  <2>3. CASE EvdevFail(t) BY <2>3 DEF EvdevFail, Become
  <2>4. CASE EvdevEnd(t) BY <2>4 DEF EvdevEnd, Become
  <2>5. QED BY <1>3, <2>1, <2>2, <2>3, <2>4 DEF EvdevThread
<1>4. CASE UNCHANGED allVars BY <1>4
<1>5. QED BY <1>1, <1>2, <1>3, <1>4, WinCallsOn, WinThreadOn DEF Next

\* However often evdev is started again, only the threads of the first start
\* ever call the application back (evdev_epoll.c:503).
THEOREM SecondStartIsDeaf == Spec => []DeafAfterStop
<1>1. DeafInv => DeafAfterStop BY DEF DeafInv, DeafAfterStop
<1>2. QED
  BY TypeInit, TypeStep, DeafInit, DeafStep, <1>1, PTL DEF Spec

-----------------------------------------------------------------------------
(* Evdev: nothing freed is used.                                           *)

\* What every call but init and the end of clean counts on.
Ready == Pipes \cup {"input_list"} \subseteq held /\ backend = "held"

ReadyInv ==
    \/ call \in {"start", "stop"}
    \/ call = "init" /\ pc = "idle"
    \/ call = "init" /\ pc = "returned" /\ ~error
    \/ call = "clean" /\ pc = "begin" /\ "init" \notin failed
    => Ready

\* Threads live from their creation until stop has joined them, unless start or
\* stop failed.
LiveInv ==
    {"start", "stop"} \cap failed = {} =>
      \A t \in Thread : thread[t] \notin {"none", "ended"} =>
        /\ t \in Starting
        /\ \/ call = "start" /\ pc # "begin"
           \/ call = "stop" /\ pc \in {"begin", "join"}
           \/ At("stop", "join_device") /\ t[1] = Device

ThreadStray == \E l \in {Device, Input} : <<l, "backend">> \in stray
AppStray == {<<App, "zero">>, <<App, "null">>} \cap stray # {}

StrayInv ==
    /\ ThreadStray => {"start", "stop"} \cap failed # {}
    /\ AppStray => "init" \in failed

FreedInv == config = "evdev" => ReadyInv /\ LiveInv /\ StrayInv

LEMMA FreedInit == PunknobsInitial => FreedInv
BY DEF PunknobsInitial, Init, FreedInv, ReadyInv, LiveInv, StrayInv,
       ThreadStray, AppStray

LEMMA FreedApplication ==
    ASSUME TypeInv, FreedInv, config = "evdev", Application
    PROVE  FreedInv'
<1> USE DEF FreedInv, ReadyInv, LiveInv, Ready, Starting
<1>1. StrayInv'
  BY DEF Application, PunknobsInit, Check, PunknobsStart, PunknobsStop, Clean,
     PunknobsClean, StrayInv, ThreadStray, AppStray
<1>2. CASE PunknobsInit BY <1>1, <1>2 DEF PunknobsInit
<1>3. CASE Check
  <2>1. UNCHANGED <<config, backend, held, thread, starts, error>>
    BY <1>3 DEF Check
  <2>2. CASE error
    <3>1. call' = "clean" /\ pc' = "begin" /\ failed' = failed \cup {call}
      BY <1>3, <2>2 DEF Check
    <3>2. call \in {"init", "start", "stop"} /\ pc = "returned"
      BY <1>3 DEF Check, TypeInv, TypeOK
    <3>3. ReadyInv' BY <2>1, <3>1, <3>2
    <3>4. LiveInv' BY <2>1, <3>1, <3>2
    <3>5. QED BY <1>1, <2>1, <3>3, <3>4
  <2>3. CASE ~error
    <3>1. call' = call /\ pc' = "idle" /\ failed' = failed
      BY <1>3, <2>3 DEF Check
    <3>2. ReadyInv' BY <1>3, <2>1, <2>3, <3>1 DEF Check
    <3>3. LiveInv' BY <1>3, <2>1, <3>1 DEF Check
    <3>4. QED BY <1>1, <2>1, <3>2, <3>3
  <2>4. QED BY <2>2, <2>3
<1>4. CASE PunknobsStart BY <1>1, <1>4 DEF PunknobsStart
<1>5. CASE PunknobsStop BY <1>1, <1>5 DEF PunknobsStop
<1>6. CASE Clean BY <1>1, <1>6 DEF Clean
<1>7. CASE PunknobsClean BY <1>1, <1>7 DEF PunknobsClean
<1>8. QED BY <1>2, <1>3, <1>4, <1>5, <1>6, <1>7 DEF Application

LEMMA FreedCalls ==
    ASSUME TypeInv, FreedInv, EvdevCalls
    PROVE  FreedInv'
<1>0. config = "evdev" BY EvdevCallsOn
<1> thread \in [Thread -> AllStates]
  BY <1>0 DEF TypeInv, TypeOK, EvdevTypeOK, AllStates
<1> USE <1>0 DEF FreedInv, ReadyInv, LiveInv, Ready, Starting, Pipes
<1>1. CASE EvdevInit
  <2>1. ~error' => Pipes \cup {"input_list"} \subseteq held' /\ backend' = "held"
    <3>1. {"input_pipe", "device_pipe", "input_list"}
            \subseteq {Made[k] : k \in 1 .. Len(Made)}
      <4>1. Len(Made) = 8 /\ Made[2] = "input_pipe" /\ Made[4] = "input_list"
              /\ Made[5] = "device_pipe"
        BY DEF Made
      <4>2. QED BY <4>1
    <3>2. Len(Made) \in Nat BY DEF Made
    <3>3. SUFFICES ASSUME ~error'
                   PROVE  /\ Pipes \cup {"input_list"} \subseteq held'
                          /\ backend' = "held"
      OBVIOUS
    <3>4. PICK n \in 0 .. Len(Made) :
            /\ backend' = "held"
            /\ held' = {Made[k] : k \in 1 .. n}
            /\ error' = (n < Len(Made))
      BY <1>1, <3>3 DEF EvdevInit
    <3>5. n = Len(Made)
      <4>1. ~(n < Len(Made)) BY <3>3, <3>4
      <4>2. QED BY <4>1, <3>2
    <3>6. QED BY <3>1, <3>4, <3>5
  <2>2. StrayInv' BY <1>1 DEF EvdevInit, StrayInv, ThreadStray, AppStray
  <2>3. call' = "init" /\ pc' = "returned" /\ UNCHANGED thread
    BY <1>1 DEF EvdevInit
  <2>4. LiveInv' BY <1>1, <2>3 DEF EvdevInit
  <2>5. QED BY <2>1, <2>2, <2>3, <2>4
<1>2. CASE EvdevStart
  BY <1>2 DEF EvdevStart, StrayInv, ThreadStray, AppStray
<1>3. CASE EvdevCreateDevice
  BY <1>3 DEF EvdevCreateDevice, EvdevCreate, StrayInv, ThreadStray, AppStray
<1>4. CASE EvdevCreateInput
  BY <1>4 DEF EvdevCreateInput, EvdevCreate, StrayInv, ThreadStray, AppStray
<1>5. CASE EvdevList
  BY <1>5 DEF EvdevList, StrayInv, ThreadStray, AppStray
<1>6. CASE EvdevStop
  BY <1>6 DEF EvdevStop, StrayInv, ThreadStray, AppStray
<1>7. CASE EvdevJoinInput
  BY <1>7, ThreadParts
  DEF EvdevJoinInput, EvdevJoin, StrayInv, ThreadStray, AppStray
<1>8. CASE EvdevJoinDevice
  BY <1>8, ThreadParts
  DEF EvdevJoinDevice, EvdevJoin, StrayInv, ThreadStray, AppStray
<1>9. CASE EvdevUnwatch
  BY <1>9 DEF EvdevUnwatch, StrayInv, ThreadStray, AppStray
<1>10. CASE EvdevCleanNull
  BY <1>10 DEF EvdevCleanNull, StrayInv, ThreadStray, AppStray
<1>11. CASE EvdevCleanPipes
  BY <1>11 DEF EvdevCleanPipes, StrayInv, ThreadStray, AppStray
<1>12. CASE EvdevCleanLists
  BY <1>12 DEF EvdevCleanLists, StrayInv, ThreadStray, AppStray
<1>13. CASE EvdevCleanMutex
  BY <1>13 DEF EvdevCleanMutex, StrayInv, ThreadStray, AppStray
<1>14. QED
  BY <1>1, <1>2, <1>3, <1>4, <1>5, <1>6, <1>7, <1>8, <1>9, <1>10, <1>11,
     <1>12, <1>13 DEF EvdevCalls

LEMMA FreedThread ==
    ASSUME TypeInv, FreedInv, NEW t \in Thread, EvdevThread(t)
    PROVE  FreedInv'
<1>0. config = "evdev" BY EvdevThreadOn
<1>1. thread \in [Thread -> AllStates]
  BY <1>0 DEF TypeInv, TypeOK, EvdevTypeOK, AllStates
<1>2. /\ UNCHANGED <<config, call, pc, backend, error, failed, starts>>
      /\ thread[t] \notin {"none", "ended"}
      /\ \E l \in AllStates : thread' = [thread EXCEPT ![t] = l]
      /\ held \subseteq held'
      /\ Use(t)
  BY <1>1 DEF EvdevThread, EvdevEnter, EvdevTurn, EvdevFail, EvdevEnd, Become,
     AllStates
<1>3. ReadyInv' BY <1>0, <1>2 DEF FreedInv, ReadyInv, Ready
<1>4. LiveInv' BY <1>0, <1>1, <1>2 DEF FreedInv, LiveInv, Starting
<1>5. StrayInv'
  <2>1. "input_list" \notin held => {"start", "stop"} \cap failed # {}
    BY <1>0, <1>2 DEF FreedInv, LiveInv, ReadyInv, Ready
  <2>2. StrayInv BY <1>0 DEF FreedInv
  <2>3. ThreadStray' => {"start", "stop"} \cap failed # {}
    BY <1>2, <2>1, <2>2 DEF Use, StrayInv, ThreadStray
  <2>4. AppStray' => AppStray
    BY <1>2 DEF Use, AppStray
  <2>5. QED BY <1>2, <2>2, <2>3, <2>4 DEF StrayInv
<1>6. QED BY <1>3, <1>4, <1>5 DEF FreedInv

LEMMA FreedStep == TypeInv /\ FreedInv /\ [Next]_allVars => FreedInv'
<1> SUFFICES ASSUME TypeInv, FreedInv, [Next]_allVars, config' = "evdev"
             PROVE  FreedInv'
  BY DEF FreedInv
<1>0. config = "evdev"
  BY ApplicationOn, EvdevCallsOn, EvdevThreadOn, WinCallsOn, WinThreadOn
  DEF Next
<1>1. CASE Application BY <1>0, <1>1, FreedApplication
<1>2. CASE EvdevCalls BY <1>2, FreedCalls
<1>3. ASSUME NEW t \in Thread, EvdevThread(t) PROVE FreedInv'
  BY <1>3, FreedThread
<1>4. CASE UNCHANGED allVars
  BY <1>4 DEF FreedInv, ReadyInv, Ready, LiveInv, Starting, StrayInv,
     ThreadStray, AppStray
<1>5. QED
  BY <1>0, <1>1, <1>2, <1>3, <1>4, WinCallsOn, WinThreadOn DEF Next

\* However often evdev is started, its threads use what clean frees only after
\* a start or a stop that failed, and clean closes descriptor 0 or follows a
\* null pointer only after an init that failed (evdev_epoll.c:278, 434, 493).
THEOREM NothingFreedIsUsed == Spec => []FreedUnused
<1>1. FreedInv => FreedUnused
  BY DEF FreedInv, StrayInv, ThreadStray, AppStray, FreedUnused
<1>2. QED BY TypeInit, TypeStep, FreedInit, FreedStep, <1>1, PTL DEF Spec

\* However often evdev is started, and whatever ended its threads, none of them
\* runs once a stop that succeeded has joined them (evdev_epoll.c:519 to 543).
THEOREM StopEndsThreads == Spec => []StoppedIsOver
<1>1. FreedInv => StoppedIsOver
  BY DEF FreedInv, LiveInv, StoppedIsOver, Live
<1>2. QED BY TypeInit, TypeStep, FreedInit, FreedStep, <1>1, PTL DEF Spec

-----------------------------------------------------------------------------
(* Windows: what ends a thread.                                            *)

\* Between the reset of the record and the check, an error of the thread's own
\* says that mutex_main is closed.
OwnErrorInv ==
    \A t \in Thread :
      thread[t] = "check" /\ error /\ author = t => "main" \notin held

LEMMA OwnErrorInit == PunknobsInitial => OwnErrorInv
BY DEF PunknobsInitial, Init, OwnErrorInv

LEMMA OwnErrorWin ==
    ASSUME TypeInv, OwnErrorInv, WinCalls
    PROVE  OwnErrorInv'
<1> App \notin Thread BY LifecycleAssumption
<1> config = "win" BY WinCallsOn
<1> thread \in [Thread -> AllStates]
  BY DEF TypeInv, TypeOK, WinTypeOK, AllStates
<1> USE DEF OwnErrorInv, WinReturn, WinThrow, WinContinue
<1>1. CASE WinInit BY <1>1 DEF WinInit
<1>2. ASSUME NEW loop, NEW handle \in {"thread_device", "thread_input"}, NEW l,
             WinCreate(loop, handle, l)
      PROVE  OwnErrorInv'
  <2>1. CASE WinReturn(TRUE) /\ UNCHANGED <<thread, held>> BY <2>1
  <2>2. CASE UNCHANGED <<error, author>>
    <3>1. \A t \in Thread : thread'[t] = "check" => thread[t] = "check"
      BY <1>2, <2>2 DEF WinCreate
    <3>2. "main" \in held' => "main" \in held
      BY <1>2, <2>2 DEF WinCreate
    <3>3. QED BY <2>2, <3>1, <3>2
  <2>3. QED BY <1>2, <2>1, <2>2 DEF WinCreate
<1>3. CASE WinStart \/ WinStartInput
  BY <1>2, <1>3 DEF WinStart, WinStartInput
<1>4. CASE WinCleanHandle BY <1>4 DEF WinCleanHandle
<1>5. CASE WinCleanFree BY <1>5 DEF WinCleanFree
<1>6. CASE WinStop \/ WinStopInput
  BY <1>6 DEF WinStop, WinStopInput, WinClose
<1>7. CASE WinStopRefs BY <1>7 DEF WinStopRefs
<1>8. CASE WinStopReg BY <1>8 DEF WinStopReg
<1>9. QED
  BY <1>1, <1>3, <1>4, <1>5, <1>6, <1>7, <1>8
  DEF WinCalls, WinStarted, WinStopped, WinCleanNull

LEMMA OwnErrorThread ==
    ASSUME TypeInv, OwnErrorInv, NEW t \in Thread, WinThread(t)
    PROVE  OwnErrorInv'
<1> App \notin Thread BY LifecycleAssumption
<1> config = "win" BY WinThreadOn
<1> thread \in [Thread -> AllStates]
  BY DEF TypeInv, TypeOK, WinTypeOK, AllStates
<1> USE DEF OwnErrorInv, WinThrow, WinGoto, WinFatal
<1>1. CASE WinEnter(t)
  <2>1. "main" \in held' => "main" \in held BY <1>1 DEF WinEnter
  <2>2. CASE WinThrow(t, TRUE) /\ WinGoto(t, "ended") BY <2>1, <2>2
  <2>3. CASE WinGoto(t, "update") /\ UNCHANGED <<error, author>>
    BY <2>1, <2>3
  <2>4. QED BY <1>1, <2>2, <2>3 DEF WinEnter
<1>2. CASE WinUpdate(t) BY <1>2 DEF WinUpdate
<1>3. CASE WinCheck(t) BY <1>3 DEF WinCheck
<1>4. ASSUME "main" \in held' => "main" \in held,
             NEW l \in {"ended", "update", "swap"}, WinGoto(t, l),
             \/ UNCHANGED <<error, author>>
             \/ \E e \in BOOLEAN : WinThrow(t, e)
      PROVE  OwnErrorInv'
  BY <1>4
<1>5. ASSUME WinCallbacks(t)
      PROVE  \/ UNCHANGED <<error, author>>
             \/ \E e \in BOOLEAN : WinThrow(t, e)
  BY <1>5 DEF WinCallbacks
<1>6. CASE WinRefresh(t) BY <1>4, <1>5, <1>6 DEF WinRefresh
<1>7. CASE WinSwap(t)
  <2>1. "main" \in held' => "main" \in held BY <1>7 DEF WinSwap, OfDevices
  <2>2. QED BY <1>4, <1>7, <2>1 DEF WinSwap
<1>8. CASE WinPoll(t) BY <1>4, <1>5, <1>8 DEF WinPoll
<1>9. QED BY <1>1, <1>2, <1>3, <1>6, <1>7, <1>8 DEF WinThread

LEMMA OwnErrorStep == TypeInv /\ OwnErrorInv /\ [Next]_allVars => OwnErrorInv'
<1> SUFFICES ASSUME TypeInv, OwnErrorInv, [Next]_allVars PROVE OwnErrorInv'
  OBVIOUS
<1>1. CASE WinCalls BY <1>1, OwnErrorWin
<1>2. ASSUME NEW t \in Thread, WinThread(t) PROVE OwnErrorInv'
  BY <1>2, OwnErrorThread
<1>3. ASSUME config' = "evdev" PROVE OwnErrorInv'
  <2>1. TypeInv' BY TypeStep
  <2>2. \A t \in Thread : thread'[t] # "check"
    BY <1>3, <2>1 DEF TypeInv, TypeOK, EvdevTypeOK
  <2>3. QED BY <2>2 DEF OwnErrorInv
<1>4. CASE Application /\ UNCHANGED <<evdev, author, lists>>
  BY <1>4 DEF Application, PunknobsInit, Check, PunknobsStart, PunknobsStop,
     Clean, PunknobsClean, OwnErrorInv
<1>5. CASE UNCHANGED allVars BY <1>5 DEF OwnErrorInv
<1>6. CASE EvdevCalls BY <1>3, <1>6, EvdevCallsOn
<1>7. ASSUME NEW t \in Thread, EvdevThread(t) PROVE OwnErrorInv'
  BY <1>3, <1>7, EvdevThreadOn
<1>8. QED BY <1>1, <1>2, <1>4, <1>5, <1>6, <1>7 DEF Next

\* However often Windows is started, no thread is ended by the error that its
\* own callback left in the record (win_helpers.c:103).
THEOREM NotEndedByItself == Spec => EndedByOthers
<1> DEFINE Ended == \A t \in Thread :
                      thread[t] = "check" /\ thread'[t] = "ended"
                        => author # t \/ "main" \notin held
<1>1. TypeInv /\ OwnErrorInv /\ [Next]_allVars => [Ended]_allVars
  <2> SUFFICES ASSUME TypeInv, OwnErrorInv, Next, NEW t \in Thread,
                      thread[t] = "check", thread'[t] = "ended"
               PROVE  author # t \/ "main" \notin held
    OBVIOUS
  <2>1. config = "win"
    <3>1. config \in Backends /\ Backends \subseteq {"evdev", "win"}
      BY LifecycleAssumption DEF TypeInv, TypeOK
    <3>2. CASE config = "evdev"
      BY <3>2 DEF TypeInv, TypeOK, EvdevTypeOK
    <3>3. QED BY <3>1, <3>2
  <2>2. ~closed BY <2>1 DEF TypeInv, TypeOK, WinTypeOK
  <2>3. error
    <3>1. thread \in [Thread -> AllStates]
      BY <2>1 DEF TypeInv, TypeOK, WinTypeOK, AllStates
    <3>2. CASE Application
      BY <3>2 DEF Application, PunknobsInit, Check, PunknobsStart,
         PunknobsStop, Clean, PunknobsClean
    <3>3. CASE WinCalls
      BY <3>1, <3>3
      DEF WinCalls, WinInit, WinStart, WinStartInput, WinCreate, WinStarted,
          WinStop, WinStopInput, WinClose, WinStopRefs, WinStopReg, WinStopped,
          WinCleanNull, WinCleanHandle, WinCleanFree
    <3>4. ASSUME NEW u \in Thread, WinThread(u) PROVE error
      <4>1. t # u => thread'[t] = thread[t]
        BY <3>1, <3>4 DEF WinThread, WinEnter, WinUpdate, WinCheck,
           WinRefresh, WinSwap, WinPoll, WinGoto, WinFatal
      <4>2. t = u BY <4>1
      <4>3. WinCheck(t)
        BY <3>1, <3>4, <4>2 DEF WinThread, WinEnter, WinUpdate, WinCheck,
           WinRefresh, WinSwap, WinPoll, WinGoto
      <4>4. QED BY <2>2, <3>1, <4>3 DEF WinCheck, WinGoto
    <3>5. QED
      BY <2>1, <3>2, <3>3, <3>4, EvdevCallsOn, EvdevThreadOn DEF Next
  <2>4. QED BY <2>3 DEF OwnErrorInv
<1>2. QED
  BY TypeInit, TypeStep, OwnErrorInit, OwnErrorStep, <1>1, PTL
  DEF Spec, EndedByOthers

-----------------------------------------------------------------------------
(* Both backends: what a life without failures leaves behind.              *)

\* Evdev closes inotify when stop succeeds, and clean has given back what it
\* knows of at each of its steps, in the order of the code.
EvdevBackInv ==
    config = "evdev" =>
      /\ context = "freed" => At("clean", "done")
      /\ failed = {} =>
           /\ "inotify" \in held =>
                \/ call = "start"
                \/ call = "stop" /\ pc \in {"begin", "join", "join_device", "watch"}
           /\ At("clean", "lists") => held \cap Pipes = {}
           /\ At("clean", "mutex") =>
                held \subseteq Leaked \cup {"mutex", "semaphore"}
           /\ At("clean", "returned") \/ context = "freed" =>
                held \subseteq Leaked /\ backend = "freed"

LEMMA EvdevBackInit == PunknobsInitial => EvdevBackInv
BY DEF PunknobsInitial, Init, EvdevBackInv

LEMMA EvdevBackApplication ==
    ASSUME TypeInv, EvdevBackInv, config = "evdev", Application
    PROVE  EvdevBackInv'
<1> USE DEF EvdevBackInv
<1>1. CASE PunknobsInit BY <1>1 DEF PunknobsInit
<1>2. CASE Check BY <1>2 DEF Check
<1>3. CASE PunknobsStart BY <1>3 DEF PunknobsStart
<1>4. CASE PunknobsStop BY <1>4 DEF PunknobsStop
<1>5. CASE Clean BY <1>5 DEF Clean
<1>6. CASE PunknobsClean BY <1>6 DEF PunknobsClean, Leaked
<1>7. QED BY <1>1, <1>2, <1>3, <1>4, <1>5, <1>6 DEF Application

LEMMA EvdevBackCalls ==
    ASSUME TypeInv, EvdevBackInv, EvdevCalls
    PROVE  EvdevBackInv'
<1>0. config = "evdev" BY EvdevCallsOn
<1>1. CASE EvdevInit
  <2>1. "inotify" \notin {Made[k] : k \in 1 .. Len(Made)} BY DEF Made
  <2>2. failed = {} => "inotify" \notin held'
    BY <1>0, <1>1, <2>1 DEF EvdevInit, EvdevBackInv
  <2>3. call' = "init" /\ context # "freed" /\ UNCHANGED <<config, context>>
    BY <1>0, <1>1 DEF EvdevInit, EvdevBackInv
  <2>4. failed' = {} => failed = {} BY <1>1 DEF EvdevInit
  <2>5. QED BY <2>2, <2>3, <2>4 DEF EvdevBackInv
<1> USE <1>0 DEF EvdevBackInv, Pipes, Leaked
<1>2. CASE EvdevStart BY <1>2 DEF EvdevStart
<1>3. CASE EvdevCreateDevice BY <1>3 DEF EvdevCreateDevice, EvdevCreate
<1>4. CASE EvdevCreateInput BY <1>4 DEF EvdevCreateInput, EvdevCreate
<1>5. CASE EvdevList BY <1>5 DEF EvdevList
<1>6. CASE EvdevStop BY <1>6 DEF EvdevStop
<1>7. CASE EvdevJoinInput BY <1>7 DEF EvdevJoinInput, EvdevJoin
<1>8. CASE EvdevJoinDevice BY <1>8 DEF EvdevJoinDevice, EvdevJoin
<1>9. CASE EvdevUnwatch BY <1>9 DEF EvdevUnwatch
<1>10. CASE EvdevCleanNull BY <1>10 DEF EvdevCleanNull
<1>11. CASE EvdevCleanPipes BY <1>11 DEF EvdevCleanPipes
<1>12. CASE EvdevCleanLists
  <2>1. held \subseteq EvdevResources
    BY DEF TypeInv, TypeOK, EvdevTypeOK
  <2>2. QED BY <1>12, <2>1 DEF EvdevCleanLists, EvdevResources
<1>13. CASE EvdevCleanMutex BY <1>13 DEF EvdevCleanMutex
<1>14. QED
  BY <1>1, <1>2, <1>3, <1>4, <1>5, <1>6, <1>7, <1>8, <1>9, <1>10, <1>11,
     <1>12, <1>13 DEF EvdevCalls

\* A thread may register a device, but not once clean has begun.
LEMMA EvdevBackThread ==
    ASSUME TypeInv, FreedInv, EvdevBackInv, NEW t \in Thread, EvdevThread(t)
    PROVE  EvdevBackInv'
<1>0. config = "evdev" BY EvdevThreadOn
<1>1. /\ UNCHANGED <<config, call, pc, memory, error, failed>>
      /\ held' = held \/ held' = held \cup {"devices"}
      /\ thread[t] \notin {"none", "ended"}
  BY DEF EvdevThread, EvdevEnter, EvdevTurn, EvdevFail, EvdevEnd
<1>2. call = "clean" => failed # {}
  BY <1>0, <1>1 DEF FreedInv, LiveInv
<1>3. context # "freed" \/ failed # {}
  BY <1>0, <1>2 DEF EvdevBackInv
<1>4. QED BY <1>0, <1>1, <1>2, <1>3 DEF EvdevBackInv

LEMMA EvdevBackStep ==
    TypeInv /\ FreedInv /\ EvdevBackInv /\ [Next]_allVars => EvdevBackInv'
<1> SUFFICES ASSUME TypeInv, FreedInv, EvdevBackInv, [Next]_allVars,
                    config' = "evdev"
             PROVE  EvdevBackInv'
  BY DEF EvdevBackInv
<1>0. config = "evdev"
  BY ApplicationOn, EvdevCallsOn, EvdevThreadOn, WinCallsOn, WinThreadOn
  DEF Next
<1>1. CASE Application BY <1>0, <1>1, EvdevBackApplication
<1>2. CASE EvdevCalls BY <1>2, EvdevBackCalls
<1>3. ASSUME NEW t \in Thread, EvdevThread(t) PROVE EvdevBackInv'
  BY <1>3, EvdevBackThread
<1>4. CASE UNCHANGED allVars BY <1>4 DEF EvdevBackInv, Leaked
<1>5. QED
  BY <1>0, <1>1, <1>2, <1>3, <1>4, WinCallsOn, WinThreadOn DEF Next

\* What clean has to close, and what is left of it at step l of clean.
Handles == Mutexes \cup {"event"}
Unclosed(l) ==
    CASE l = "begin" -> Handles
      [] l = "enum" -> {"enum", "reg", "event"}
      [] l = "reg" -> {"reg", "event"}
      [] l = "event" -> {"event"}
      [] OTHER -> {}

\* No thread is there before start, and what they use is there until clean.
WinReadyInv ==
    /\ call \in {"none", "init"} => \A t \in Thread : thread[t] = "none"
    /\ \/ call \in {"start", "stop"}
       \/ At("init", "idle")
       \/ At("init", "returned") /\ ~error
       => Handles \subseteq held /\ backend = "held"
    /\ backend = "freed" => call \in {"init", "clean"}
    /\ context = "freed" => At("clean", "done")

\* Stop closes the handles of the threads, and every handle clean comes to is
\* open: what it has closed does not depend on the error it finds.
WinBackInv ==
    failed = {} =>
      /\ "thread_device" \in held => call = "start" \/ At("stop", "begin")
      /\ "thread_input" \in held =>
           call = "start" \/ At("stop", "begin") \/ At("stop", "input")
      /\ call = "clean" /\ (pc = "done" => context = "freed") =>
           held \cap Handles = Unclosed(pc)
      /\ At("clean", "returned") \/ context = "freed" => backend = "freed"

WinInv == config = "win" => WinReadyInv /\ WinBackInv

LEMMA WinInvInit == PunknobsInitial => WinInv
BY DEF PunknobsInitial, Init, WinInv, WinReadyInv, WinBackInv

LEMMA WinInvApplication ==
    ASSUME TypeInv, WinInv, config = "win", Application,
           UNCHANGED <<evdev, author, lists>>
    PROVE  WinInv'
<1> USE DEF WinInv, WinReadyInv, WinBackInv, Unclosed, Handles, Mutexes
<1>1. CASE PunknobsInit BY <1>1 DEF PunknobsInit
<1>2. CASE Check BY <1>2 DEF Check, TypeInv, TypeOK
<1>3. CASE PunknobsStart BY <1>3 DEF PunknobsStart
<1>4. CASE PunknobsStop BY <1>4 DEF PunknobsStop
<1>5. CASE Clean BY <1>5 DEF Clean
<1>6. CASE PunknobsClean BY <1>6 DEF PunknobsClean
<1>7. QED BY <1>1, <1>2, <1>3, <1>4, <1>5, <1>6 DEF Application

LEMMA WinInvCalls ==
    ASSUME TypeInv, WinInv, WinCalls
    PROVE  WinInv'
<1> config = "win" BY WinCallsOn
<1> USE DEF WinInv, WinReadyInv, WinBackInv, WinReturn, WinThrow, WinContinue,
            Handles, Mutexes
<1>1. CASE WinInit BY <1>1 DEF WinInit
<1>2. CASE WinStart BY <1>2 DEF WinStart, WinCreate
<1>3. CASE WinStartInput BY <1>3 DEF WinStartInput, WinCreate
<1>4. CASE WinStarted BY <1>4 DEF WinStarted
<1>5. CASE WinStop BY <1>5 DEF WinStop, WinClose
<1>6. CASE WinStopInput BY <1>6 DEF WinStopInput, WinClose
<1>7. CASE WinStopRefs BY <1>7 DEF WinStopRefs
<1>8. CASE WinStopReg BY <1>8 DEF WinStopReg
<1>9. CASE WinStopped BY <1>9 DEF WinStopped
<1>10. CASE WinCleanNull BY <1>10 DEF WinCleanNull, Unclosed
<1>11. CASE WinCleanHandle
  <2>1. pc \in {"begin", "enum", "reg", "event"} /\ call = "clean"
    BY <1>11 DEF WinCleanHandle, Closes
  <2>2. /\ UNCHANGED <<config, memory, thread, call>>
        /\ held' \subseteq held
        /\ pc' \in {"returned", "enum", "reg", "event", "free"}
        /\ failed' = {} => failed = {}
    BY <1>11, <2>1 DEF WinCleanHandle, AfterClose
  <2>3. WinReadyInv' BY <2>1, <2>2
  <2>4. ASSUME failed' = {}
        PROVE  held' \cap Handles = Unclosed(pc') /\ pc' # "returned"
    <3>1. failed = {} BY <2>2, <2>4
    <3>2. held \cap Handles = Unclosed(pc) BY <2>1, <3>1
    <3>3. held' = held \ {Closes[pc]} /\ pc' = AfterClose[pc]
      BY <1>11, <2>1, <2>4 DEF WinCleanHandle
    <3>4. CASE pc = "begin"
      BY <3>2, <3>3, <3>4 DEF Closes, AfterClose, Unclosed
    <3>5. CASE pc = "enum"
      BY <3>2, <3>3, <3>5 DEF Closes, AfterClose, Unclosed
    <3>6. CASE pc = "reg"
      BY <3>2, <3>3, <3>6 DEF Closes, AfterClose, Unclosed
    <3>7. CASE pc = "event"
      BY <3>2, <3>3, <3>7 DEF Closes, AfterClose, Unclosed
    <3>8. QED BY <2>1, <3>4, <3>5, <3>6, <3>7
  <2>5. WinBackInv' BY <2>1, <2>2, <2>4
  <2>6. QED BY <2>2, <2>3, <2>5
<1>12. CASE WinCleanFree BY <1>12 DEF WinCleanFree, Unclosed
<1>13. QED
  BY <1>1, <1>2, <1>3, <1>4, <1>5, <1>6, <1>7, <1>8, <1>9, <1>10, <1>11,
     <1>12 DEF WinCalls

LEMMA WinInvThread ==
    ASSUME TypeInv, WinInv, NEW t \in Thread, WinThread(t)
    PROVE  WinInv'
<1> config = "win" BY WinThreadOn
<1> USE DEF WinGoto, WinFatal
<1>1. /\ UNCHANGED <<config, call, pc, memory, failed>>
      /\ \/ held' = held
         \/ held' = held \cup {"thread_dinput"}
         \/ held' = held \cup OfDevices
      /\ thread[t] # "none"
  BY DEF WinThread, WinEnter, WinUpdate, WinCheck, WinRefresh, WinSwap, WinPoll
<1>2. call \notin {"none", "init"}
  BY <1>1 DEF WinInv, WinReadyInv
<1>3. WinReadyInv' BY <1>1, <1>2 DEF WinInv, WinReadyInv
<1>4. WinBackInv'
  BY <1>1 DEF WinInv, WinBackInv, Handles, Mutexes, Unclosed, OfDevices
<1>5. QED BY <1>3, <1>4 DEF WinInv

LEMMA WinInvStep == TypeInv /\ WinInv /\ [Next]_allVars => WinInv'
<1> SUFFICES ASSUME TypeInv, WinInv, [Next]_allVars, config' = "win"
             PROVE  WinInv'
  BY DEF WinInv
<1>0. config = "win"
  BY ApplicationOn, EvdevCallsOn, EvdevThreadOn, WinCallsOn, WinThreadOn
  DEF Next
<1>1. CASE Application /\ UNCHANGED <<evdev, author, lists>>
  BY <1>0, <1>1, WinInvApplication
<1>2. CASE WinCalls BY <1>2, WinInvCalls
<1>3. ASSUME NEW t \in Thread, WinThread(t) PROVE WinInv'
  BY <1>3, WinInvThread
<1>4. CASE UNCHANGED allVars
  BY <1>4 DEF WinInv, WinReadyInv, WinBackInv, Unclosed
<1>5. QED
  BY <1>0, <1>1, <1>2, <1>3, <1>4, EvdevCallsOn, EvdevThreadOn DEF Next

\* However often the library is started, a life in which no call fails, or is
\* taken for failed, leaves the two epoll descriptors with evdev and nothing
\* else.  With Windows it has closed the handles and freed the backend, and that
\* is all that is sure: the threads, their lists, the strings and the objects of
\* DirectInput may be left (evdev_epoll.c:270 to 375, win.c:310 to 366).
THEOREM GivenBack == Spec => []GivesBack
<1>1. TypeInv /\ FreedInv /\ EvdevBackInv /\ WinInv => GivesBack
  <2> SUFFICES ASSUME TypeInv, FreedInv, EvdevBackInv, WinInv,
                      context = "freed", failed = {}
               PROVE  Left \subseteq Leaked
    BY DEF GivesBack
  <2>1. CASE config = "evdev"
    <3>1. call = "clean" /\ held \subseteq Leaked /\ backend = "freed"
      BY <2>1 DEF EvdevBackInv
    <3>2. Live = {} BY <2>1, <3>1 DEF FreedInv, LiveInv, Live
    <3>3. refs = "empty" /\ regs = "empty"
      BY <2>1 DEF TypeInv, TypeOK, EvdevTypeOK
    <3>4. QED BY <3>1, <3>2, <3>3 DEF Left
  <2>2. CASE config = "win"
    <3>1. held \cap Handles = {} /\ backend = "freed"
      BY <2>2 DEF WinInv, WinReadyInv, WinBackInv, Unclosed
    <3>2. {"thread_device", "thread_input"} \cap held = {}
      BY <2>2 DEF WinInv, WinReadyInv, WinBackInv
    <3>3. held \subseteq WinResources
      BY <2>2 DEF TypeInv, TypeOK, WinTypeOK
    <3>4. held \subseteq {"dinput", "thread_dinput", "objects", "strings"}
      BY <3>1, <3>2, <3>3 DEF Handles, Mutexes, WinResources
    <3>5. QED BY <2>2, <3>1, <3>4 DEF Left, Leaked
  <2>3. QED BY <2>1, <2>2, LifecycleAssumption DEF TypeInv, TypeOK
<1>2. QED
  BY TypeInit, TypeStep, FreedInit, FreedStep, EvdevBackInit, EvdevBackStep,
     WinInvInit, WinInvStep, <1>1, PTL DEF Spec
=============================================================================
