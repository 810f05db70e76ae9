---------------------------- MODULE WinLifecycle ----------------------------
(***************************************************************************)
(* The Windows backend's part of Lifecycle.  Its two threads are given the *)
(* error record that the application passed to start, so that three        *)
(* threads write to one record, and nothing ever sets the flag that would  *)
(* end them: stop closes their handles, and frees the lists they use.      *)
(*                                                                         *)
(* Each call may fail at every step that the code checks.                  *)
(***************************************************************************)
EXTENDS Lifecycle

VARIABLES
    author,   \* history: who left the error in the record
    refs,     \* the list of devices: "empty", "linked" or "dangling"
    regs,     \* the list of registered devices, likewise
    leads     \* freed nodes that linked ones lead to: "entry" for a device in
              \* the list of a registered one, "reg" the other way round

lists == <<refs, regs, leads>>
winVars == <<vars, author, lists>>

WinOn == config = "win"

Mutexes == {"main", "enum", "reg"}

\* Whoever runs the code writes to the record of the application.
WinThrow(who, e) == error' = e /\ author' = IF e THEN who ELSE App

WinReturn(e) == WinThrow(App, e) /\ Returned(e)

WinContinue(l) == Continue(l) /\ UNCHANGED author

\* Thread t uses the backend, the context and some lists.
WinUse(t, what) ==
    stray' = stray
      \cup (IF backend = "freed" \/ context = "freed"
              THEN {<<t[1], "backend">>} ELSE {})
      \cup {<<t[1], l>> : l \in what}

\* What the code allocates for a device that is listed.
OfDevices == {"strings", "objects"}

Dangling(name, l) == IF l = "dangling" THEN {name} ELSE {}

\* A failure frees the backend, which backend_context goes on pointing to, and
\* closes the mutexes, but not the event.
WinInit ==
    /\ WinOn
    /\ At("init", "begin")
    /\ \/ WinReturn(TRUE) /\ UNCHANGED <<backend, held>>
       \/ /\ backend' = "freed"
          /\ held' \in {{}, {"event"}}
          /\ WinReturn(TRUE)
       \/ /\ backend' = "held"
          /\ held' = Mutexes \cup {"event", "dinput"}
          /\ WinReturn(FALSE)
    /\ UNCHANGED <<config, context, closed, thread, starts, stray, lists>>

-----------------------------------------------------------------------------
(* start and stop                                                          *)

WinCreate(loop, handle, l) ==
    /\ \/ WinReturn(TRUE) /\ UNCHANGED <<thread, held>>
       \/ /\ thread' = [thread EXCEPT ![<<loop, starts>>] = "entered"]
          /\ held' = held \cup {handle}
          /\ WinContinue(l)
    /\ UNCHANGED <<config, memory, closed, starts, stray, lists>>

\* Mutant: the table has the function of the wrong backend.
WinStartAnyway ==
    At("start", "begin") /\ WinCreate(Device, "thread_device", "input")

WinStart ==
    WinOn /\ At("start", "begin") /\ WinCreate(Device, "thread_device", "input")

WinStartInput ==
    WinOn /\ At("start", "input") /\ WinCreate(Input, "thread_input", "started")

WinStarted ==
    /\ WinOn
    /\ At("start", "started")
    /\ WinReturn(FALSE)
    /\ UNCHANGED <<config, memory, closed, held, thread, starts, stray, lists>>

\* Close the handle of a thread, which goes on, and go on to step l.
WinClose(handle, l) ==
    /\ \/ WinReturn(TRUE) /\ UNCHANGED held
       \/ handle \in held /\ held' = held \ {handle} /\ WinContinue(l)
    /\ UNCHANGED <<config, memory, closed, thread, starts, stray, lists>>

WinStop == WinOn /\ At("stop", "begin") /\ WinClose("thread_device", "input")
WinStopInput == WinOn /\ At("stop", "input") /\ WinClose("thread_input", "refs")

\* A node freed again counts as a use of it.
Free(name, l) ==
    IF l = "dangling" THEN Stray(App, name) ELSE UNCHANGED stray

Freed(l) == IF l = "empty" THEN l ELSE "dangling"

\* Registered nodes may lead to nodes of the list that is freed.
LeadAstray ==
    \/ UNCHANGED leads
    \/ <<refs, regs>> = <<"linked", "linked">> /\ leads' = leads \cup {"entry"}

\* Lock mutex_enum, free the list of devices, and unlock.
WinStopRefs ==
    /\ WinOn
    /\ At("stop", "refs")
    /\ \/ WinReturn(TRUE) /\ UNCHANGED <<refs, leads, stray>>
       \/ /\ Free("refs", refs)
          /\ refs' = Freed(refs)
          /\ LeadAstray
          /\ WinContinue("reg") \/ WinReturn(TRUE)
    /\ UNCHANGED <<config, memory, closed, held, thread, starts, regs>>

\* Free the registry under mutex_reg.
WinStopReg ==
    /\ WinOn
    /\ At("stop", "reg")
    /\ \/ WinReturn(TRUE) /\ UNCHANGED <<regs, leads, stray>>
       \/ /\ Free("regs", regs)
          /\ regs' = Freed(regs)
          /\ leads' = {}
          /\ WinContinue("stopped") \/ WinReturn(TRUE)
    /\ UNCHANGED <<config, memory, closed, held, thread, starts, refs>>

WinStopped ==
    /\ WinOn
    /\ At("stop", "stopped")
    /\ WinReturn(FALSE)
    /\ UNCHANGED <<config, memory, closed, held, thread, starts, stray, lists>>

-----------------------------------------------------------------------------
(* clean                                                                   *)

\* The handles in the order they are closed in, by where clean is.
Closes == [begin |-> "main", enum |-> "enum", reg |-> "reg", event |-> "event"]
AfterClose == [begin |-> "enum", enum |-> "reg", reg |-> "event", event |-> "free"]

\* backend_context is null: the process ends there.
WinCleanNull ==
    /\ WinOn
    /\ At("clean", "begin")
    /\ backend = "none"
    /\ Stray(App, "null")
    /\ Goto("done")
    /\ UNCHANGED <<config, memory, error, closed, held, thread, starts, failed,
                   author, lists>>

UseOfApp ==
    IF backend = "freed" THEN Stray(App, "backend") ELSE UNCHANGED stray

\* A handle that is not open cannot be closed, which ends the call.
WinCleanHandle ==
    /\ WinOn
    /\ call = "clean"
    /\ pc \in DOMAIN Closes
    /\ backend # "none"
    /\ UseOfApp
    /\ \/ WinReturn(TRUE) /\ UNCHANGED held
       \/ /\ Closes[pc] \in held
          /\ held' = held \ {Closes[pc]}
          /\ WinContinue(AfterClose[pc])
    /\ UNCHANGED <<config, memory, closed, thread, starts, lists>>

WinCleanFree ==
    /\ WinOn
    /\ At("clean", "free")
    /\ backend' = "freed"
    /\ WinReturn(FALSE)
    /\ UNCHANGED <<config, context, closed, held, thread, starts, stray, lists>>

-----------------------------------------------------------------------------
(* device_loop and input_loop                                              *)

WinGoto(t, l) == thread' = [thread EXCEPT ![t] = l]

\* The thread throws an error of its own, and ends.
WinFatal(t) == WinThrow(t, TRUE) /\ WinGoto(t, "ended")

\* The device thread makes an instance of DirectInput for itself first.
WinEnter(t) ==
    /\ WinOn
    /\ thread[t] = "entered"
    /\ WinUse(t, {})
    /\ \/ t[1] = Device /\ WinFatal(t) /\ UNCHANGED held
       \/ /\ held' = held \cup (IF t[1] = Device THEN {"thread_dinput"} ELSE {})
          /\ WinGoto(t, "update")
          /\ UNCHANGED <<error, author>>
    /\ UNCHANGED <<config, call, pc, memory, closed, starts, failed,
                   lists>>

\* Mutant: an error found in the record is kept.
WinUpdateKeeps(t) ==
    /\ WinOn
    /\ thread[t] = "update"
    /\ WinUse(t, {})
    /\ WinGoto(t, "check")
    /\ IF "main" \in held THEN UNCHANGED <<error, author>> ELSE WinThrow(t, TRUE)
    /\ UNCHANGED <<config, call, pc, memory, closed, held, starts, failed,
                   lists>>

\* update_closed ends by resetting the record.
WinUpdate(t) ==
    /\ WinOn
    /\ thread[t] = "update"
    /\ WinUse(t, {})
    /\ WinGoto(t, "check")
    /\ WinThrow(t, "main" \notin held)
    /\ UNCHANGED <<config, call, pc, memory, closed, held, starts, failed,
                   lists>>

\* An error in the record ends the thread, whoever left it.
WinCheck(t) ==
    /\ WinOn
    /\ thread[t] = "check"
    /\ WinGoto(t, IF error \/ closed THEN "ended" ELSE "turn")
    /\ UNCHANGED <<config, call, pc, memory, error, closed, held, starts,
                   history, author, lists>>

\* register_add from a callback.
Register == regs # "dangling" /\ regs' = "linked" /\ UNCHANGED leads

\* register_del from a callback frees the registered node and clears the pointer
\* of one node of a device; one that took it over since the lists were compared
\* keeps it.
Unregister(t) ==
    /\ regs = "linked"
    /\ regs' \in {"empty", "linked"}
    /\ \E known \in SUBSET {"reg"} :
         /\ "reg" \in known =>
              /\ refs = "linked"
              /\ t[1] = Device \/ \E s \in Session : thread[<<Device, s>>] = "swap"
         /\ leads' = known \cup (IF regs' = "empty" THEN leads \ {"entry"}
                                 ELSE leads)

\* Callbacks leave their error in the record, as do nodes there is no memory
\* for; they may also register and unregister devices.
WinCallbacks(t) ==
    \/ UNCHANGED <<error, author, regs, leads>>
    \/ /\ \E e \in BOOLEAN : WinThrow(t, e)
       /\ UNCHANGED <<regs, leads>> \/ Register \/ Unregister(t)

\* Compare the devices listed now with refs, and report those that came and
\* went.
WinRefresh(t) ==
    /\ WinOn
    /\ thread[t] = "turn"
    /\ t[1] = Device
    /\ WinUse(t, Dangling("refs", refs))
    /\ \/ WinFatal(t) /\ UNCHANGED <<regs, leads>>
       \/ WinCallbacks(t) /\ WinGoto(t, "swap")
    /\ UNCHANGED <<config, call, pc, memory, closed, held, starts, failed, refs>>

\* Point the registry to the new nodes, make their list refs, and free the old
\* one, under both mutexes, which may not be given back.  Each device on it has
\* names and an object of DirectInput, which it may leave behind.  A registered
\* node of a device that is missing from the new list is not pointed anywhere
\* else.
WinSwap(t) ==
    /\ WinOn
    /\ thread[t] = "swap"
    /\ IF {"enum", "reg"} \subseteq held
         THEN /\ WinUse(t, Dangling("refs", refs) \cup Dangling("regs", regs)
                             \cup (leads \cap {"reg"}))
              /\ refs' \in {"empty", "linked"}
              /\ held' = held \cup (IF refs' = "linked" THEN OfDevices ELSE {})
              /\ LeadAstray
              /\ \/ WinGoto(t, "update") /\ UNCHANGED <<error, author>>
                 \/ WinFatal(t)
         ELSE WinUse(t, {}) /\ WinFatal(t) /\ UNCHANGED <<held, refs, leads>>
    /\ UNCHANGED <<config, call, pc, memory, closed, starts, failed, regs>>

\* Walk the registry under mutex_reg, ask each node's device whether it is
\* plugged, and report inputs.
WinPoll(t) ==
    /\ WinOn
    /\ thread[t] = "turn"
    /\ t[1] = Input
    /\ IF "reg" \in held
         THEN /\ WinUse(t, Dangling("regs", regs)
                             \cup (IF regs = "linked" THEN leads \cap {"entry"}
                                   ELSE {}))
              /\ \/ WinCallbacks(t) /\ WinGoto(t, "update")
                 \/ WinFatal(t) /\ UNCHANGED <<regs, leads>>
         ELSE WinUse(t, {}) /\ WinFatal(t) /\ UNCHANGED <<regs, leads>>
    /\ UNCHANGED <<config, call, pc, memory, closed, held, starts, failed, refs>>

WinThread(t) ==
    \/ WinEnter(t) \/ WinUpdate(t) \/ WinCheck(t) \/ WinRefresh(t)
    \/ WinSwap(t) \/ WinPoll(t)

WinCalls ==
    \/ WinInit \/ WinStart \/ WinStartInput \/ WinStarted \/ WinStop
    \/ WinStopInput \/ WinStopRefs \/ WinStopReg \/ WinStopped
    \/ WinCleanNull \/ WinCleanHandle \/ WinCleanFree
=============================================================================
