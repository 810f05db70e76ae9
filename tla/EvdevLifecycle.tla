--------------------------- MODULE EvdevLifecycle ---------------------------
(***************************************************************************)
(* The evdev backend's part of Lifecycle: what init makes one by one, the  *)
(* two threads that start creates, the flag and the joins of stop, and     *)
(* what clean gives back.  Each thread has an error record of its own.     *)
(*                                                                         *)
(* Each call may fail at every step that the code checks.  The mutex checks *)
(* for errors: a thread that owns it is refused it, and the others wait.   *)
(***************************************************************************)
EXTENDS Lifecycle

VARIABLES
    owner,   \* who has left the mutex locked for good: one thread, or none
    heard    \* history: threads that have called the application back

evdev == <<owner, heard>>

EvdevOn == config = "evdev"

\* What init makes after the backend, in its order.
Made == <<"pending", "input_pipe", "input_epoll", "input_list", "device_pipe",
          "device_epoll", "mutex", "semaphore">>
Pipes == {"input_pipe", "device_pipe"}

\* A step that fails leaves what the earlier ones made.  Without memory for the
\* backend, backend_context stays null.
EvdevInit ==
    /\ EvdevOn
    /\ At("init", "begin")
    /\ \/ Return(TRUE) /\ UNCHANGED <<backend, held>>
       \/ \E n \in 0 .. Len(Made) :
            /\ backend' = "held"
            /\ held' = {Made[k] : k \in 1 .. n}
            /\ Return(n < Len(Made))
    /\ UNCHANGED <<config, context, closed, thread, starts, stray, evdev>>

\* Locked, the mutex may stay so: x cannot unlock it, or makes a request from a
\* callback that the device refuses.
Kept(x) == IF owner = {} THEN {{}, {x}} ELSE {owner}

-----------------------------------------------------------------------------
(* start                                                                   *)

\* Mutant: the flag is reset.
EvdevStartResets ==
    /\ EvdevOn
    /\ At("start", "begin")
    /\ closed' = FALSE
    /\ Continue("device")
    /\ held' = held \cup {"inotify"}
    /\ UNCHANGED <<config, memory, thread, starts, stray, evdev>>

\* devices_init gives back what it opened when it fails; the thread attributes
\* are prepared next, and their failure gives nothing back.
EvdevStart ==
    /\ EvdevOn
    /\ At("start", "begin")
    /\ \/ Return(TRUE) /\ (held' = held \/ held' = held \cup {"inotify"})
       \/ Continue("device") /\ held' = held \cup {"inotify"}
    /\ UNCHANGED <<config, memory, closed, thread, starts, stray, evdev>>

\* Create the thread of a loop, and go on to step l.
EvdevCreate(loop, l) ==
    /\ \/ Return(TRUE) /\ UNCHANGED thread
       \/ /\ thread' = [thread EXCEPT ![<<loop, starts>>] = "entered"]
          /\ Continue(l)
    /\ UNCHANGED <<config, memory, closed, held, starts, stray, evdev>>

EvdevCreateDevice == EvdevOn /\ At("start", "device") /\ EvdevCreate(Device, "input")
EvdevCreateInput == EvdevOn /\ At("start", "input") /\ EvdevCreate(Input, "list")

\* Destroy the attributes and list the devices.  Callbacks run on the thread of
\* the application: they may register devices, and what they return is ignored,
\* a request that was refused included.
EvdevList ==
    /\ EvdevOn
    /\ At("start", "list")
    /\ \E e \in BOOLEAN : Return(e)
    /\ held' = held \/ (owner = {} /\ held' = held \cup {"devices"})
    /\ owner' \in Kept(App)
    /\ UNCHANGED <<config, memory, closed, thread, starts, stray, heard>>

-----------------------------------------------------------------------------
(* callback_devices and callback_inputs                                    *)

\* The lists are freed before the backend is, and the backend before the
\* context, so a thread is on the safe side while the lists are there.
Use(t) ==
    IF "input_list" \in held THEN UNCHANGED stray ELSE Stray(t[1], "backend")

Become(t, l) == thread' = [thread EXCEPT ![t] = l]

\* Read the flag under the mutex before the first turn.
EvdevEnter(t) ==
    /\ EvdevOn
    /\ thread[t] = "entered"
    /\ owner = {}
    /\ Use(t)
    /\ \/ Become(t, IF closed THEN "ended" ELSE "looping") /\ UNCHANGED owner
       \/ Become(t, "ended") /\ owner' \in Kept(t)
    /\ UNCHANGED <<config, call, pc, memory, error, closed, held, starts,
                   failed, heard>>

\* A turn of the loop calls the application back, which may register a device.
EvdevTurn(t) ==
    /\ EvdevOn
    /\ thread[t] = "looping"
    /\ Use(t)
    /\ heard' = heard \cup {t}
    /\ \/ UNCHANGED held
       \/ backend = "held" /\ owner = {} /\ held' = held \cup {"devices"}
    /\ owner' \in Kept(t)
    /\ UNCHANGED <<config, call, pc, memory, error, closed, thread, starts,
                   failed>>

\* A failed call ends the thread, as does being refused the mutex; after a
\* callback of a re-enumeration that failed, the mutex stays locked.
EvdevFail(t) ==
    /\ EvdevOn
    /\ thread[t] = "looping"
    /\ Use(t)
    /\ Become(t, "ended")
    /\ owner' \in Kept(t)
    /\ UNCHANGED <<config, call, pc, memory, error, closed, held, starts,
                   failed, heard>>

\* The byte in the pipe has the thread read the flag.
EvdevEnd(t) ==
    /\ EvdevOn
    /\ thread[t] = "looping"
    /\ owner = {}
    /\ closed
    /\ Use(t)
    /\ Become(t, "ended")
    /\ UNCHANGED <<config, call, pc, memory, error, closed, held, starts,
                   failed, evdev>>

-----------------------------------------------------------------------------
(* stop                                                                    *)

\* Set the flag under the mutex.  When the application's own thread has left it
\* locked stop is refused it, and returns without a word to the threads.
EvdevStop ==
    /\ EvdevOn
    /\ At("stop", "begin")
    /\ owner \in {{}, {App}}
    /\ \/ Return(TRUE) /\ UNCHANGED <<closed, owner>>
       \/ /\ owner = {}
          /\ closed' = TRUE
          /\ \/ Continue("join") /\ UNCHANGED owner
             \/ Return(TRUE) /\ owner' = {App}
    /\ UNCHANGED <<config, memory, held, thread, starts, stray, heard>>

\* Mutant: nobody waits.
EvdevJoinNot(loop, l) ==
    /\ Continue(l)
    /\ UNCHANGED <<config, memory, closed, held, thread, starts, stray, evdev>>

\* Wait for the end of a thread, and go on to step l.
EvdevJoin(loop, l) ==
    /\ \/ Return(TRUE)
       \/ thread[<<loop, starts>>] = "ended" /\ Continue(l)
    /\ UNCHANGED <<config, memory, closed, held, thread, starts, stray, evdev>>

EvdevJoinInput == EvdevOn /\ At("stop", "join") /\ EvdevJoin(Input, "join_device")

\* Mutant: the input thread is joined twice.
EvdevJoinInputTwice ==
    EvdevOn /\ At("stop", "join_device") /\ EvdevJoin(Input, "watch")

EvdevJoinDevice ==
    EvdevOn /\ At("stop", "join_device") /\ EvdevJoin(Device, "watch")

\* Mutant: the watch is removed, and its descriptor is left open.
EvdevUnwatchLeaks ==
    /\ EvdevOn
    /\ At("stop", "watch")
    /\ Return(FALSE)
    /\ UNCHANGED <<config, memory, closed, held, thread, starts, stray, evdev>>

\* Both threads have ended: close inotify, unless the watch cannot be removed.
EvdevUnwatch ==
    /\ EvdevOn
    /\ At("stop", "watch")
    /\ \/ held' = held \ {"inotify"} /\ Return(FALSE)
       \/ held' = held /\ Return(TRUE)
    /\ UNCHANGED <<config, memory, closed, thread, starts, stray, evdev>>

-----------------------------------------------------------------------------
(* clean                                                                   *)

\* backend_context is null: the process ends there.
EvdevCleanNull ==
    /\ EvdevOn
    /\ At("clean", "begin")
    /\ backend = "none"
    /\ Stray(App, "null")
    /\ Goto("done")
    /\ UNCHANGED <<config, memory, error, closed, held, thread, starts, failed,
                   evdev>>

\* What is not made is zero: clean closes descriptor 0 for a missing pipe.
EvdevCleanPipes ==
    /\ EvdevOn
    /\ At("clean", "begin")
    /\ backend # "none"
    /\ IF Pipes \subseteq held THEN UNCHANGED stray ELSE Stray(App, "zero")
    /\ held' = held \ Pipes
    /\ Goto("lists")
    /\ UNCHANGED <<config, memory, error, closed, thread, starts, failed,
                   evdev>>

\* Free the nodes, and close their files: one that fails ends the call.
EvdevCleanLists ==
    /\ EvdevOn
    /\ At("clean", "lists")
    /\ \/ /\ "devices" \in held
          /\ held' = held \ {"input_list"}
          /\ Return(TRUE)
       \/ /\ held' = held \ {"input_list", "devices", "pending"}
          /\ Continue("mutex")
    /\ UNCHANGED <<config, memory, closed, thread, starts, stray, evdev>>

\* A mutex in use cannot be destroyed; the backend is left then.
EvdevCleanMutex ==
    /\ EvdevOn
    /\ At("clean", "mutex")
    /\ \/ Return(TRUE) /\ UNCHANGED <<held, backend>>
       \/ /\ owner = {}
          /\ held' = held \ {"mutex", "semaphore"}
          /\ backend' = "freed"
          /\ Return(FALSE)
    /\ UNCHANGED <<config, context, closed, thread, starts, stray, evdev>>

EvdevThread(t) == EvdevEnter(t) \/ EvdevTurn(t) \/ EvdevFail(t) \/ EvdevEnd(t)

EvdevCalls ==
    \/ EvdevInit \/ EvdevStart \/ EvdevCreateDevice \/ EvdevCreateInput
    \/ EvdevList \/ EvdevStop \/ EvdevJoinInput \/ EvdevJoinDevice
    \/ EvdevUnwatch \/ EvdevCleanNull \/ EvdevCleanPipes \/ EvdevCleanLists
    \/ EvdevCleanMutex
=============================================================================
