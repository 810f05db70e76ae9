----------------------------- MODULE EvdevCalls -----------------------------
(***************************************************************************)
(* The calls of the evdev backend and its one mutex.                       *)
(*                                                                         *)
(* Every call but reenumerate locks mutex_main, looks the device up, works *)
(* and unlocks.  Calls come from application threads, from the inputs      *)
(* callback, and from the device callback, which the device thread runs    *)
(* without the mutex when a device comes or goes, and with it when it      *)
(* re-enumerates.  The mutex is error-checking: a thread that locks it     *)
(* again gets an error instead of waiting for itself.  A haptics request   *)
(* that the kernel refuses returns without unlocking.                      *)
(*                                                                         *)
(* A call is one step once it has the mutex, since nothing it reads can    *)
(* change before it is over; what others see is whether it unlocks.  How   *)
(* devices are found is EvdevHotplug's subject, how their nodes are freed  *)
(* EvdevRemoval's.                                                         *)
(***************************************************************************)
EXTENDS Naturals, Sequences

CONSTANTS
    App,           \* threads of the application
    DeviceThread,  \* runs callback_devices
    InputThread,   \* runs callback_inputs
    NoThread,      \* "the mutex is free"
    Device,        \* ids the library hands out
    Slots,         \* effects a device can store
    Ops,           \* calls the application makes
    MaxCalls       \* bound on the calls

Thread == App \cup {DeviceThread, InputThread}

Requests == {"query", "effect_set", "effect_del", "write"}
AllOps == {"register_add", "register_del"} \cup Requests

ASSUME CallsAssumption ==
    /\ DeviceThread # InputThread
    /\ {DeviceThread, InputThread} \cap App = {}
    /\ NoThread \notin Thread
    /\ Device # {}
    /\ Slots \in Nat
    /\ MaxCalls \in Nat
    /\ Ops \subseteq AllOps \cup {"reenumerate"}

VARIABLES
    mutex,        \* owner of mutex_main
    plugged,      \* devices that are there
    queue,        \* inotify events
    listed,       \* devices_plugged
    registered,   \* nodes on input_loop_fds
    effects,      \* effects each device stores
    relist,       \* a request to re-enumerate is in the device thread's pipe
    removal,      \* a byte is in the input thread's pipe
    place,        \* where each thread is, outside of its calls
    call,         \* the call each thread is in
    answer,       \* how the last call of each thread ended
    subject,      \* device the device thread is taking off the list
    todo,         \* devices the re-enumeration has still to report
    told,         \* history: ids the application has been given
    refused,      \* history: threads with a request the kernel refused
    calls         \* calls made so far

kernel == <<plugged, queue>>
registry == <<listed, registered, effects>>
pipes == <<relist, removal>>
loop == <<subject, todo, told>>
vars == <<mutex, kernel, registry, pipes, place, call, answer, loop, refused,
          calls>>

NoId == CHOOSE d \in Device : TRUE
NoCall == [op |-> "none", id |-> NoId]

\* Places where the application's code runs, and may call the library.
Calling == {"app", "report", "relist", "callback"}

Place == Calling \cup {"wait", "unlist", "relisting", "ended"}

Init ==
    /\ mutex = NoThread
    /\ plugged = {}
    /\ queue = <<>>
    /\ listed = {}
    /\ registered = {}
    /\ effects = [d \in Device |-> 0]
    /\ relist = FALSE
    /\ removal = FALSE
    /\ place = [t \in Thread |-> IF t \in App THEN "app" ELSE "wait"]
    /\ call = [t \in Thread |-> NoCall]
    /\ answer = [t \in Thread |-> "none"]
    /\ subject = NoId
    /\ todo = {}
    /\ told = {}
    /\ refused = {}
    /\ calls = 0

-----------------------------------------------------------------------------
(* The mutex                                                               *)

\* Mutant: the mutex is recursive.
LockedRecursive(t) == mutex \in {NoThread, t}

\* pthread_mutex_lock returns 0.
Locked(t) == mutex = NoThread

\* It returns EDEADLK.
LockFails(t) == mutex = t /\ ~Locked(t)

-----------------------------------------------------------------------------
(* Calls                                                                   *)

Call(t, op, d) ==
    /\ place[t] \in Calling
    /\ call[t] = NoCall
    /\ calls < MaxCalls
    /\ d \in told
    /\ call' = [call EXCEPT ![t] = [op |-> op, id |-> d]]
    /\ calls' = calls + 1
    /\ UNCHANGED <<mutex, kernel, registry, pipes, place, answer, loop,
                   refused>>

\* The one call without the mutex: a byte to the device thread.
Reenumerate(t) ==
    /\ place[t] \in Calling
    /\ call[t] = NoCall
    /\ calls < MaxCalls
    /\ relist' = TRUE
    /\ calls' = calls + 1
    /\ answer' = [answer EXCEPT ![t] = "ok"]
    /\ UNCHANGED <<mutex, kernel, registry, removal, place, call, loop,
                   refused>>

Return(t, outcome) ==
    /\ call' = [call EXCEPT ![t] = NoCall]
    /\ answer' = [answer EXCEPT ![t] = outcome]
    /\ UNCHANGED <<kernel, listed, relist, place, loop, calls>>

\* The mutex is the thread's already: nothing is done.
Deadlk(t) ==
    /\ call[t] # NoCall
    /\ LockFails(t)
    /\ Return(t, "lock")
    /\ UNCHANGED <<mutex, registered, effects, removal, refused>>

\* The device must be listed and not registered, and its file must open.
RegisterAdd(t) ==
    /\ call[t].op = "register_add"
    /\ Locked(t)
    /\ LET d == call[t].id
           fails == d \notin listed \ registered \/ d \notin plugged
       IN
       /\ Return(t, IF fails THEN "error" ELSE "ok")
       /\ registered' = IF fails THEN registered ELSE registered \cup {d}
       /\ effects' = [effects EXCEPT ![d] = IF fails THEN @ ELSE 0]
    /\ UNCHANGED <<mutex, removal, refused>>

\* Mutant: an unknown device is an error like those of requests.
RegisterDelLeaves(t) ==
    /\ call[t].op = "register_del"
    /\ Locked(t)
    /\ LET d == call[t].id IN
       /\ Return(t, IF d \in registered THEN "ok" ELSE "error")
       /\ mutex' = IF d \in registered THEN mutex ELSE t
       /\ registered' = registered \ {d}
       /\ removal' = (removal \/ d \in registered)
    /\ UNCHANGED <<effects, refused>>

\* The input thread is told, to start the removal of the node.
RegisterDel(t) ==
    /\ call[t].op = "register_del"
    /\ Locked(t)
    /\ LET d == call[t].id IN
       /\ Return(t, IF d \in registered THEN "ok" ELSE "error")
       /\ registered' = registered \ {d}
       /\ removal' = (removal \/ d \in registered)
    /\ UNCHANGED <<mutex, effects, refused>>

\* What the kernel may answer to an ioctl or a write: ENODEV to all once the
\* device has gone, ENOSPC when no slot is free, EINVAL for an empty slot.
Grants(op, d) ==
    /\ d \in plugged
    /\ op = "effect_set" => effects[d] < Slots
    /\ op = "effect_del" => effects[d] > 0

Refuses(op, d) ==
    \/ d \notin plugged
    \/ op = "effect_set" /\ effects[d] = Slots
    \/ op = "effect_del"

\* effect_set always asks for a new slot (id -1).
Stored(op, n) ==
    CASE op = "effect_set" -> n + 1
      [] op = "effect_del" -> n - 1
      [] OTHER -> n

RequestUnknown(t) ==
    /\ call[t].op \in Requests
    /\ Locked(t)
    /\ call[t].id \notin registered
    /\ Return(t, "error")
    /\ UNCHANGED <<mutex, registered, effects, removal, refused>>

\* Mutant: the mutex is kept in all cases.
RequestDoneKept(t) ==
    /\ call[t].op \in Requests
    /\ Locked(t)
    /\ LET d == call[t].id IN
       /\ d \in registered
       /\ Grants(call[t].op, d)
       /\ effects' = [effects EXCEPT ![d] = Stored(call[t].op, @)]
    /\ mutex' = t
    /\ Return(t, "ok")
    /\ UNCHANGED <<registered, removal, refused>>

RequestDone(t) ==
    /\ call[t].op \in Requests
    /\ Locked(t)
    /\ LET d == call[t].id IN
       /\ d \in registered
       /\ Grants(call[t].op, d)
       /\ effects' = [effects EXCEPT ![d] = Stored(call[t].op, @)]
    /\ Return(t, "ok")
    /\ UNCHANGED <<mutex, registered, removal, refused>>

\* The error return has no unlock.
RequestRefused(t) ==
    /\ call[t].op \in Requests
    /\ Locked(t)
    /\ call[t].id \in registered
    /\ Refuses(call[t].op, call[t].id)
    /\ mutex' = t
    /\ refused' = refused \cup {t}
    /\ Return(t, "error")
    /\ UNCHANGED <<registered, effects, removal>>

-----------------------------------------------------------------------------
(* The device thread                                                       *)

At(t, l) == place[t] = l /\ call[t] = NoCall

Goto(t, l) == place' = [place EXCEPT ![t] = l]

\* Enter a callback of the application.
Report(t, l) ==
    /\ Goto(t, l)
    /\ answer' = [answer EXCEPT ![t] = "none"]

Keeps == UNCHANGED <<plugged, registered, effects, removal, call, refused,
                     calls>>

\* Every section of the loop that locks ends the thread when that fails.
DeviceLockFails ==
    /\ \/ At(DeviceThread, "wait") /\ (queue # <<>> \/ relist)
       \/ At(DeviceThread, "unlist")
    /\ LockFails(DeviceThread)
    /\ Goto(DeviceThread, "ended")
    /\ UNCHANGED <<mutex, queue, listed, relist, answer, loop>>
    /\ Keeps

\* A new device is listed and reported, if its file still opens.
HandleCreate ==
    /\ At(DeviceThread, "wait")
    /\ queue # <<>>
    /\ Head(queue).mask = "create"
    /\ Locked(DeviceThread)
    /\ queue' = Tail(queue)
    /\ LET d == Head(queue).id IN
       IF d \in plugged
         THEN /\ listed' = listed \cup {d}
              /\ told' = told \cup {d}
              /\ Report(DeviceThread, "report")
         ELSE UNCHANGED <<listed, told, place, answer>>
    /\ UNCHANGED <<mutex, relist, subject, todo>>
    /\ Keeps

\* Mutant: a device that is not registered is not skipped.
HandleDeleteNull ==
    /\ At(DeviceThread, "wait")
    /\ queue # <<>>
    /\ Head(queue).mask = "delete"
    /\ Locked(DeviceThread)
    /\ queue' = Tail(queue)
    /\ Goto(DeviceThread, "unlist")
    /\ subject' = IF Head(queue).id \in registered THEN Head(queue).id
                  ELSE NoThread
    /\ UNCHANGED <<mutex, listed, relist, answer, todo, told>>
    /\ Keeps

\* Only a registered device is looked for.
HandleDelete ==
    /\ At(DeviceThread, "wait")
    /\ queue # <<>>
    /\ Head(queue).mask = "delete"
    /\ Locked(DeviceThread)
    /\ queue' = Tail(queue)
    /\ IF Head(queue).id \in registered
         THEN Goto(DeviceThread, "unlist") /\ subject' = Head(queue).id
         ELSE UNCHANGED <<place, subject>>
    /\ UNCHANGED <<mutex, listed, relist, answer, todo, told>>
    /\ Keeps

\* In the second section under the mutex the device leaves the list.
Unlist ==
    /\ At(DeviceThread, "unlist")
    /\ Locked(DeviceThread)
    /\ listed' = listed \ {subject}
    /\ Report(DeviceThread, "report")
    /\ UNCHANGED <<mutex, queue, relist, loop>>
    /\ Keeps

RelistBegin ==
    /\ At(DeviceThread, "wait")
    /\ relist
    /\ Locked(DeviceThread)
    /\ relist' = FALSE
    /\ mutex' = DeviceThread
    /\ todo' = listed
    /\ Goto(DeviceThread, "relisting")
    /\ UNCHANGED <<queue, listed, answer, subject, told>>
    /\ Keeps

RelistReport ==
    /\ At(DeviceThread, "relisting")
    /\ \E d \in todo : todo' = todo \ {d}
    /\ Report(DeviceThread, "relist")
    /\ UNCHANGED <<mutex, queue, listed, relist, subject, told>>
    /\ Keeps

\* Mutant: the mutex stays locked after the loop.
RelistEndKept ==
    /\ At(DeviceThread, "relisting")
    /\ todo = {}
    /\ Goto(DeviceThread, "wait")
    /\ UNCHANGED <<mutex, queue, listed, relist, answer, loop>>
    /\ Keeps

RelistEnd ==
    /\ At(DeviceThread, "relisting")
    /\ todo = {}
    /\ mutex' = NoThread
    /\ Goto(DeviceThread, "wait")
    /\ UNCHANGED <<queue, listed, relist, answer, loop>>
    /\ Keeps

\* A callback returns.  It shares its error record with the calls it made, so
\* it may pass the failure of one on, which ends the thread.
CallbackReturns(t, from, to) ==
    /\ At(t, from)
    /\ \/ Goto(t, to)
       \/ answer[t] \in {"error", "lock"} /\ Goto(t, "ended")
    /\ UNCHANGED <<mutex, queue, listed, relist, answer, loop>>
    /\ Keeps

-----------------------------------------------------------------------------
(* The input thread                                                        *)

InputCallback ==
    /\ At(InputThread, "wait")
    /\ registered \cap plugged # {}
    /\ Report(InputThread, "callback")
    /\ UNCHANGED <<mutex, queue, listed, relist, loop>>
    /\ Keeps

\* A byte: lock, read closed, unlock.
InputPing ==
    /\ At(InputThread, "wait")
    /\ removal
    /\ Locked(InputThread) \/ LockFails(InputThread)
    /\ removal' = FALSE
    /\ Goto(InputThread,
            IF LockFails(InputThread) THEN "ended" ELSE "wait")
    /\ UNCHANGED <<mutex, kernel, registry, relist, call, answer, loop,
                   refused, calls>>

-----------------------------------------------------------------------------
(* The kernel: a device comes once, under an id of its own, and goes       *)

Plug(d) ==
    /\ d \notin plugged
    /\ d \notin told
    /\ \A i \in DOMAIN queue : queue[i].id # d
    /\ plugged' = plugged \cup {d}
    /\ queue' = Append(queue, [mask |-> "create", id |-> d])
    /\ UNCHANGED <<mutex, registry, pipes, place, call, answer, loop, refused,
                   calls>>

Unplug(d) ==
    /\ d \in plugged
    /\ plugged' = plugged \ {d}
    /\ queue' = Append(queue, [mask |-> "delete", id |-> d])
    /\ UNCHANGED <<mutex, registry, pipes, place, call, answer, loop, refused,
                   calls>>

-----------------------------------------------------------------------------
Calls(t) ==
    \/ \E op \in Ops \cap AllOps, d \in Device : Call(t, op, d)
    \/ "reenumerate" \in Ops /\ Reenumerate(t)

Answer(t) ==
    \/ Deadlk(t)
    \/ RegisterAdd(t) \/ RegisterDel(t)
    \/ RequestUnknown(t) \/ RequestDone(t) \/ RequestRefused(t)

DeviceLoop ==
    \/ DeviceLockFails
    \/ HandleCreate \/ HandleDelete \/ Unlist
    \/ RelistBegin \/ RelistReport \/ RelistEnd
    \/ CallbackReturns(DeviceThread, "report", "wait")
    \/ CallbackReturns(DeviceThread, "relist", "relisting")

InputLoop ==
    \/ InputCallback \/ InputPing
    \/ CallbackReturns(InputThread, "callback", "wait")

Next ==
    \/ \E t \in Thread : Calls(t) \/ Answer(t)
    \/ DeviceLoop
    \/ InputLoop
    \/ \E d \in Device : Plug(d) \/ Unplug(d)

Spec == Init /\ [][Next]_vars

\* A thread that can go on does.  Whoever waits for the mutex gets it in the
\* end, because the calls are finitely many.
Fairness ==
    /\ \A t \in Thread : WF_vars(Answer(t))
    /\ WF_vars(DeviceLoop)
    /\ WF_vars(InputLoop)

FairSpec == Spec /\ Fairness

-----------------------------------------------------------------------------
(* Properties                                                              *)

TypeOK ==
    /\ mutex \in Thread \cup {NoThread}
    /\ plugged \subseteq Device
    /\ queue \in Seq([mask : {"create", "delete"}, id : Device])
    /\ listed \subseteq Device
    /\ registered \subseteq Device
    /\ effects \in [Device -> 0 .. Slots]
    /\ relist \in BOOLEAN
    /\ removal \in BOOLEAN
    /\ place \in [Thread -> Place]
    /\ call \in [Thread -> [op : AllOps \cup {"none"}, id : Device]]
    /\ answer \in [Thread -> {"none", "ok", "error", "lock"}]
    /\ subject \in Device
    /\ todo \subseteq Device
    /\ told \subseteq Device
    /\ refused \subseteq Thread
    /\ calls \in 0 .. MaxCalls

\* The device thread ended inside a re-enumeration.
Abandoned == mutex = DeviceThread /\ place[DeviceThread] = "ended"

Relisting == place[DeviceThread] \in {"relisting", "relist"}

\* Between calls the mutex belongs to nobody, but for a re-enumeration, one
\* that was cut short, and requests the kernel refused.
LockedForAReason ==
    \A t \in Thread :
      mutex = t => \/ t \in refused
                   \/ t = DeviceThread /\ (Relisting \/ Abandoned)

\* A re-enumeration has the mutex from its first callback to its last.
RelistOwns == Relisting => mutex = DeviceThread

\* While devices_plugged is walked through, callbacks included, no call of any
\* thread registers a device or unregisters one.
RelistFrozen ==
    [][Relisting /\ Relisting' => UNCHANGED registry]_vars

\* Calls return, unless a request was refused or a re-enumeration failed.
CallsReturn ==
    \/ <>(refused # {} \/ Abandoned)
    \/ \A t \in Thread : call[t] # NoCall ~> call[t] = NoCall

\* An unplugged device leaves the list, unless it is not registered, or the
\* device thread was stopped by a lost mutex or by a callback's failure.
UnplugHandled ==
    \/ <>(refused # {} \/ place[DeviceThread] = "ended")
    \/ \A d \in Device :
         d \in (listed \cap registered) \ plugged
           ~> d \notin listed \cap registered

\* A device can always be unregistered (punknobs.h:413): the call returns.
UnregisteringReturns ==
    \A t \in Thread : call[t].op = "register_del" ~> call[t] = NoCall
=============================================================================
