---------------------------- MODULE EvdevRemoval ----------------------------
(***************************************************************************)
(* The two-step removal of an input device in the evdev backend.           *)
(*                                                                         *)
(* punknobs_evdev_epoll_register_del may not free a device: the input      *)
(* thread may hold a pointer to it in the batch epoll_wait gave it.  It    *)
(* unlinks the node, pushes it on input_removed, posts remove_count and    *)
(* writes a byte to the input thread's pipe.  The input thread forwards    *)
(* the byte to the device thread, which decrements the counter and frees   *)
(* the whole list when it reaches zero.  The same two pipes also carry     *)
(* re-enumeration requests and the request to stop.                        *)
(*                                                                         *)
(* A step is one access to state that another thread reaches without the   *)
(* mutex: the epoll set, the pipes, the semaphore, the head of             *)
(* input_removed, and the nodes themselves.                                *)
(***************************************************************************)
EXTENDS Naturals, FiniteSets

CONSTANTS
    Node,          \* device ids: an id is the address of its evdev_epoll_info
    App,           \* threads of the application that call the library
    Caller,        \* threads that register and unregister devices
    DeviceThread,  \* runs callback_devices
    InputThread,   \* runs callback_inputs
    NoThread,      \* "the mutex is free"
    Pipe,          \* the self-pipe's slot in a batch of epoll events
    Spaced,        \* callers start a removal only when the last one is over
    Relists,       \* callers ask for re-enumerations
    EpollFails,    \* epoll_ctl may refuse to add a device
    Failures       \* callbacks and event reads may fail

Thread == App \cup {DeviceThread, InputThread}

ASSUME ThreadAssumption ==
    /\ DeviceThread \notin App
    /\ InputThread \notin App
    /\ DeviceThread # InputThread
    /\ NoThread \notin Thread
    /\ Caller \subseteq Thread

ASSUME PipeAssumption == Pipe \notin Node

ASSUME FlagAssumption ==
    /\ Spaced \in BOOLEAN
    /\ Relists \in BOOLEAN
    /\ EpollFails \in BOOLEAN
    /\ Failures \in BOOLEAN
    \* Overlapping removals of nodes that epoll_ctl refused are not modelled.
    /\ EpollFails => Spaced

VARIABLES
    mutex,          \* owner of mutex_main
    closed,         \* backend->closed
    inputs,         \* nodes that a walk of input_loop_fds reaches
    lost,           \* linked nodes that an unlocked removal cut off the list
    shut,           \* nodes whose file register_add closed again
    polled,         \* nodes in the set of input_loop_epollfd
    dead,           \* unplugged devices: reading one gives ENODEV
    input_removed,  \* nodes reachable from backend->input_removed
    remove_count,   \* the semaphore
    inputPipe,      \* is there a byte in the input thread's pipe
    queue,          \* epoll's ready list up to that pipe, {} if it is not on it
    devicePipe,     \* the last byte written to the device thread's pipe
    hidden,         \* history: a byte 1 went over an acknowledgement not read,
                    \* and none was read since
    pc,             \* where each thread is
    target,         \* node each caller is removing, Pipe when it removes none
    saved,          \* list each caller read as its node's next
    between,        \* nodes linked while a caller unlinks without the mutex
    batch,          \* epoll events the input thread has not handled yet
    cur,            \* node whose event the input thread is handling, or Pipe
    sync,           \* is that event handled from modal_sync
    seen,           \* the input thread's own copy of closed
    buf,            \* byte the device thread read
    freeing,        \* nodes the device thread's free loop has still to free
    retired,        \* history: nodes ever unlinked by register_del
    freed           \* history: nodes ever freed

lists == <<inputs, lost, shut, polled, input_removed, retired, freed>>
pipes == <<inputPipe, queue, devicePipe, hidden>>
locals == <<batch, cur, sync, seen, buf, freeing>>
callerLocals == <<target, saved, between>>
vars == <<mutex, closed, lists, dead, remove_count, pipes, pc, callerLocals,
          locals>>

\* A byte of the device thread's pipe: 0 continues a removal, 1 re-enumerates.
\* The purge keeps the last byte only, so the pipe is that byte or NoByte.
NoByte == 2
Byte == {0, 1}

\* Where a thread calls the library from: an application thread anywhere, the
\* other two from the callback they run.
Home(t) ==
    IF t = DeviceThread THEN "poll"
    ELSE IF t = InputThread THEN "callback"
    ELSE "idle"

RemovalPc == {"tail", "cut", "unlink", "push", "post", "signal"}

Place == RemovalPc \cup
    {"idle", "joinInput", "joinDevice", "stopped", "done", "failed",
     "wait", "batch", "closed", "forward", "callback", "sync",
     "poll", "trywait", "value", "collect", "free", "relist", "relisting"}

Removing(t) == pc[t] \in RemovalPc

\* The last removal is over: its node is freed and the list forgotten.
RemovalOver ==
    /\ retired \subseteq freed
    /\ pc[DeviceThread] # "free"
    /\ \A t \in Thread : ~Removing(t)

Goto(t, l) == pc' = [pc EXCEPT ![t] = l]

\* A thread that ended, on request or on an error, can be joined.
Ended(t) == pc[t] \in {"done", "failed"}

\* A byte for the input thread.  epoll keeps what is ready in a FIFO, puts it
\* back in order after every wait and drops what a wait finds no longer ready:
\* when the pipe joins it, the unplugged devices are before it, and any device
\* may be that has unread events.
WakeInput ==
    /\ inputPipe' = TRUE
    /\ IF Pipe \in queue
         THEN UNCHANGED queue
         ELSE \E S \in SUBSET polled :
                dead \cap polled \subseteq S /\ queue' = S \cup {Pipe}

\* A byte for the device thread.  The last one written counts.
WakeDevice(b) ==
    /\ devicePipe' = b
    /\ hidden' = IF b = 1 /\ devicePipe = 0 THEN TRUE ELSE hidden

Init ==
    /\ mutex = NoThread
    /\ closed = FALSE
    /\ inputs = {}
    /\ lost = {}
    /\ shut = {}
    /\ polled = {}
    /\ dead = {}
    /\ input_removed = {}
    /\ remove_count = 0
    /\ inputPipe = FALSE
    /\ queue = {}
    /\ devicePipe = NoByte
    /\ hidden = FALSE
    /\ pc = [t \in Thread |-> IF t = InputThread THEN "wait" ELSE Home(t)]
    /\ target = [t \in Thread |-> Pipe]
    /\ saved = [t \in Thread |-> {}]
    /\ between = [t \in Thread |-> {}]
    /\ batch = {}
    /\ cur = Pipe
    /\ sync = FALSE
    /\ seen = FALSE
    /\ buf = 0
    /\ freeing = {}
    /\ retired = {}
    /\ freed = {}

-----------------------------------------------------------------------------
(* Calls of the API                                                        *)

\* The node is linked after input_loop_last, before epoll_ctl, and stays linked
\* with its file and libevdev context closed when that fails.  Once a removal
\* cut input_loop_last off the list, what is linked after it is off the list.
RegisterAdd(t, n) ==
    /\ pc[t] = Home(t)
    /\ mutex = NoThread
    /\ n \notin inputs \cup lost \cup retired \cup dead
    /\ IF lost = {}
         THEN /\ inputs' = inputs \cup {n}
              /\ between' = [u \in Thread |->
                   between[u] \cup IF pc[u] = "cut" THEN {n} ELSE {}]
              /\ UNCHANGED lost
         ELSE lost' = lost \cup {n} /\ UNCHANGED <<inputs, between>>
    /\ \/ polled' = polled \cup {n} /\ UNCHANGED shut
       \/ EpollFails /\ shut' = shut \cup {n} /\ UNCHANGED polled
    /\ UNCHANGED <<mutex, closed, input_removed, retired, freed, dead,
                   remove_count, pipes, pc, target, saved, locals>>

\* Mutant: the mutex is given back before the node is unlinked.
DelBeginUnlocked(t, n) ==
    /\ pc[t] = Home(t)
    /\ mutex = NoThread
    /\ n \in inputs
    /\ Spaced => RemovalOver
    /\ Goto(t, "tail")
    /\ polled' = polled \ {n}
    /\ target' = [target EXCEPT ![t] = n]
    /\ UNCHANGED <<mutex, closed, inputs, lost, shut, input_removed, retired,
                   freed, dead, remove_count, pipes, saved, between, locals>>

\* Lock, find the node, take it out of the epoll set.  When epoll_ctl fails
\* the mutex is given back and the call goes on without it.
DelBegin(t, n) ==
    /\ pc[t] = Home(t)
    /\ mutex = NoThread
    /\ n \in inputs
    /\ Spaced => RemovalOver
    /\ IF n \in polled
         THEN mutex' = t /\ Goto(t, "unlink")
         ELSE UNCHANGED mutex /\ Goto(t, "tail")
    /\ polled' = polled \ {n}
    /\ target' = [target EXCEPT ![t] = n]
    /\ UNCHANGED <<closed, inputs, lost, shut, input_removed, retired, freed,
                   dead, remove_count, pipes, saved, between, locals>>

\* Without the mutex: is the node input_loop_last?  (The model keeps no order:
\* either.)  If it is, input_loop_last moves to the node before it.
DelTail(t) ==
    /\ pc[t] = "tail"
    /\ Goto(t, "unlink") \/ Goto(t, "cut")
    /\ UNCHANGED <<mutex, closed, lists, dead, remove_count, pipes,
                   callerLocals, locals>>

\* The node before the target gets the target's next; what was linked between
\* them in the meantime is off the list, all of it or the last of it.
DelCut(t) ==
    /\ pc[t] = "cut"
    /\ \E L \in SUBSET between[t] :
         /\ inputs' = inputs \ ({target[t]} \cup L)
         /\ lost' = lost \cup L
    /\ between' = [between EXCEPT ![t] = {}]
    /\ retired' = retired \cup {target[t]}
    /\ saved' = [saved EXCEPT ![t] = input_removed]
    /\ Goto(t, "push")
    /\ UNCHANGED <<mutex, closed, shut, polled, input_removed, freed, dead,
                   remove_count, pipes, target, locals>>

\* Unlink the node; its next becomes the list the head points to now.
DelUnlink(t) ==
    /\ pc[t] = "unlink"
    /\ inputs' = inputs \ {target[t]}
    /\ retired' = retired \cup {target[t]}
    /\ saved' = [saved EXCEPT ![t] = input_removed]
    /\ Goto(t, "push")
    /\ UNCHANGED <<mutex, closed, lost, shut, polled, input_removed, freed,
                   dead, remove_count, pipes, target, between, locals>>

DelPush(t) ==
    /\ pc[t] = "push"
    /\ input_removed' = saved[t] \cup {target[t]}
    /\ Goto(t, "post")
    /\ UNCHANGED <<mutex, closed, inputs, lost, shut, polled, retired, freed,
                   dead, remove_count, pipes, callerLocals, locals>>

\* Mutant: the removal is not counted.
DelPostUncounted(t) ==
    /\ pc[t] = "post"
    /\ Goto(t, "signal")
    /\ UNCHANGED <<mutex, closed, lists, dead, remove_count, pipes,
                   callerLocals, locals>>

DelPost(t) ==
    /\ pc[t] = "post"
    /\ remove_count' = remove_count + 1
    /\ Goto(t, "signal")
    /\ UNCHANGED <<mutex, closed, lists, dead, pipes, callerLocals, locals>>

\* Mutant: the removal is announced to the device thread at once.
DelSignalDevice(t) ==
    /\ pc[t] = "signal"
    /\ WakeDevice(0)
    /\ mutex' = IF mutex = t THEN NoThread ELSE mutex
    /\ Goto(t, Home(t))
    /\ UNCHANGED <<closed, lists, dead, remove_count, inputPipe, queue,
                   callerLocals, locals>>

\* Write the byte and unlock.  An error-checking mutex ignores the unlock of
\* a thread that does not own it.
DelSignal(t) ==
    /\ pc[t] = "signal"
    /\ WakeInput
    /\ mutex' = IF mutex = t THEN NoThread ELSE mutex
    /\ target' = [target EXCEPT ![t] = Pipe]
    /\ Goto(t, Home(t))
    /\ UNCHANGED <<closed, lists, dead, remove_count, devicePipe, hidden,
                   saved, between, locals>>

Reenumerate(t) ==
    /\ Relists
    /\ pc[t] = Home(t)
    /\ WakeDevice(1)
    /\ UNCHANGED <<mutex, closed, lists, dead, remove_count, inputPipe, queue,
                   pc, callerLocals, locals>>

\* Mutant: only the device thread is woken.
StopRequestDevice(t) ==
    /\ pc[t] = "idle"
    /\ ~closed
    /\ mutex = NoThread
    /\ closed' = TRUE
    /\ WakeDevice(0)
    /\ Goto(t, "joinInput")
    /\ UNCHANGED <<mutex, lists, dead, remove_count, inputPipe, queue,
                   callerLocals, locals>>

\* Under the mutex: ask the threads to end and wake them both.
StopRequest(t) ==
    /\ pc[t] = "idle"
    /\ ~closed
    /\ mutex = NoThread
    /\ closed' = TRUE
    /\ WakeInput
    /\ WakeDevice(0)
    /\ Goto(t, "joinInput")
    /\ UNCHANGED <<mutex, lists, dead, remove_count, callerLocals, locals>>

StopJoinInput(t) ==
    /\ pc[t] = "joinInput"
    /\ Ended(InputThread)
    /\ Goto(t, "joinDevice")
    /\ UNCHANGED <<mutex, closed, lists, dead, remove_count, pipes,
                   callerLocals, locals>>

StopJoinDevice(t) ==
    /\ pc[t] = "joinDevice"
    /\ Ended(DeviceThread)
    /\ Goto(t, "stopped")
    /\ UNCHANGED <<mutex, closed, lists, dead, remove_count, pipes,
                   callerLocals, locals>>

-----------------------------------------------------------------------------
(* The input thread                                                        *)

\* epoll_wait is level-triggered: a readable pipe and an unplugged device are
\* in every batch.  Any other polled device may have events.  What was queued
\* and has nothing to read leaves the queue; the rest keeps its order.
InputWait ==
    /\ pc[InputThread] = "wait"
    /\ \E S \in SUBSET polled :
         /\ dead \cap polled \subseteq S
         /\ batch' = IF inputPipe THEN S \cup {Pipe} ELSE S
         /\ queue' = IF inputPipe THEN queue \cap (S \cup {Pipe}) ELSE {}
    /\ batch' # {}
    /\ Goto(InputThread, "batch")
    /\ UNCHANGED <<mutex, closed, lists, dead, remove_count, inputPipe,
                   devicePipe, hidden, callerLocals, cur, sync, seen, buf,
                   freeing>>

\* The loop condition, checked once the batch is exhausted.
InputNext ==
    /\ pc[InputThread] = "batch"
    /\ batch = {}
    /\ Goto(InputThread, IF seen THEN "done" ELSE "wait")
    /\ UNCHANGED <<mutex, closed, lists, dead, remove_count, pipes,
                   callerLocals, locals>>

\* The batch is in the order of the queue.  Read the pipe until it is empty.
InputPurge ==
    /\ pc[InputThread] = "batch"
    /\ Pipe \in batch
    /\ batch \cap queue = {Pipe}
    /\ batch' = batch \ {Pipe}
    /\ inputPipe' = FALSE
    /\ Goto(InputThread, "closed")
    /\ UNCHANGED <<mutex, closed, lists, dead, remove_count, queue,
                   devicePipe, hidden, callerLocals, cur, sync, seen, buf,
                   freeing>>

\* Mutant: the acknowledgement is forwarded when the library closes.
InputClosedSwapped ==
    /\ pc[InputThread] = "closed"
    /\ mutex = NoThread
    /\ seen' = closed
    /\ Goto(InputThread, IF closed THEN "forward" ELSE "batch")
    /\ UNCHANGED <<mutex, closed, lists, dead, remove_count, pipes,
                   callerLocals, batch, cur, sync, buf, freeing>>

InputClosed ==
    /\ pc[InputThread] = "closed"
    /\ mutex = NoThread
    /\ seen' = closed
    /\ Goto(InputThread, IF closed THEN "batch" ELSE "forward")
    /\ UNCHANGED <<mutex, closed, lists, dead, remove_count, pipes,
                   callerLocals, batch, cur, sync, buf, freeing>>

InputForward ==
    /\ pc[InputThread] = "forward"
    /\ WakeDevice(0)
    /\ Goto(InputThread, "batch")
    /\ UNCHANGED <<mutex, closed, lists, dead, remove_count, inputPipe, queue,
                   callerLocals, locals>>

\* libevdev_next_event on the node an event points to.
InputEvent(n) ==
    /\ pc[InputThread] = "batch"
    /\ n \in batch \cap Node
    /\ Pipe \in batch => n \in queue
    /\ \/ /\ Goto(InputThread, "callback")            \* SUCCESS
          /\ sync' = FALSE
          /\ cur' = n
          /\ batch' = batch \ {n}
       \/ /\ n \notin dead                            \* SYNC
          /\ Goto(InputThread, "sync")
          /\ sync' = TRUE
          /\ cur' = n
          /\ batch' = batch \ {n}
       \/ /\ n \notin dead                            \* EAGAIN
          /\ batch' = batch \ {n}
          /\ UNCHANGED <<pc, cur, sync>>
       \/ /\ n \in dead                               \* ENODEV
          /\ batch' = {}
          /\ UNCHANGED <<pc, cur, sync>>
       \/ /\ Failures
          /\ Goto(InputThread, "failed")
          /\ batch' = {}
          /\ UNCHANGED <<cur, sync>>
    /\ UNCHANGED <<mutex, closed, lists, dead, remove_count, pipes,
                   callerLocals, seen, buf, freeing>>

\* modal_sync reads the next event of the same node.
InputSync ==
    /\ pc[InputThread] = "sync"
    /\ \/ Goto(InputThread, "callback") /\ UNCHANGED <<cur, sync>>
       \/ Goto(InputThread, "batch") /\ cur' = Pipe /\ sync' = FALSE
    /\ UNCHANGED <<mutex, closed, lists, dead, remove_count, pipes,
                   callerLocals, batch, seen, buf, freeing>>

\* The application's inputs callback returns.
InputReturn ==
    /\ pc[InputThread] = "callback"
    /\ \/ Goto(InputThread, "sync") /\ sync /\ UNCHANGED cur
       \/ Goto(InputThread, "batch") /\ ~sync /\ cur' = Pipe
       \/ Goto(InputThread, "failed") /\ Failures /\ cur' = Pipe
    /\ UNCHANGED <<mutex, closed, lists, dead, remove_count, pipes,
                   callerLocals, batch, sync, seen, buf, freeing>>

-----------------------------------------------------------------------------
(* The device thread                                                       *)

\* Mutant: the result of the read is not looked at.
DeviceReadAnyway ==
    /\ pc[DeviceThread] = "poll"
    /\ buf' = devicePipe
    /\ devicePipe' = NoByte
    /\ hidden' = (hidden /\ devicePipe # 0)
    /\ Goto(DeviceThread, "closed")
    /\ UNCHANGED <<mutex, closed, lists, dead, remove_count, inputPipe, queue,
                   callerLocals, batch, cur, sync, seen, freeing>>

DeviceRead ==
    /\ pc[DeviceThread] = "poll"
    /\ devicePipe # NoByte
    /\ buf' = devicePipe
    /\ devicePipe' = NoByte
    /\ hidden' = (hidden /\ devicePipe # 0)
    /\ Goto(DeviceThread, "closed")
    /\ UNCHANGED <<mutex, closed, lists, dead, remove_count, inputPipe, queue,
                   callerLocals, batch, cur, sync, seen, freeing>>

\* An error of device_handle, of a device callback it runs or of one it runs
\* for a pending path ends the thread; add_pending's leaves the mutex locked.
DeviceFails ==
    /\ Failures
    /\ pc[DeviceThread] = "poll"
    /\ \/ UNCHANGED mutex
       \/ mutex = NoThread /\ mutex' = DeviceThread
    /\ Goto(DeviceThread, "failed")
    /\ UNCHANGED <<closed, lists, dead, remove_count, pipes, callerLocals,
                   locals>>

DeviceClosed ==
    /\ pc[DeviceThread] = "closed"
    /\ mutex = NoThread
    /\ Goto(DeviceThread,
            IF closed THEN "done" ELSE IF buf = 0 THEN "trywait" ELSE "relist")
    /\ UNCHANGED <<mutex, closed, lists, dead, remove_count, pipes,
                   callerLocals, locals>>

\* sem_trywait: a byte with no removal behind it ends the thread.
DeviceTryWait ==
    /\ pc[DeviceThread] = "trywait"
    /\ IF remove_count = 0
         THEN Goto(DeviceThread, "done") /\ UNCHANGED remove_count
         ELSE Goto(DeviceThread, "value") /\ remove_count' = remove_count - 1
    /\ UNCHANGED <<mutex, closed, lists, dead, pipes, callerLocals, locals>>

\* sem_getvalue: more removals to acknowledge, or all of them.
DeviceValue ==
    /\ pc[DeviceThread] = "value"
    /\ IF remove_count = 0
         THEN Goto(DeviceThread, "collect") /\ UNCHANGED <<devicePipe, hidden>>
         ELSE Goto(DeviceThread, "poll") /\ WakeDevice(0)
    /\ UNCHANGED <<mutex, closed, lists, dead, remove_count, inputPipe, queue,
                   callerLocals, locals>>

DeviceCollect ==
    /\ pc[DeviceThread] = "collect"
    /\ freeing' = input_removed
    /\ Goto(DeviceThread, "free")
    /\ UNCHANGED <<mutex, closed, lists, dead, remove_count, pipes,
                   callerLocals, batch, cur, sync, seen, buf>>

\* A node that register_add closed has its libevdev context freed again here;
\* the second close() of its file fails and the thread ends, the node and what
\* follows it not freed and the head not cleared.
DeviceFree(n) ==
    /\ pc[DeviceThread] = "free"
    /\ n \in freeing
    /\ IF n \in shut
         THEN Goto(DeviceThread, "failed") /\ UNCHANGED <<freeing, freed>>
         ELSE /\ freeing' = freeing \ {n}
              /\ freed' = freed \cup {n}
              /\ UNCHANGED pc
    /\ UNCHANGED <<mutex, closed, inputs, lost, shut, polled, input_removed,
                   retired, dead, remove_count, pipes, callerLocals, batch,
                   cur, sync, seen, buf>>

\* Mutant: the head of the freed list is kept.
DeviceForgetNothing ==
    /\ pc[DeviceThread] = "free"
    /\ freeing = {}
    /\ Goto(DeviceThread, "poll")
    /\ UNCHANGED <<mutex, closed, lists, dead, remove_count, pipes,
                   callerLocals, locals>>

DeviceForget ==
    /\ pc[DeviceThread] = "free"
    /\ freeing = {}
    /\ input_removed' = {}
    /\ Goto(DeviceThread, "poll")
    /\ UNCHANGED <<mutex, closed, inputs, lost, shut, polled, retired, freed,
                   dead, remove_count, pipes, callerLocals, locals>>

\* The device callback runs for every plugged device with the mutex held.
DeviceRelist ==
    /\ pc[DeviceThread] = "relist"
    /\ mutex = NoThread
    /\ mutex' = DeviceThread
    /\ Goto(DeviceThread, "relisting")
    /\ UNCHANGED <<closed, lists, dead, remove_count, pipes,
                   callerLocals, locals>>

\* When a callback fails the thread ends without unlocking.
DeviceRelisted ==
    /\ pc[DeviceThread] = "relisting"
    /\ \/ mutex' = NoThread /\ Goto(DeviceThread, "poll")
       \/ Failures /\ Goto(DeviceThread, "failed") /\ UNCHANGED mutex
    /\ UNCHANGED <<closed, lists, dead, remove_count, pipes,
                   callerLocals, locals>>

-----------------------------------------------------------------------------
Unplug(n) ==
    /\ n \notin dead
    /\ dead' = dead \cup {n}
    /\ UNCHANGED <<mutex, closed, lists, remove_count, pipes,
                   pc, callerLocals, locals>>

Call(t) ==
    \/ \E n \in Node : RegisterAdd(t, n) \/ DelBegin(t, n)
    \/ Reenumerate(t)

Removal(t) ==
    \/ DelTail(t) \/ DelCut(t) \/ DelUnlink(t)
    \/ DelPush(t) \/ DelPost(t) \/ DelSignal(t)

Stop(t) == StopRequest(t) \/ StopJoinInput(t) \/ StopJoinDevice(t)

Input ==
    \/ InputWait \/ InputNext \/ InputPurge \/ InputClosed \/ InputForward
    \/ \E n \in Node : InputEvent(n)
    \/ InputSync \/ InputReturn

Device ==
    \/ DeviceRead \/ DeviceClosed \/ DeviceTryWait \/ DeviceValue
    \/ DeviceCollect \/ (\E n \in Node : DeviceFree(n)) \/ DeviceForget
    \/ DeviceRelist \/ DeviceRelisted

Next ==
    \/ \E t \in Caller : Call(t) \/ Removal(t)
    \/ \E t \in App : Stop(t)
    \/ Input
    \/ Device
    \/ DeviceFails
    \/ \E n \in Node : Unplug(n)

Spec == Init /\ [][Next]_vars

\* A thread that can take a step takes one, once it is inside the library;
\* nobody has to call the library, and events need not come.  The stream of a
\* modal_sync is the finite difference between two states of the device.
Fairness ==
    /\ WF_vars(Input)
    /\ WF_vars(Device)
    /\ \A t \in Caller : WF_vars(Removal(t))
    /\ \A t \in App : WF_vars(StopJoinInput(t) \/ StopJoinDevice(t))
    /\ SF_vars(InputSync /\ pc'[InputThread] = "batch")

FairSpec == Spec /\ Fairness

-----------------------------------------------------------------------------
(* Properties                                                              *)

TypeOK ==
    /\ mutex \in Thread \cup {NoThread}
    /\ closed \in BOOLEAN
    /\ inputs \subseteq Node
    /\ lost \subseteq Node
    /\ shut \subseteq Node
    /\ polled \subseteq Node
    /\ dead \subseteq Node
    /\ input_removed \subseteq Node
    /\ remove_count \in Nat
    /\ inputPipe \in BOOLEAN
    /\ queue \subseteq Node \cup {Pipe}
    /\ devicePipe \in Byte \cup {NoByte}
    /\ hidden \in BOOLEAN
    /\ pc \in [Thread -> Place]
    /\ target \in [Thread -> Node \cup {Pipe}]
    /\ saved \in [Thread -> SUBSET Node]
    /\ between \in [Thread -> SUBSET Node]
    /\ batch \subseteq Node \cup {Pipe}
    /\ cur \in Node \cup {Pipe}
    /\ sync \in BOOLEAN
    /\ seen \in BOOLEAN
    /\ buf \in Byte
    /\ freeing \subseteq Node
    /\ retired \subseteq Node
    /\ freed \subseteq Node

\* Nodes the input thread may still dereference: what is left of its batch,
\* and the node whose event it is handling.
Held ==
    (batch \ {Pipe})
      \cup IF pc[InputThread] \in {"callback", "sync"} \cup RemovalPc
             THEN {cur} ELSE {}

\* The protocol of evdev_epoll.c:792 and helpers.c:1303 implements safe
\* reclamation: no node is freed while the input thread may use it.
R == INSTANCE Reclaim WITH
       live <- inputs \cup lost, retired <- retired \ freed, freed <- freed,
       held <- Held

Reclaims == R!Spec

\* Every acknowledgement the device thread acts on has a removal behind it, so
\* sem_trywait never ends the thread (helpers.c:924, "loop as long as the
\* library is active").
AckHasRemoval == pc[DeviceThread] = "trywait" => remove_count > 0

\* A removed node is never lost and never freed twice: until it is freed it is
\* in the hands of register_del, on input_removed, or in the free loop, and the
\* list leads to freed nodes only while that loop runs.  A node register_add
\* closed is never freed: on reaching it the loop ends the thread half-way
\* (helpers.c:1096-1108).
Accounted ==
    /\ retired \ freed \subseteq
         input_removed \cup freeing \cup
           {target[t] : t \in {u \in Thread : pc[u] = "push"}}
    /\ freed \cap (freeing \cup shut) = {}
    /\ input_removed \cap freed # {} => pc[DeviceThread] = "free"

\* A device the input thread reads can be found by register_del, also while
\* devices are removed, unless a removal ran without the mutex: it does so
\* only after epoll_ctl refused a device (evdev_epoll.c:670, 752).
Findable == polled \subseteq inputs \/ shut # {}

\* Unplugged devices nobody unregistered come before the pipe: the ENODEV of
\* one makes the input thread drop the rest of its batch.
Starving == dead \cap polled \cap queue # {}

\* An error ended the device thread with the mutex locked.
Abandoned == mutex = DeviceThread /\ pc[DeviceThread] = "failed"

\* stop returns, unless unplugged devices stay registered before the pipe or
\* the mutex was left locked.
StopReturns ==
    \/ <>[]Starving
    \/ <>[]Abandoned
    \/ \A t \in App : pc[t] = "joinInput" ~> pc[t] = "stopped"

\* A removal under way while the free loop runs.
Overtaken == pc[DeviceThread] = "free" /\ \E t \in Thread : Removing(t)

\* A removed device is freed in the end, as long as both threads run and
\* re-enumerations are not asked for without end.  One may hide the
\* acknowledgement, until that of another removal is read; and the head of the
\* list may be cleared over a removal.
RemovalCompletes ==
    \/ <>[]Starving
    \/ <>(Ended(InputThread) \/ Ended(DeviceThread))
    \/ []<>(devicePipe = 1)
    \/ <>[]hidden
    \/ <>Overtaken
    \/ \A n \in Node : n \in retired ~> n \in freed

\* stop always returns (evdev_epoll.c:522, "wait for input thread to end").
StopEnds == \A t \in App : pc[t] = "joinInput" ~> pc[t] = "stopped"

\* A node is freed only when it is in no batch of the input thread.
FlushBeforeFree ==
    [][\A n \in Node : n \in freed' \ freed => n \notin Held]_vars
=============================================================================
