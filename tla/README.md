# punknobs: TLA+ models, model checks and proofs

punknobs reports game controllers and their inputs to an application, behind
one C interface with a backend per platform: evdev on Linux, DirectInput and
XInput on Windows, IOHID on macOS. This directory models what its threads do to
each other. `evdev_epoll.c` and `helpers.c` below are the files of
`src/evdev/epoll/`, `win.c` and `win_helpers.c` those of `src/win/`.

## The system

| Part | State | Operations | What is hard |
| --- | --- | --- | --- |
| evdev: registration and removal | list of input nodes, the input thread's epoll set, `input_removed`, `remove_count`, two self-pipes, `mutex_main`, `closed` | `register_add`, `register_del`, `reenumerate`, `stop`, loops of the input and the device thread | a node may be freed only when no batch of events points to it; bytes merge in the pipes |
| evdev: hot-plugging | inotify queue, `devices_plugged`, `devices_pending`, `timeout` | listing by `start`, CREATE, ATTRIB and DELETE events, retry | two threads report devices; the file may be unreadable, gone, or another device by now |
| evdev: retry timer | `timeout`, the last clock reading | one computation per turn of the device loop | only `tv_nsec` is read |
| evdev: haptics, queries | the kernel's effect slots | eleven calls under `mutex_main` | errors that return with the mutex locked |
| evdev: lifecycle | pipes, epoll descriptors, threads, lists | `init`, `start`, `stop`, `clean` | what is left to release after each failure |
| Windows: devices | reference, new and registered lists of DirectInput and XInput devices, three mutexes, a re-enumeration event | polling device thread, polling input thread, `register_add`, `register_del` | nodes replaced at each refresh, lock order |
| Windows: lifecycle | window, handles, threads, lists, one error record for all threads | `init`, `start`, `stop`, `clean` | threads that are never ended, lists freed under them |
| macOS | device list, run loop thread with a condition | `start`, `stop`, device and input callbacks, `register_add`, `register_del`, `reenumerate` | the list has no lock; a node is freed before its callback; a stop from a callback |
| common | context, table of functions, error record | `init`, `start`, `stop`, `clean`, forwarding | what a failed call leaves behind |
| example | its error record | the order of its calls | `clean` after any error |

An application makes a context, starts and stops it and gives it back; the
common code forwards every call through a table of functions to the backend,
which keeps its state in the context and starts the threads. The threads meet in
the backend's lists, under a mutex or not, and in the application's callbacks:
the device thread runs the device callback, the input thread the inputs
callback, and both may call back into the library. On evdev the threads also
send each other bytes through two pipes. On macOS there is one thread, which
IOKit calls back from a run loop, and the caller's.

What makes the parts correct: a node a thread still uses is not freed, a
removed node is freed once and in the end, an acknowledgement matches a removal,
a device that is readable gets listed and is not left listed once it has gone,
every call returns, `stop` ends the threads, and `clean` gives everything back
and nothing uses it afterwards.

## Modules

`Reclaim` is the promise of the two-step removal in the abstract: nodes are
live, retired or freed, a reader takes a snapshot of live nodes and works
through it, and a retired node is freed when no snapshot holds it.

`EvdevRemoval` is the protocol that keeps it. `register_del` unlinks the node,
pushes it on `input_removed`, posts `remove_count` and writes a byte to the
input thread (`DelBegin` to `DelSignal`, one step per access another thread can
see). The input thread purges its pipe, reads `closed` and forwards the byte
(`InputPurge`, `InputClosed`, `InputForward`). The device thread takes the byte,
decrements the counter, and at zero frees the list (`DeviceRead` to
`DeviceForget`). `reenumerate` and `stop` write to the same pipes. A pipe is
modelled as what its purge would return: whether there is a byte, and for the
device thread which one came last. A batch of epoll events is the devices of it
that are before the pipe (`queue`, epoll's ready list up to there, which keeps
its order from one wait to the next) and those after it, which come in any
order. The mutex is error-checking: unlocking it without owning it changes
nothing. What epoll_ctl refuses takes the list apart, and the model follows the
code there: `register_add` closes the file of the node, which stays linked
(`shut`); `register_del` gives the mutex back and unlinks the node all the same,
in steps of its own (`DelTail`, `DelCut`) between which others link nodes
(`between`) that end up off the list (`lost`); and on coming to a node that is
`shut` the free loop frees its libevdev context a second time, fails to close
its file and ends the device thread, with neither that node nor the rest freed
(`DeviceFree`). The device thread may also end on an error of a callback or of
`device_handle` (`Failures`), with the mutex locked if `add_pending` failed. `R
== INSTANCE Reclaim` is the refinement mapping: `held` is the rest of the batch
and the node whose event is being handled.

`EvdevHotplug` is how devices are learnt of. The kernel adds, gives permissions
to and removes devices and queues inotify events. Two workers run
`run_device_callback` (`Open`, `Probe`, `PushDevice`, `Report`): the starter,
listing the directory, and the device thread, for CREATE and ATTRIB events and
for retries. `HandleDelete`, `Unlist` and `Unreport` are the way out: the unplug
callback of a registered device may unregister it or leave it registered
(`kept`), as the example does for a device that is not in its save. A device
plugged in later under that path may be passed over by its events (`missed`),
and a later DELETE may find no entry of the id it looked up, after which the
model stops (`undefined`), since the code goes on with uninitialized memory.
Sections under the mutex are one step, since they call no callback. The error of
a callback is kept as far as `device_handle` tells errors apart: none, that of
an open, any other. A retried path leaves the array as it is tried; the code
empties the array at the end, and nothing reads it in between.

`EvdevCalls` is every call of the evdev backend against `mutex_main`: the
registry calls, the queries and effects that end in an ioctl or a write
(`Requests`), which the kernel grants or refuses, and the places the calls come
from: application threads, the device callback, the inputs callback, and the
device callback inside a re-enumeration, where the mutex is held already and
locking it again gives EDEADLK (`LockFails`). Removal is one step here; its
protocol is the subject of `EvdevRemoval`. A device is an entry with its state
of registration and the effects stored in its slots; what an effect looks like
and what a query returns are left out.

`WinDevices` is the Windows backend's device list. `Refresh` lists the devices
that are there as new nodes; `Match` takes over what the old node knew and moves
the new one to the front; `ReportUnplugged` runs the callback for a device that
is missing; `Relist` and `List` report the others; `Swap` makes the new list the
reference and frees the old one. The list is kept as pointers, since the code
rearranges it while walking through it; a walk through pointers is `Linked` of
`PointerLists`, the sequence of the nodes it comes to. `InputLock` to
`InputUnlock` are the input thread's turn. An id is the address of a node, and
so a number that is never given again. A flag of a node that nobody has written
reads as either value, and its id as null: the info of a node that is XInput
compatible is never filled in, and later refreshes copy it. A query or an effect
may fail and return with its mutex locked (`kept`), once more than its thread
will ever unlock it. XInput's list goes through the same steps, and is not a
second copy here.

`MacDevices` is the macOS backend. `Start`, `LoopOpen`, `LoopConfirm`,
`StartReturn` are the start of `PunknobsThread`, `Stop` to `StopReturn` its end.
The device manager announces devices (`matching`) and removals (`removal`) while
it is open; when a removal is handled, the registry may still know the device's
id, not know it, or have lost its service, and the code goes a different way for
each (`Removed`, `RemovedUnknown` with `Sweep` and `Swept`, `RemovedNull`). The
list is pointers, an id is a node's address, and freed memory is taken to hold
what it held: `stray` records every use of it, and `told` which ids the
application has. `Expire` lets the registry forget an id while the code runs.

`Lifecycle` is the life of a context, with the application that the example is:
it calls, checks its error record, and calls `clean` on any error. The steps of
the calls and of the threads are in `EvdevLifecycle` and `WinLifecycle`, and
`Punknobs` puts them together: `config` says which backend fills the table of
functions. `held` is what has been made or opened and not been given back, every
step of a call may fail, and every start has threads of its own, so that those
of an earlier start may still be there. `failed` is the calls that failed, or
were taken for failed: on Windows the record tells the application neither for
sure. `owner` is who left the mutex of evdev locked for good: a thread that a
callback of a re-enumeration failed on, or one that made a request from a
callback which the device refused, the application's own thread included, since
`start` lists the devices on it. `leads` says which list of Windows has pointers
into freed nodes of the other: the registered node of a missing device leads to
a node that the swap freed, long before any `stop`. What the threads do to
devices is reduced to what they use: the backend, the lists, the mutexes, the
error record. A step that uses what is not there is recorded in `stray`; the
model stops (`Defined`) once freed memory was used, since nothing can be said of
the program afterwards.

`MCEvdevRemoval`, `MCEvdevHotplug`, `MCEvdevCalls`, `MCWinDevices`,
`MCMacDevices`, `MCPunknobs` give the instances for TLC. `EvdevRemovalProofs`,
`EvdevHotplugProofs`, `EvdevCallsProofs`, `WinDevicesProofs`, `MacDevicesProofs`
and `PunknobsProofs` hold the theorems, and `PointerListsProofs` what the proofs
about Windows and macOS need of linked lists.

## Runs

| Run | Instance | Shows |
| --- | --- | --- |
| `removal_spaced` | 3 devices, application and device callback as callers, re-enumerations, failing epoll_ctl and callbacks | `TypeOK`, `AckHasRemoval`, `Accounted`, `Findable`, `Reclaims` hold when a removal starts only after the last one is over |
| `removal_live` | 2 devices, overlapping removals, re-enumerations, failing callbacks | `StopReturns`, `RemovalCompletes`, each with the conditions under which the code does not keep it |
| `removal_burst` | 2 devices, overlapping removals | `FlushBeforeFree` fails: finding 1 |
| `stop_unplugged` | 1 device | `StopEnds` fails: finding 2 |
| `hotplug` | 4 kernel events: 1 path with any use of registration, in unplug callbacks or not, or 2 paths with every device registered and unregistered | `TypeOK`, `UnplugFindsEntry`, `NodesListed`, `RetryArmed`, `PluggedIsListed` |
| `relist_unplugged` | 1 path | `ListedIsPlugged` fails: finding 3 |
| `calls` | 1 device, an application thread, 4 calls from it and the three callbacks | `TypeOK`, `LockedForAReason`, `RelistFrozen`, `CallsReturn`, `UnplugHandled`, the last two with the conditions under which the code does not keep them |
| `calls_refused` | 1 device | `UnregisteringReturns` fails: finding 4 |
| `win` | 2 devices, one of them listed by XInput too, 4 nodes, 3 calls from the callbacks and an application thread, failing requests | `TypeOK`, `Partitioned`, `EntryLive`, `RegLive`, `ReportedOnce`, `OnlyCallsCross`, `InputWalksAlone` |
| `win_unplugged` | 1 device | `UnplugUnregisters` fails: finding 5 |
| `mac` | 2 devices, 3 nodes, 2 starts, 2 calls from either thread, failing callbacks, all the registry may answer | `TypeOK`, `LoopWalksLive`, `Quiet`, `FreedIsReported`, `ListSettles`, `InputKnown`, `HandshakeReturns` |
| `lifecycle` | evdev with 2 starts and Windows with 1, every step of every call may fail | `TypeOK`, `FreedUnused`, `GivesBack`, `DeafAfterStop`, `StoppedIsOver`, `EndedByOthers` |

Bounds. Three nodes let one be removed while another is in the batch and a third
is being added, and a node is never used again once removed, so more nodes only
repeat the roles. Nodes are interchangeable, so the safety runs use symmetry;
the liveness runs do not. Four kernel events are enough for a device to go and
come back under the same path with its permissions late, or for a path to be
plugged, refused, tried again and unplugged; with two paths both can be pending
at once. `Spaced`, `Relists`, `EpollFails`, `Failures` switch off what a run
leaves out; `Setups` gives `hotplug` its two circumstances, one of which has the
paths and the other the calls. With four calls one can be refused, one can be
caught in a re-enumeration and two are left to find the mutex lost; one device
and one slot are enough, since all devices share the mutex. Four nodes on
Windows are two refreshes with both devices, where both must be matched and
moved in any order, or four of one device, which outlives its first nodes; three
calls register a device while a refresh is under way and then let both callbacks
be in a call at once, each waiting for the mutex of the other (`OnlyCallsCross`
has states to look at), or register it, unregister it and register it again. A
device callback that registers is in `win_unplugged`. On macOS three nodes are a list with a first, a middle
and a last node, or two of a device of the first start and one of the second;
two calls register a device and use it, or stop from both threads. Two starts
are the first at which threads and flags of an earlier one are in the way;
Windows is started once (`Again`), since with the threads of two starts alive
the run has eighty times the states; the proofs are for any number of either.
Deadlock is not checked: the systems may stop for good, after `stop` or `clean`,
when nothing is plugged, or when the nodes are used up.

Fairness. Both threads are POSIX threads in loops that block only on epoll and
on the mutex, so weak fairness on each is what the scheduler gives. A removal
under way goes on (weak fairness of `Removal(t)`), and so do the joins of
`stop`. Nobody has to call the library and no device has to send events.
In `calls` weak fairness is enough: the calls are finitely many, so the mutex is
free for good in the end or never; callbacks return, and the kernel answers.
`win` and `lifecycle` assume none. In `mac` the run loop's thread and the
callbacks go on (weak fairness), and the run loop performs a message it was
posted even if inputs keep coming, since it does so in every pass (strong
fairness of `LoopStop`); the owner's returns from `start` and `stop` are weakly
fair. `modal_sync` reads the difference between two states of a device, which is
finite: leaving it is strongly fair.

## Findings

1. Overlapping removals free a node too early (`removal_burst`). A second
   `register_del` pushes its node before the device thread has collected the
   list for the first: it is freed with the first, although the input thread may
   have its events in the batch. The same overlap leaves an acknowledgement with
   nothing to count, and `sem_trywait` ends the device thread.
2. A device that is unplugged and still registered starves the input thread's
   pipe (`stop_unplugged`), so `stop` never returns: it was unplugged before
   `stop` wrote its byte, is before the pipe in epoll's ready list, and its
   ENODEV makes the thread drop what comes after it in every batch.
3. The entry of a device nobody registered survives its unplugging
   (`relist_unplugged`), and re-enumerations report it as plugged.
4. A refused request leaves the mutex locked (`calls_refused`). Eleven returns
   of the haptics functions forget to unlock it (`evdev_epoll.c` 879, 894, 987,
   1002, 1093, 1276, 1353, 1436, 1519, 1603, 1686). The kernel refuses as soon
   as the device is unplugged, and the calls of all other threads then wait for
   ever: in the run a `register_del`.
5. On Windows the unplugging does not unregister (`win_unplugged`). The id a
   device is reported with is that of its first node, `register_del` knows the
   latest one only, so the registered node of a device that was there for two
   refreshes stays, and points to a freed node.

`EntryLive` and `RegLive` name what the Windows code does not keep: the node of
a device found missing, which finding 5 leaves behind, and a registered node that
is unregistered after a new node had taken its pointer over. `OnlyCallsCross`
leaves the deadlock of the two callbacks, one with `mutex_enum`, one with
`mutex_reg`, each in a call that takes the other, and what becomes of everybody
once a failed request has kept a mutex.

`Findable` and `Accounted` name what a refused epoll_ctl does: a removal that
runs without the mutex may cut devices off the list, and the node whose
registration failed can be removed but never freed, and ends the device thread.
`RemovalCompletes` and `StopReturns` name how a removal or a `stop` gets stuck:
a thread that ended, a mutex left locked, a node before the pipe, an
acknowledgement hidden behind a re-enumeration, the free loop of another removal.
`UnplugFindsEntry` and `NodesListed` hold but for a device whose unplug callback
left it registered, and `PluggedIsListed` but for a device that an event passed
over: its ATTRIB because an older node has the path, or the DELETE of the device
before it, which took its entry.

The runs `mac` and `lifecycle` pass with properties that name what the code does
not keep:

- A second start of evdev is deaf (`DeafAfterStop`): `closed` stays set, so the
  new threads end at once, although `start` succeeds.
- `stop` ends no thread on Windows and frees the lists that they use; a life
  without failures leaves the threads, the lists they make afterwards, the
  strings of the devices and the objects of DirectInput (`Leaked`, in
  `GivesBack`). With evdev it leaves two epoll descriptors.
- All threads of Windows write to the error record that `start` was given, and
  the one that looks at the wrong time ends (`EndedByOthers`).
- When `start` of evdev fails with a thread running, or `stop` fails, `clean`
  frees the backend under it, and after an `init` that failed it closes
  descriptor 0 (`FreedUnused`). `stop` fails without a fault of the system when a
  request is refused in a callback of `start`'s own listing: the mutex is left to
  the application's thread, `start` succeeds, and `stop` is refused the mutex. A
  `stop` that succeeds has ended both threads (`StoppedIsOver`).
- On macOS the id reported as unplugged is that of a freed node
  (`FreedIsReported`); another thread's re-enumeration may walk into freed
  nodes (`LoopWalksLive` is about the run loop's thread only); `stop` leaves the
  list as it is, so that a restart lists devices twice (`ListSettles` looks at
  the nodes of the latest start); a removal whose device has no service stays
  listed (`dropped`); a callback that calls `stop` waits for itself
  (`HandshakeReturns`).

## Proofs

Every safety invariant and every action property that a passing run checks is
also a theorem, for every value of the constants; those of `EvdevRemoval` but
`TypeOK` with the assumption `Spaced = TRUE`, without which they are false
(finding 1).

In `EvdevRemovalProofs`, for any sets of devices, threads and callers and any
flags:

- `TypeCorrect`: `Spec => []TypeOK`.
- with the assumption `Spaced = TRUE`, `SpacedInvariant`, an inductive
  invariant, and from it `SpacedAcks`, `SpacedAccounted`, `SpacedFindable`,
  `SpacedFlush`, `SpacedNoUseAfterFree` and `SpacedReclaims`: the protocol
  implements `Reclaim`.

The safety properties of `EvdevRemoval` are not inductive by themselves. The
invariant says where the one removal under way is: in the hands of a caller,
announced in the input thread's pipe, acknowledged by the input thread, or in
the device thread's hands; in each stage it fixes the counter, the list, the two
pipes and the threads' places. When an error ends the device thread, or the node
is `shut`, the removal stays where it is for good, and with `Spaced` no other
begins (`Freeing`). That a list without `shut` nodes is never taken apart
(`Refused`) gives `SpacedFindable`. The key part is that from the moment the
input thread has purged its pipe the removed node is in no batch, which is what
the free loop relies on. `Reclaim!Safe` proves from the abstract rules that
nothing held is freed.

In `EvdevHotplugProofs`, for any paths, any number of kernel events and any use
of registration, all from one inductive invariant, `IInv`:

- `TypeCorrect`: `Spec => []TypeOK`. It needs the rest of the invariant, since
  `FirstId` and the slot of `PendingAfter` are choices that must exist.
- `RetryIsArmed`, from `RetryInv`: what `device_handle` looked up in
  `devices_pending` before the callback still holds after it, for nobody but the
  device thread changes the array, and a path waits with the timer off only
  while the retries run or once the thread has ended.
- `UnplugFinds` and `NodesAreListed`, from `ListInv`: an id that was allocated
  but not linked yet is known to one worker only; every id is listed and watched
  once; an entry whose node is watched says so, which is why `register_add`
  never makes a second node of it; and a watched node has its entry, is being
  unlisted, or is one an unplug callback left registered (`WatchedListed`).

In `EvdevCallsProofs`, for any threads, devices, slots and number of calls:

- `CallsTypeCorrect`: `Spec => []TypeOK`.
- `LockInvariant`, an inductive invariant, and from it `MutexLockedForAReason`
  and `RelistIsFrozen`. It says who can own the mutex: the device thread inside
  a re-enumeration or after one that failed, or a thread whose request was
  refused.

In `PointerListsProofs`, `LinkedIs`: a walk through pointers returns the
sequence of nodes that they chain. A walk is a recursive function, and induction
is out of reach; but a function is the one its equation has if it differs from
it at no smallest argument, so that the walk is found by giving it. The lemmas
say what becomes of a chain when a node is put in front of it, taken out of it,
or moved to its front, and that a chain's nodes are as many as it is long.

In `WinDevicesProofs`, for any devices, calls and bounds, from three layers:

- `LockInvariant`: the device thread has `mutex_enum` exactly while a callback
  reports an unplugging, the input thread has `mutex_reg` from the start of its
  walk to its end, nobody else has either but where a request failed (`kept`),
  and calls are made only where the application's code runs. From it
  `LoopsDoNotCross` (`OnlyCallsCross`) and `InputIsAlone` (`InputWalksAlone`).
- `WalkInv` adds the lists. The new list is a chain of the nodes allocated last,
  and `prev` and `part` are the nodes on either side of where it is split
  (`Shape`): this is what `Match` relies on when it takes a node out from
  behind a predecessor it has carried along. The nodes in front are those whose
  device has a reference node compared so far (`Split`), and how far the reports
  have come is a place in the new list (`Progress`). An id that a node, the
  application or the registry knows is that of a node made (`Knowing`), also
  where the info of a node is unset. From it `TypeCorrect`,
  `SplitByReference` (`Partitioned`) and `StaysReportedOnce` (`ReportedOnce`).
- `RegInv` adds the registered nodes: a call's number is new until its node is
  made (`Numbers`); a node that holds a registered node is the one it points to,
  or took it over from that one in this refresh (`Holders`); and the node that a
  registered one points to holds it (`Held`). From it `EntryStays` (`EntryLive`)
  and `RegStays` (`RegLive`). They name what the code does not keep, and the
  proofs show that nothing else goes wrong: the swap leads every other
  registered node to a new node before the old ones are freed.

In `MacDevicesProofs`, for any devices, calls and bounds, from one invariant,
`MacInv` (`MacInvariant`), inductive until `clean` frees the list, after which
nothing runs in the model:

- `HandInv`, about the threads: without a thread nothing runs or waits, `start`
  waits until the thread has confirmed, from then on the flag is set until the
  thread is over, and the run loop's thread waits for itself only inside a
  callback. From it `StopIsQuiet` (`Quiet`).
- `ListInv`, about the pointers: the list is that of the nodes alive, newest
  first, and the unplugging branch knows two neighbours of it, `device_prev` and
  the node it comes to next, while it frees nodes and calls back (`Sweeping`).
  From it `TypeCorrect`, `WalksLive` (`LoopWalksLive`) and `OneFreed`
  (`FreedIsReported`).
- `NodeInv`, about what the device manager announces: a device has one node in a
  session, a device that is there is announced or has its node, and the node of
  one that has gone is still to be announced or ahead of the branch that frees it
  (`Following`). From it `Settles` (`ListSettles`) and `InputsKnown`
  (`InputKnown`). That nodes alive stand in the order of the sessions is what
  makes the input callback's search find the newest node of a device.

In `PunknobsProofs`, for any backends and any number of starts:

- `TypeCorrect`: `Spec => []TypeOK`.
- `SecondStartIsDeaf`, from `DeafInv`: a second start finds `closed` set, so
  no thread of it ever loops: the one that has entered is about to read it.
- `NothingFreedIsUsed` and `StopEndsThreads` (`StoppedIsOver`), from `FreedInv`:
  unless `start` or `stop` failed, a thread lives only from its creation in
  `start` to the join of it in `stop` (`LiveInv`), and during `start` and `stop`
  what the threads use is there (`ReadyInv`); uses of freed memory are thus
  confined to a failed `start`, `stop` or `init` (`StrayInv`).
- `NotEndedByItself`, from `OwnErrorInv`: a thread that looks at the record has
  reset it, unless the mutex is closed.
- `GivenBack`, from `EvdevBackInv` and `WinBackInv`: in a life without failures,
  at each step of `stop` and `clean`, what is still held is what the remaining
  steps give back, but for `Leaked`. On Windows the record that `clean` reads may
  hold a thread's error, or have lost its own, so the invariant must not depend
  on it.

The assumptions are those of the modules: threads are distinct, bounds are
natural numbers, sets of calls hold known calls, `/dev/input` has a path, there
is a device, and on Windows there are finitely many. The one
fact about natural numbers that the provers lack, that a set of them has a
smallest one (`Smallest`), is drawn from the library's theorems on well-founded
relations.

Model-checked only: the liveness properties (`StopReturns`, `RemovalCompletes`,
`PluggedIsListed`, `CallsReturn`, `UnplugHandled`, `HandshakeReturns`), since
TLAPS has neither ENABLED nor fairness; and, with removals that overlap, whatever
`removal_live` says of `EvdevRemoval`.

## Not modelled

- What events say, the text of errors, what queries return, what effects look
  like: the backends pass them on. The haptics functions of Windows and macOS
  keep nothing but a device's effects, and `EvdevCalls` has what is hard about
  those of evdev.
- Allocation failures, other than the nodes of macOS, and the failures of calls
  that fail only when the program misuses them.
- Registering an id again after `register_del`, or an allocator handing out a
  freed address: in the hazards and not in the models. Nor is a file number that
  the kernel gives again while a node of `EvdevRemoval` still has it closed: the
  close() of the free loop, which fails in the model, would close that file.
- On Windows, what the threads do once they have used freed memory: `Punknobs`
  ends there, and its properties say what happens up to that point.
- The arithmetic of the retry timer: `EvdevHotplug` lets an armed timer run out
  at any time, so its safety does not depend on when that is. How long the code
  waits (it reads `tv_nsec` only, and drops what it rounds off at every turn)
  depends on the lengths of the turns in nanoseconds.
- XInput's list on Windows, which goes through the same steps as DirectInput's;
  the failures of DirectInput other than
  those of requests; the timers of both loops; what Windows does to a
  mutex whose owner ended.
- The move of a matched node on Windows happens after `mutex_enum` is released,
  and is one step with the match: no call has an id of those nodes yet.
- The build scripts.

## Plan

1. `EvdevRegistry`: the lifetime of ids, with the lists as pointers: registering
   again after removal, a node whose registration failed, files reused.
2. The device lists of Windows and macOS as abstract sequences, which the
   pointers are shown to implement: the chains of the invariants are the
   refinement mapping.
