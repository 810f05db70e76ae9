---------------------------- MODULE EvdevHotplug ----------------------------
(***************************************************************************)
(* How the evdev backend learns of devices and lists them.                 *)
(*                                                                         *)
(* start puts an inotify watch on /dev/input, starts the device thread and *)
(* then lists the directory itself, so two threads report devices.  The    *)
(* device thread handles CREATE, ATTRIB and DELETE events; a device it may *)
(* not open yet (udev sets permissions after the node appears) waits in    *)
(* devices_pending until the next ATTRIB or the retry timer.               *)
(*                                                                         *)
(* Every section under mutex_main is one step: no callback runs in them.   *)
(***************************************************************************)
EXTENDS Naturals, Sequences, SequencesExt, FiniteSets

CONSTANTS
    Path,            \* files of /dev/input
    Starter,         \* the thread in start, listing the directory
    DeviceThread,    \* runs callback_devices
    Setups,          \* the circumstances to start from, see Setup
    MaxEvents        \* bound on what the kernel and udev do

Worker == {Starter, DeviceThread}

ASSUME WorkerAssumption == Starter # DeviceThread

\* The paths that are ever used, those with a device before start, and whether
\* the application registers every device it is told of.
Setup == [used : SUBSET Path, initial : SUBSET Path, registersAll : BOOLEAN]

ASSUME SetupAssumption ==
    Setups \subseteq {s \in Setup : s.initial \subseteq s.used}
ASSUME BoundAssumption == MaxEvents \in Nat
ASSUME PathAssumption == Path # {}

VARIABLES
    setup,            \* the circumstances, which never change
    node,             \* what is at each path: nothing, or a device
    plug,             \* history: how many devices each path has had
    events,           \* history: number of kernel events so far
    queue,            \* inotify events nobody has read
    batch,            \* events of the last read not handled yet
    timeout,          \* is the retry timer armed
    devices_pending,  \* paths that could not be opened
    devices_plugged,  \* the listed devices, last one first
    input_loop_fds,   \* the registered devices, first one first
    lastId,           \* history: number of ids given out
    retired,          \* history: ids register_del was called for
    kept,             \* history: ids still registered after their unplug callback
    missed,           \* history: paths whose present device an event passed over
    pc,               \* where each worker is
    job,              \* the device each worker is dealing with
    todo,             \* paths the starter has still to list
    pending           \* was the path of the ATTRIB event pending already

kernel == <<setup, node, plug, events>>
history == <<lastId, missed>>
registry == <<devices_plugged, input_loop_fds, retired, kept>>
retry == <<timeout, devices_pending>>
vars == <<kernel, queue, batch, retry, registry, history, pc, job, todo,
          pending>>

NoId == 0

NoJob == [path |-> CHOOSE p \in Path : TRUE, via |-> "list",
          plug |-> 0, id |-> NoId, registered |-> FALSE]

Idle(t) == IF t = Starter THEN "list" ELSE "poll"

Init ==
    /\ setup \in Setups
    /\ node \in [Path -> {"absent", "locked", "open"}]
    /\ setup.initial = {p \in Path : node[p] # "absent"}
    /\ plug = [p \in Path |-> IF p \in setup.initial THEN 1 ELSE 0]
    /\ events = 0
    /\ queue = <<>>
    /\ batch = <<>>
    /\ timeout = FALSE
    /\ devices_pending = <<>>
    /\ devices_plugged = <<>>
    /\ input_loop_fds = <<>>
    /\ lastId = 0
    /\ retired = {}
    /\ kept = {}
    /\ missed = {}
    /\ pc = [t \in Worker |-> Idle(t)]
    /\ job = [t \in Worker |-> NoJob]
    /\ todo = setup.used
    /\ pending = FALSE

-----------------------------------------------------------------------------
(* The kernel, and udev                                                    *)

Notify(mask, p) ==
    /\ events < MaxEvents
    /\ events' = events + 1
    /\ queue' = Append(queue, [mask |-> mask, path |-> p])
    /\ UNCHANGED <<setup, batch, retry, registry, lastId, pc, job, todo,
                   pending>>

\* The device that is plugged in now is listed.
Listed(p) ==
    \E i \in DOMAIN devices_plugged :
      devices_plugged[i].path = p /\ devices_plugged[i].plug = plug[p]

Plug(p) ==
    /\ node[p] = "absent"
    /\ node' = [node EXCEPT ![p] = "locked"]
    /\ plug' = [plug EXCEPT ![p] = @ + 1]
    /\ missed' = missed \ {p}
    /\ Notify("create", p)

\* udev sets owner, mode and ACL one after the other.
Permit(p) ==
    /\ node[p] # "absent"
    /\ \E state \in {node[p], "open"} : node' = [node EXCEPT ![p] = state]
    /\ UNCHANGED <<plug, missed>>
    /\ Notify("attrib", p)

Unplug(p) ==
    /\ node[p] # "absent"
    /\ node' = [node EXCEPT ![p] = "absent"]
    /\ UNCHANGED <<plug, missed>>
    /\ Notify("delete", p)

-----------------------------------------------------------------------------
(* run_device_callback, on either worker                                   *)

Goto(t, l) == pc' = [pc EXCEPT ![t] = l]

Begin(t, p, via) ==
    /\ Goto(t, "open")
    /\ job' = [job EXCEPT ![t] = [NoJob EXCEPT !.path = p, !.via = via]]

\* A list without its first entry for an id.
Without(list, id) ==
    LET here == {i \in DOMAIN list : list[i].id = id}
    IN IF here = {} THEN list
       ELSE RemoveAt(list, CHOOSE i \in here : \A j \in here : i <= j)

ListsId(id) == \E i \in DOMAIN devices_plugged : devices_plugged[i].id = id

SetRegistered(id, b) ==
    devices_plugged' =
      [i \in DOMAIN devices_plugged |->
         IF devices_plugged[i].id = id
           THEN [devices_plugged[i] EXCEPT !.registered = b]
           ELSE devices_plugged[i]]

\* register_add opens the path of the entry again.
Register(id, p) ==
    /\ \E i \in DOMAIN devices_plugged :
         /\ devices_plugged[i].id = id
         /\ ~devices_plugged[i].registered
    /\ node[p] = "open"
    /\ SetRegistered(id, TRUE)
    /\ input_loop_fds' = Append(input_loop_fds, [id |-> id, path |-> p])
    /\ UNCHANGED <<retired, kept>>

\* register_del unlinks the node and keeps the entry.
Unregister(id) ==
    /\ SetRegistered(id, FALSE)
    /\ input_loop_fds' = Without(input_loop_fds, id)
    /\ retired' = retired \cup {id}
    /\ UNCHANGED kept

Registered(id) == \E i \in DOMAIN input_loop_fds : input_loop_fds[i].id = id

\* An outcome is "ok", "open" (an open failed, the device's own or that of a
\* register_add in the callback) or "other", another error.
\* The device thread answers an ATTRIB event by keeping its path pending when
\* the open failed, and by forgetting it when the device was listed.
Answers(t, outcome) ==
    /\ t = DeviceThread
    /\ job[t].via = "attrib"
    /\ outcome # "other"

\* Mutant: add_pending does not look for the path first.
PendingAfterUnchecked(t, outcome) ==
    IF Answers(t, outcome) /\ outcome = "open"
      THEN Append(devices_pending, job[t].path)
      ELSE devices_pending

PendingAfter(t, outcome) ==
    LET i == CHOOSE k \in DOMAIN devices_pending :
               devices_pending[k] = job[t].path
    IN
    IF Answers(t, outcome) /\ outcome = "open" /\ ~pending
      THEN Append(devices_pending, job[t].path)
    ELSE IF Answers(t, outcome) /\ outcome = "ok" /\ pending
      THEN Front([devices_pending EXCEPT ![i] = Last(devices_pending)])
    ELSE devices_pending

\* run_device_callback is over.  The starter ignores errors.  The device
\* thread ends on any error but that of an open.
Finish(t, outcome) ==
    /\ job' = [job EXCEPT ![t] = NoJob]
    /\ Goto(t, IF t = Starter THEN "list"
               ELSE IF outcome = "other" THEN "exit"
               ELSE IF job[t].via = "retry" THEN "retry" ELSE "handle")
    /\ devices_pending' = PendingAfter(t, outcome)
    /\ timeout' = (timeout \/ (Answers(t, outcome) /\ outcome = "open"))
    /\ pending' = (pending /\ ~Answers(t, outcome))

Open(t) ==
    /\ pc[t] = "open"
    /\ IF node[job[t].path] = "open"
         THEN /\ Goto(t, "probe")
              /\ job' = [job EXCEPT ![t].plug = plug[job[t].path]]
              /\ UNCHANGED <<retry, pending>>
         ELSE Finish(t, "open")
    /\ UNCHANGED <<kernel, queue, batch, registry, history, todo>>

\* libevdev reads the device, which may be gone; the id is allocated.
Probe(t) ==
    /\ pc[t] = "probe"
    /\ IF node[job[t].path] = "open" /\ plug[job[t].path] = job[t].plug
         THEN /\ Goto(t, "push")
              /\ lastId' = lastId + 1
              /\ job' = [job EXCEPT ![t].id = lastId + 1]
              /\ UNCHANGED <<retry, pending>>
         ELSE Finish(t, "other") /\ UNCHANGED lastId
    /\ UNCHANGED <<kernel, queue, batch, registry, missed, todo>>

\* Mutant: the entry is linked before its id is set.
PushDeviceUnset(t) ==
    /\ pc[t] = "push"
    /\ devices_plugged' =
         <<[id |-> NoId, path |-> job[t].path, plug |-> job[t].plug,
            registered |-> FALSE]>> \o devices_plugged
    /\ Goto(t, "report")
    /\ UNCHANGED <<kernel, queue, batch, retry, input_loop_fds, retired,
                   kept, history, job, todo, pending>>

PushDevice(t) ==
    /\ pc[t] = "push"
    /\ devices_plugged' =
         <<[id |-> job[t].id, path |-> job[t].path, plug |-> job[t].plug,
            registered |-> FALSE]>> \o devices_plugged
    /\ Goto(t, "report")
    /\ UNCHANGED <<kernel, queue, batch, retry, input_loop_fds, retired,
                   kept, history, job, todo, pending>>

\* The application is told.  It ignores the device, or registers it, which
\* opens the path again; an error of register_add is the callback's error.
Report(t) ==
    /\ pc[t] = "report"
    /\ \/ /\ ~setup.registersAll
          /\ UNCHANGED registry
          /\ Finish(t, "ok")
       \/ /\ Register(job[t].id, job[t].path)
          /\ Finish(t, "ok")
       \/ /\ node[job[t].path] # "open"
          /\ UNCHANGED registry
          /\ \/ Finish(t, "open")
             \/ Finish(t, "other")    \* unplugged after the open
    /\ UNCHANGED <<kernel, queue, batch, history, todo>>

-----------------------------------------------------------------------------
(* devices_init_list                                                       *)

\* readdir names each file once, if it is there.
List(p) ==
    /\ pc[Starter] = "list"
    /\ p \in todo
    /\ node[p] # "absent"
    /\ todo' = todo \ {p}
    /\ Begin(Starter, p, "list")
    /\ UNCHANGED <<kernel, queue, batch, retry, registry, history, pending>>

Started ==
    /\ pc[Starter] = "list"
    /\ \A p \in todo : node[p] = "absent"
    /\ todo' = {}
    /\ Goto(Starter, "started")
    /\ UNCHANGED <<kernel, queue, batch, retry, registry, history, job,
                   pending>>

-----------------------------------------------------------------------------
(* callback_devices and device_handle                                      *)

PollEvents ==
    /\ pc[DeviceThread] = "poll"
    /\ queue # <<>>
    /\ batch' = queue
    /\ queue' = <<>>
    /\ Goto(DeviceThread, "handle")
    /\ UNCHANGED <<kernel, retry, registry, history, job, todo, pending>>

Handled ==
    /\ pc[DeviceThread] = "handle"
    /\ batch = <<>>
    /\ Goto(DeviceThread, "poll")
    /\ UNCHANGED <<kernel, queue, batch, retry, registry, history, job, todo,
                   pending>>

NextEvent(mask) ==
    /\ pc[DeviceThread] = "handle"
    /\ batch # <<>>
    /\ Head(batch).mask = mask
    /\ batch' = Tail(batch)
    /\ UNCHANGED <<kernel, queue, retry, registry, lastId, todo>>

HandleCreate ==
    /\ NextEvent("create")
    /\ Begin(DeviceThread, Head(batch).path, "create")
    /\ UNCHANGED <<missed, pending>>

Nodes(p) == {i \in DOMAIN input_loop_fds : input_loop_fds[i].path = p}

\* Mutant: the path is not tried when it is pending, the retry will do it.
HandleAttribPending ==
    /\ NextEvent("attrib")
    /\ LET p == Head(batch).path IN
         IF Nodes(p) # {} \/ \E k \in DOMAIN devices_pending :
                               devices_pending[k] = p
           THEN UNCHANGED <<pc, job, missed, pending>>
           ELSE /\ Begin(DeviceThread, p, "attrib")
                /\ pending' = FALSE
                /\ UNCHANGED missed

\* Only registered devices are known; any other one is reported again.  A
\* device is passed over when a node registered before has its path.
HandleAttrib ==
    /\ NextEvent("attrib")
    /\ LET p == Head(batch).path IN
         IF Nodes(p) # {}
           THEN /\ missed' = missed \cup IF Listed(p) THEN {} ELSE {p}
                /\ UNCHANGED <<pc, job, pending>>
           ELSE /\ Begin(DeviceThread, p, "attrib")
                /\ pending' = (\E k \in DOMAIN devices_pending :
                                 devices_pending[k] = p)
                /\ UNCHANGED missed

\* The id of the first registered node of that path.
FirstId(p) ==
    IF Nodes(p) = {} THEN NoId
    ELSE input_loop_fds[CHOOSE i \in Nodes(p) : \A j \in Nodes(p) : i <= j].id

HandleDeleteOf(p) ==
    /\ Goto(DeviceThread, "unlist")
    /\ job' = [job EXCEPT ![DeviceThread] =
                 [NoJob EXCEPT !.path = p, !.via = "delete",
                               !.id = FirstId(p)]]

\* Mutant: devices that are not registered are not skipped.
HandleDeleteUnchecked ==
    /\ NextEvent("delete")
    /\ HandleDeleteOf(Head(batch).path)
    /\ UNCHANGED <<missed, pending>>

\* An unregistered device is skipped: it stays listed.
HandleDelete ==
    /\ NextEvent("delete")
    /\ IF FirstId(Head(batch).path) = NoId
         THEN UNCHANGED <<pc, job>>
         ELSE HandleDeleteOf(Head(batch).path)
    /\ UNCHANGED <<missed, pending>>

\* Mutant: every entry of the path goes.
UnlistPath ==
    /\ pc[DeviceThread] = "unlist"
    /\ LET p == job[DeviceThread].path
           here == {i \in DOMAIN devices_plugged :
                      devices_plugged[i].id = job[DeviceThread].id}
       IN
       /\ devices_plugged' =
            SelectSeq(devices_plugged, LAMBDA e : e.path # p)
       /\ job' = [job EXCEPT ![DeviceThread].registered =
                    \E i \in here : devices_plugged[i].registered]
    /\ Goto(DeviceThread, "unreport")
    /\ UNCHANGED <<kernel, queue, batch, retry, input_loop_fds, retired,
                   kept, history, todo, pending>>

\* Take the entry out of the list; the callback gets a copy of it.  Without
\* an entry the copy is uninitialized memory, and what the program does from
\* the callback on is undefined.  The event may be about an earlier device of
\* the path than the one whose entry it takes.
Unlist ==
    /\ pc[DeviceThread] = "unlist"
    /\ LET id == job[DeviceThread].id
           here == {i \in DOMAIN devices_plugged : devices_plugged[i].id = id}
           present == \E i \in here :
             devices_plugged[i].plug = plug[devices_plugged[i].path]
               /\ node[devices_plugged[i].path] # "absent"
       IN
       /\ devices_plugged' = Without(devices_plugged, id)
       /\ job' = [job EXCEPT ![DeviceThread].registered =
                    \E i \in here : devices_plugged[i].registered]
       /\ missed' = missed \cup
            IF present THEN {job[DeviceThread].path} ELSE {}
       /\ Goto(DeviceThread, IF here = {} THEN "undefined" ELSE "unreport")
    /\ UNCHANGED <<kernel, queue, batch, retry, input_loop_fds, retired,
                   kept, lastId, todo, pending>>

\* The application is told that a device has gone.  It unregisters it, which
\* fails when it just has on its own, or leaves the node registered.
Unreport ==
    /\ pc[DeviceThread] = "unreport"
    /\ LET id == job[DeviceThread].id IN
         \/ /\ job[DeviceThread].registered
            /\ IF Registered(id)
                 THEN Unregister(id) /\ Finish(DeviceThread, "ok")
                 ELSE Finish(DeviceThread, "other") /\ UNCHANGED registry
         \/ /\ ~(setup.registersAll /\ job[DeviceThread].registered)
            /\ kept' = kept \cup IF Registered(id) THEN {id} ELSE {}
            /\ UNCHANGED <<devices_plugged, input_loop_fds, retired>>
            /\ Finish(DeviceThread, "ok")
    /\ UNCHANGED <<kernel, queue, batch, history, todo>>

\* The timer runs out: every pending path gets one more try.
PollTimeout ==
    /\ pc[DeviceThread] = "poll"
    /\ timeout
    /\ timeout' = FALSE
    /\ Goto(DeviceThread, "retry")
    /\ UNCHANGED <<kernel, queue, batch, devices_pending, registry, history,
                   job, todo, pending>>

\* Each path leaves devices_pending as it is retried, and stays out of it.
RetryNext ==
    /\ pc[DeviceThread] = "retry"
    /\ devices_pending # <<>>
    /\ Begin(DeviceThread, Head(devices_pending), "retry")
    /\ devices_pending' = Tail(devices_pending)
    /\ UNCHANGED <<kernel, queue, batch, timeout, registry, history, todo,
                   pending>>

RetryEnd ==
    /\ pc[DeviceThread] = "retry"
    /\ devices_pending = <<>>
    /\ Goto(DeviceThread, "poll")
    /\ UNCHANGED <<kernel, queue, batch, retry, registry, history, job, todo,
                   pending>>

-----------------------------------------------------------------------------
(* Calls the application makes outside of its callbacks.  An id is not     *)
(* registered again once register_del was called for it.                   *)

AppRegister(i) ==
    /\ ~setup.registersAll
    /\ devices_plugged[i].id \notin retired
    /\ \A t \in Worker :
         pc[t] = "report" => job[t].id # devices_plugged[i].id
    /\ Register(devices_plugged[i].id, devices_plugged[i].path)
    /\ UNCHANGED <<kernel, queue, batch, retry, history, pc, job, todo,
                   pending>>

AppUnregister(i) ==
    /\ ~setup.registersAll
    /\ Unregister(input_loop_fds[i].id)
    /\ UNCHANGED <<kernel, queue, batch, retry, history, pc, job, todo,
                   pending>>

Kernel == \E p \in setup.used : Plug(p) \/ Permit(p) \/ Unplug(p)

RunCallback(t) == Open(t) \/ Probe(t) \/ PushDevice(t) \/ Report(t)

Listing == Started \/ \E p \in Path : List(p)

Device ==
    \/ PollEvents \/ Handled
    \/ HandleCreate \/ HandleAttrib \/ HandleDelete
    \/ Unlist \/ Unreport
    \/ PollTimeout \/ RetryNext \/ RetryEnd

App ==
    \/ \E i \in DOMAIN devices_plugged : AppRegister(i)
    \/ \E i \in DOMAIN input_loop_fds : AppUnregister(i)

Next ==
    \/ Kernel
    \/ \E t \in Worker : RunCallback(t)
    \/ Listing
    \/ Device
    \/ App

Spec == Init /\ [][Next]_vars

\* Both workers go on as long as they can; the kernel and the application
\* need not do anything.
Fairness ==
    /\ WF_vars(RunCallback(Starter) \/ Listing)
    /\ WF_vars(RunCallback(DeviceThread) \/ Device)

FairSpec == Spec /\ Fairness

-----------------------------------------------------------------------------
(* Properties                                                              *)

Event == [mask : {"create", "attrib", "delete"}, path : Path]

Id == NoId .. lastId

TypeOK ==
    /\ node \in [Path -> {"absent", "locked", "open"}]
    /\ plug \in [Path -> Nat]
    /\ events \in 0 .. MaxEvents
    /\ queue \in Seq(Event)
    /\ batch \in Seq(Event)
    /\ timeout \in BOOLEAN
    /\ devices_pending \in Seq(Path)
    /\ devices_plugged \in
         Seq([id : Id \ {NoId}, path : Path, plug : Nat,
              registered : BOOLEAN])
    /\ input_loop_fds \in Seq([id : Id \ {NoId}, path : Path])
    /\ lastId \in Nat
    /\ retired \subseteq Id
    /\ kept \subseteq Id
    /\ missed \subseteq Path
    /\ pc \in [Worker -> {"list", "started", "poll", "handle", "open", "probe",
                         "push", "report", "unlist", "unreport", "retry",
                         "exit", "undefined"}]
    /\ job \in [Worker -> [path : Path, plug : Nat, id : Id,
                           via : {"list", "create", "attrib", "delete", "retry"},
                           registered : BOOLEAN]]
    /\ todo \subseteq Path
    /\ pending \in BOOLEAN

\* A path waits for a retry once, and the timer that retries it is armed.
RetryArmed ==
    /\ \A i, j \in DOMAIN devices_pending :
         devices_pending[i] = devices_pending[j] => i = j
    /\ devices_pending # <<>> /\ pc[DeviceThread] = "poll" => timeout

\* The unplug branch of run_device_callback finds the id it looks for, except
\* for a node that an earlier unplug callback left registered; it hands
\* uninitialized memory to the application and frees through a null pointer
\* otherwise (helpers.c:274-360).
UnplugFindsEntry ==
    pc[DeviceThread] = "unlist" =>
      ListsId(job[DeviceThread].id) \/ job[DeviceThread].id \in kept

\* Every registered device is listed, or its unplug callback is running, or
\* has run and left it registered: nothing else takes an entry whose node stays.
NodesListed ==
    \A i \in DOMAIN input_loop_fds :
      \/ ListsId(input_loop_fds[i].id)
      \/ input_loop_fds[i].id \in kept
      \/ /\ pc[DeviceThread] = "unreport"
         /\ job[DeviceThread].id = input_loop_fds[i].id

\* A device that stays plugged and readable is listed for good, as long as the
\* device thread goes on, unless an event passed it over: its ATTRIB because a
\* node registered before has the path (helpers.c:571), or the DELETE of an
\* earlier device, which took its entry (helpers.c:648).
PluggedIsListed ==
    \A p \in Path :
      <>[](node[p] = "open") =>
        \/ <>[]Listed(p)
        \/ <>[](p \in missed)
        \/ <>(pc[DeviceThread] \in {"exit", "undefined"})

Quiet ==
    /\ pc[Starter] = "started"
    /\ pc[DeviceThread] = "poll"
    /\ queue = <<>>

\* Once everything is handled, a re-enumeration lists devices that are plugged
\* in (punknobs.h:424, "re-list all plugged-in devices").
ListedIsPlugged ==
    Quiet =>
      \A i \in DOMAIN devices_plugged :
        LET e == devices_plugged[i]
        IN  node[e.path] # "absent" /\ e.plug = plug[e.path]
=============================================================================
