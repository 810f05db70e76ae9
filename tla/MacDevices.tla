----------------------------- MODULE MacDevices -----------------------------
(***************************************************************************)
(* The macOS backend: the thread that spins the run loop, how it starts    *)
(* and stops, and the list of devices it keeps.                            *)
(*                                                                         *)
(* PunknobsThread starts a thread that opens a device manager, confirms    *)
(* under a condition that it runs, and spins a run loop, from which IOKit  *)
(* calls back.  To stop it, its owner posts a message to the run loop and  *)
(* waits on the condition until the system announces the thread's end.     *)
(*                                                                         *)
(* Nothing protects the list of devices.  The run loop's thread links and  *)
(* frees nodes, and any thread walks through them.  The list is modelled   *)
(* by its pointers, and an id is the address of a node.                    *)
(***************************************************************************)
EXTENDS Naturals, Sequences, FiniteSets, PointerLists

CONSTANTS
    Dev,        \* devices, by registry id; one plugged in again is another
    Owner,      \* the thread that starts, stops and cleans
    Loop,       \* the thread of the run loop
    Answers,    \* what the registry may say of a device that has gone
    Ops,        \* calls the application makes
    Faults,     \* may callbacks and allocations fail
    MaxNodes,   \* bound on the nodes ever allocated
    MaxStarts,  \* bound on the calls of start
    MaxCalls    \* bound on the other calls

Thread == {Owner, Loop}
Node == 1 .. MaxNodes
Null == 0

ASSUME MacAssumption ==
    /\ Dev # {}
    /\ Owner # Loop
    /\ Answers \subseteq {"id", "failed", "null"}
    /\ Ops \subseteq {"register_add", "register_del", "reenumerate", "stop"}
    /\ Faults \in BOOLEAN
    /\ MaxNodes \in Nat
    /\ MaxStarts \in Nat
    /\ MaxCalls \in Nat

VARIABLES
    entry,       \* what the registry says of each device
    matching,    \* devices the manager has still to announce
    removal,     \* devices it has still to announce as removed
    hooked,      \* devices whose inputs are called back
    allocated,   \* number of nodes allocated so far
    dev,         \* device of each node
    session,     \* history: the start each node dates from
    next,        \* next of each node
    devices,     \* head of the list
    registered,  \* nodes with the flag set
    thread,      \* is there a thread
    running,     \* the flag of the condition
    request,     \* stopHelper waits to be performed on the run loop
    observed,    \* stop is told of the thread's end
    stopping,    \* threads that wait in stop
    pc,          \* where each thread is
    cur, prev,   \* device_node and device_prev of the unplugging branch
    walk,        \* node where each thread's re-enumeration is
    told,        \* history: ids the application has and may use
    freed,       \* history: nodes freed
    stray,       \* history: uses of freed nodes
    dropped,     \* history: devices a notification of which was cut short
    starts, calls

registry == <<entry, matching, removal>>
heap == <<allocated, dev, session, next, freed>>
list == <<devices, registered, hooked>>
handshake == <<thread, running, request, observed, stopping>>
counts == <<starts, calls>>
vars == <<registry, heap, list, handshake, pc, cur, prev, walk, told, stray,
          dropped, counts>>

Init ==
    /\ entry \in [Dev -> {"new", "present"}]
    /\ matching = {}
    /\ removal = {}
    /\ hooked = {}
    /\ allocated = 0
    /\ dev = [n \in Node |-> CHOOSE d \in Dev : TRUE]
    /\ session = [n \in Node |-> 0]
    /\ next = [n \in Node |-> Null]
    /\ devices = Null
    /\ registered = {}
    /\ thread = FALSE
    /\ running = FALSE
    /\ request = FALSE
    /\ observed = FALSE
    /\ stopping = {}
    /\ pc = [t \in Thread |-> IF t = Owner THEN "idle" ELSE "none"]
    /\ cur = Null
    /\ prev = Null
    /\ walk = [t \in Thread |-> Null]
    /\ told = {}
    /\ freed = {}
    /\ stray = {}
    /\ dropped = {}
    /\ starts = 0
    /\ calls = 0

Goto(t, l) == pc' = [pc EXCEPT ![t] = l]

\* The list from node n on, as a sequence.
From(n) == Linked(next, n, MaxNodes)

Nodes(n) == LET s == From(n) IN {s[k] : k \in DOMAIN s}

\* Thread t uses nodes, found on the list or given by the application.  The
\* memory of a freed node is taken to be as it was.
Touch(t, how, nodes) ==
    stray' = IF nodes \cap freed = {} THEN stray ELSE stray \cup {<<t, how>>}

-----------------------------------------------------------------------------
(* The system: devices come and go, and the manager announces it            *)

Present == {d \in Dev : entry[d] = "present"}
Gone == {d \in Dev : entry[d] \in {"id", "failed", "null"}}

\* A manager announces what it saw while it was open.
Open == pc[Loop] \notin {"none", "setup", "exiting"}

Plug(d) ==
    /\ entry[d] = "new"
    /\ entry' = [entry EXCEPT ![d] = "present"]
    /\ matching' = IF Open THEN matching \cup {d} ELSE matching
    /\ UNCHANGED <<removal, heap, list, handshake, pc, cur, prev, walk, told,
                   stray, dropped, counts>>

Unplug(d) ==
    /\ d \in Present
    /\ \E answer \in Answers : entry' = [entry EXCEPT ![d] = answer]
    /\ removal' = IF Open THEN removal \cup {d} ELSE removal
    /\ UNCHANGED <<matching, heap, list, handshake, pc, cur, prev, walk, told,
                   stray, dropped, counts>>

\* The entry of a device that has gone is removed from the registry.
Expire(d) ==
    /\ entry[d] = "id"
    /\ "failed" \in Answers
    /\ entry' = [entry EXCEPT ![d] = "failed"]
    /\ UNCHANGED <<matching, removal, heap, list, handshake, pc, cur, prev,
                   walk, told, stray, dropped, counts>>

-----------------------------------------------------------------------------
(* PunknobsThread                                                          *)

\* The owner is in no call, or in a callback of its own re-enumeration.
Owning == pc[Owner] = "idle" /\ Owner \notin stopping

Start ==
    /\ Owning
    /\ walk[Owner] = Null
    /\ ~thread
    /\ starts < MaxStarts
    /\ starts' = starts + 1
    /\ thread' = TRUE
    /\ pc' = [pc EXCEPT ![Owner] = "starting", ![Loop] = "setup"]
    /\ UNCHANGED <<registry, heap, list, running, request, observed, stopping,
                   cur, prev, walk, told, stray, dropped, calls>>

\* An open manager announces every device that is there.
LoopOpen ==
    /\ pc[Loop] = "setup"
    /\ matching' = Present
    /\ Goto(Loop, "opened")
    /\ UNCHANGED <<entry, removal, heap, list, handshake, cur, prev, walk,
                   told, stray, dropped, counts>>

LoopConfirm ==
    /\ pc[Loop] = "opened"
    /\ running' = TRUE
    /\ Goto(Loop, "run")
    /\ UNCHANGED <<registry, heap, list, thread, request, observed, stopping,
                   cur, prev, walk, told, stray, dropped, counts>>

StartReturn ==
    /\ pc[Owner] = "starting"
    /\ running
    /\ Goto(Owner, "idle")
    /\ UNCHANGED <<registry, heap, list, handshake, cur, prev, walk, told,
                   stray, dropped, counts>>

\* The run loop's thread runs the application's code.
CalledBack == pc[Loop] \in {"plugged", "unplugged", "swept", "inputs"}

\* Thread t may call the library.
Calling(t) ==
    /\ calls < MaxCalls
    /\ t \notin stopping
    /\ IF t = Owner THEN pc[Owner] = "idle" ELSE CalledBack

\* Observe the thread, then, under the lock, post the message and wait.
Stop(t) ==
    /\ "stop" \in Ops
    /\ Calling(t)
    /\ thread
    /\ observed' = TRUE
    /\ request' = TRUE
    /\ stopping' = stopping \cup {t}
    /\ calls' = calls + 1
    /\ UNCHANGED <<registry, heap, list, thread, running, pc, cur, prev, walk,
                   told, stray, dropped, starts>>

\* Mutant: stopHelper says that the thread has ended.
LoopStopEarly ==
    /\ pc[Loop] = "run"
    /\ request
    /\ request' = FALSE
    /\ running' = FALSE
    /\ Goto(Loop, "ending")
    /\ UNCHANGED <<registry, heap, list, thread, observed, stopping, cur, prev,
                   walk, told, stray, dropped, counts>>

\* The run loop performs stopHelper between two callbacks, and ends.
LoopStop ==
    /\ pc[Loop] = "run"
    /\ request
    /\ request' = FALSE
    /\ Goto(Loop, "ending")
    /\ UNCHANGED <<registry, heap, list, thread, running, observed, stopping,
                   cur, prev, walk, told, stray, dropped, counts>>

LoopClose ==
    /\ pc[Loop] = "ending"
    /\ matching' = {}
    /\ removal' = {}
    /\ hooked' = {}
    /\ Goto(Loop, "exiting")
    /\ UNCHANGED <<entry, heap, devices, registered, handshake, cur, prev,
                   walk, told, stray, dropped, counts>>

\* Mutant: the observer signals the condition and leaves the flag.
LoopExitKeeps ==
    /\ pc[Loop] = "exiting"
    /\ Goto(Loop, "none")
    /\ UNCHANGED <<registry, heap, list, handshake, cur, prev, walk, told,
                   stray, dropped, counts>>

\* The system announces the end of the thread, to whom observes it.
LoopExit ==
    /\ pc[Loop] = "exiting"
    /\ running' = (running /\ ~observed)
    /\ Goto(Loop, "none")
    /\ UNCHANGED <<registry, heap, list, thread, request, observed, stopping,
                   cur, prev, walk, told, stray, dropped, counts>>

StopReturn(t) ==
    /\ t \in stopping
    /\ ~running
    /\ thread' = FALSE
    /\ observed' = FALSE
    /\ stopping' = stopping \ {t}
    /\ UNCHANGED <<registry, heap, list, running, request, pc, cur, prev,
                   walk, told, stray, dropped, counts>>

\* The thread object is released, which stops nothing: while its thread runs,
\* that one holds a reference, and dealloc is not called.
Clean ==
    /\ Owning
    /\ walk[Owner] = Null
    /\ freed' = freed \cup Nodes(devices)
    /\ devices' = Null
    /\ Goto(Owner, "cleaned")
    /\ UNCHANGED <<registry, allocated, dev, session, next, registered, hooked,
                   handshake, cur, prev, walk, told, stray, dropped, counts>>

-----------------------------------------------------------------------------
(* macos_helper_device                                                     *)

\* The run loop takes a notification.  That of a removal follows that of the
\* match.
Announced(d) == pc[Loop] = "run" /\ d \in matching
Departed(d) == pc[Loop] = "run" /\ d \in removal \ matching

\* Its names cannot be read, or memory is short.
Drop(d) ==
    /\ Faults
    /\ \/ Announced(d) /\ matching' = matching \ {d} /\ UNCHANGED removal
       \/ Departed(d) /\ removal' = removal \ {d} /\ UNCHANGED matching
    /\ dropped' = dropped \cup {d}
    /\ UNCHANGED <<entry, heap, list, handshake, pc, cur, prev, walk, told,
                   stray, counts>>

\* Allocate a node, filled in but not linked.
Allocate(d) ==
    /\ Announced(d)
    /\ allocated < MaxNodes
    /\ allocated' = allocated + 1
    /\ dev' = [dev EXCEPT ![allocated'] = d]
    /\ session' = [session EXCEPT ![allocated'] = starts]
    /\ matching' = matching \ {d}
    /\ told' = told \cup {allocated'}
    /\ Goto(Loop, "plugged")
    /\ UNCHANGED <<entry, removal, freed, registered, hooked, handshake, cur,
                   prev, walk, stray, dropped, counts>>

\* Mutant: the node goes to the end of the list.
MatchedLast(d) ==
    /\ Allocate(d)
    /\ IF devices = Null
         THEN devices' = allocated' /\ UNCHANGED next
         ELSE /\ next' = [next EXCEPT ![From(devices)[Len(From(devices))]]
                                        = allocated']
              /\ UNCHANGED devices

\* A new device: put its node in front, and run the callback.
Matched(d) ==
    /\ Allocate(d)
    /\ next' = [next EXCEPT ![allocated'] = devices]
    /\ devices' = allocated'

\* An error of the callback changes nothing.
PluggedReturn ==
    /\ pc[Loop] = "plugged"
    /\ Loop \notin stopping
    /\ walk[Loop] = Null
    /\ Goto(Loop, "run")
    /\ UNCHANGED <<registry, heap, list, handshake, cur, prev, walk, told,
                   stray, dropped, counts>>

\* Unlink a node given the one before it, or itself if it is the first one,
\* and free it.
Unlink(n, p) ==
    /\ IF p = n
         THEN devices' = next[n] /\ UNCHANGED next
         ELSE next' = [next EXCEPT ![p] = next[n]] /\ UNCHANGED devices
    /\ freed' = freed \cup {n}
    /\ UNCHANGED <<allocated, dev, session, registered, hooked>>

\* Where the search for a device ends: at its first node, or at a node whose
\* device has no service any more.
Ends(d) ==
    LET s == From(devices)
        stops == {k \in DOMAIN s : dev[s[k]] = d \/ entry[dev[s[k]]] = "null"}
    IN IF stops = {} THEN 0 ELSE CHOOSE k \in stops : \A l \in stops : k <= l

\* Mutant: the node is freed and its callback is not run.
RemovedSilently(d) ==
    /\ Departed(d)
    /\ entry[d] = "id"
    /\ removal' = removal \ {d}
    /\ LET s == From(devices)
           k == Ends(d)
       IN
       /\ Touch(Loop, "list", Nodes(devices))
       /\ IF k > 0 /\ dev[s[k]] = d
            THEN /\ Unlink(s[k], IF k = 1 THEN s[k] ELSE s[k - 1])
                 /\ UNCHANGED dropped
            ELSE /\ dropped' = IF k > 0 THEN dropped \cup {d} ELSE dropped
                 /\ UNCHANGED <<heap, list>>
    /\ UNCHANGED <<entry, matching, handshake, cur, pc, prev, walk, told,
                   counts>>

\* A device has gone and the registry knows it still: its node is the first one
\* with the same id.
Removed(d) ==
    /\ Departed(d)
    /\ entry[d] = "id"
    /\ removal' = removal \ {d}
    /\ LET s == From(devices)
           k == Ends(d)
       IN
       /\ Touch(Loop, "list", Nodes(devices))
       /\ IF k > 0 /\ dev[s[k]] = d
            THEN /\ Unlink(s[k], IF k = 1 THEN s[k] ELSE s[k - 1])
                 /\ cur' = s[k]
                 /\ Goto(Loop, "unplugged")
                 /\ UNCHANGED dropped
            ELSE /\ dropped' = IF k > 0 THEN dropped \cup {d} ELSE dropped
                 /\ UNCHANGED <<heap, list, cur, pc>>
    /\ UNCHANGED <<entry, matching, handshake, prev, walk, told, counts>>

\* The device has no service any more.
RemovedNull(d) ==
    /\ Departed(d)
    /\ entry[d] = "null"
    /\ removal' = removal \ {d}
    /\ dropped' = dropped \cup {d}
    /\ UNCHANGED <<entry, matching, heap, list, handshake, pc, cur, prev, walk,
                   told, stray, counts>>

\* The application is done with an id when the callback that reports its
\* device as unplugged returns, whatever it returns.
UnpluggedReturn ==
    /\ pc[Loop] = "unplugged"
    /\ Loop \notin stopping
    /\ walk[Loop] = Null
    /\ told' = told \ {cur}
    /\ Goto(Loop, "run")
    /\ UNCHANGED <<registry, heap, list, handshake, cur, prev, walk, stray,
                   dropped, counts>>

\* Mutant: a device that is not known to the registry is an error.
RemovedUnknownIgnored(d) ==
    /\ Departed(d)
    /\ entry[d] = "failed"
    /\ removal' = removal \ {d}
    /\ UNCHANGED <<entry, matching, heap, list, handshake, pc, cur, prev, walk,
                   told, stray, dropped, counts>>

\* Unknown to the registry: look for every node whose device is.
RemovedUnknown(d) ==
    /\ Departed(d)
    /\ entry[d] = "failed"
    /\ removal' = removal \ {d}
    /\ cur' = devices
    /\ prev' = devices
    /\ Goto(Loop, "sweep")
    /\ UNCHANGED <<entry, matching, heap, list, handshake, walk, told, stray,
                   dropped, counts>>

Devices(nodes) == {dev[n] : n \in nodes}

Sweep ==
    /\ pc[Loop] = "sweep"
    /\ IF cur = Null
         THEN Goto(Loop, "run") /\ UNCHANGED <<cur, prev, stray, dropped>>
         ELSE /\ entry[dev[cur]] # "failed"
              /\ Touch(Loop, "list", {cur})
              /\ IF entry[dev[cur]] = "null"
                   THEN /\ dropped' = dropped \cup Devices(Nodes(cur))
                        /\ Goto(Loop, "run")
                        /\ UNCHANGED <<cur, prev>>
                   ELSE /\ prev' = cur
                        /\ cur' = next[cur]
                        /\ UNCHANGED <<pc, dropped>>
    /\ UNCHANGED <<registry, heap, list, handshake, walk, told, counts>>

\* Mutant: the node before the rest of the list is not kept up when the first
\* one goes.
SweptForgets ==
    /\ pc[Loop] = "sweep"
    /\ cur # Null
    /\ entry[dev[cur]] = "failed"
    /\ Touch(Loop, "list", {cur, prev} \ {Null})
    /\ Unlink(cur, prev)
    /\ UNCHANGED prev
    /\ Goto(Loop, "swept")
    /\ UNCHANGED <<registry, handshake, cur, walk, told, dropped, counts>>

\* Free the node and run the callback for it; cur stands for the node freed,
\* whose successor the code has kept.
Swept ==
    /\ pc[Loop] = "sweep"
    /\ cur # Null
    /\ entry[dev[cur]] = "failed"
    /\ Touch(Loop, "list", {cur, prev} \ {Null})
    /\ Unlink(cur, prev)
    /\ prev' = IF prev = cur THEN next[cur] ELSE prev
    /\ Goto(Loop, "swept")
    /\ UNCHANGED <<registry, handshake, cur, walk, told, dropped, counts>>

SweptReturn ==
    /\ pc[Loop] = "swept"
    /\ Loop \notin stopping
    /\ walk[Loop] = Null
    /\ told' = told \ {cur}
    /\ cur' = next[cur]
    /\ \/ Goto(Loop, "sweep") /\ UNCHANGED dropped
       \/ /\ Faults
          /\ Goto(Loop, "run")
          /\ dropped' = dropped \cup Devices(Nodes(cur'))
    /\ UNCHANGED <<registry, heap, list, handshake, prev, walk, stray, counts>>

-----------------------------------------------------------------------------
(* macos_helper_input, and input_get_punknobs_id in its callback           *)

Input(d) ==
    /\ pc[Loop] = "run"
    /\ d \in hooked \cap Present
    /\ LET s == From(devices)
           k == Ends(d)
       IN
       /\ Touch(Loop, "list", Nodes(devices))
       /\ cur' = IF k > 0 /\ dev[s[k]] = d THEN s[k] ELSE Null
    /\ Goto(Loop, "inputs")
    /\ UNCHANGED <<registry, heap, list, handshake, prev, walk, told, dropped,
                   counts>>

InputReturn ==
    /\ pc[Loop] = "inputs"
    /\ Loop \notin stopping
    /\ walk[Loop] = Null
    /\ Goto(Loop, "run")
    /\ UNCHANGED <<registry, heap, list, handshake, cur, prev, walk, told,
                   stray, dropped, counts>>

-----------------------------------------------------------------------------
(* Calls                                                                   *)

\* Input callbacks belong to a device of one manager.
Hook(n, devs) == IF session[n] = starts /\ Open THEN devs ELSE {}

\* The flag is set before the force feedback is, the errors of which leave it.
RegisterAdd(t, n) ==
    /\ "register_add" \in Ops
    /\ Calling(t)
    /\ calls' = calls + 1
    /\ Touch(t, "id", {n})
    /\ registered' = registered \cup {n}
    /\ hooked' = hooked \cup (Hook(n, {dev[n]}) \ Devices(registered \cap {n}))
    /\ UNCHANGED <<registry, heap, devices, handshake, pc, cur, prev, walk,
                   told, dropped, starts>>

RegisterDel(t, n) ==
    /\ "register_del" \in Ops
    /\ Calling(t)
    /\ calls' = calls + 1
    /\ Touch(t, "id", {n})
    /\ registered' = registered \ {n}
    /\ hooked' = hooked \ (Hook(n, {dev[n]}) \cap Devices(registered \cap {n}))
    /\ UNCHANGED <<registry, heap, devices, handshake, pc, cur, prev, walk,
                   told, dropped, starts>>

\* A callback of a re-enumeration does not start another one.
Reenumerate(t) ==
    /\ "reenumerate" \in Ops
    /\ Calling(t)
    /\ walk[t] = Null
    /\ devices # Null
    /\ calls' = calls + 1
    /\ walk' = [walk EXCEPT ![t] = devices]
    /\ Touch(t, "list", {devices})
    /\ told' = told \cup {devices}
    /\ UNCHANGED <<registry, heap, list, handshake, pc, cur, prev, dropped,
                   starts>>

\* Mutant: the end of the list is reported too.
ReenumeratedPast(t) ==
    /\ walk[t] # Null
    /\ t \notin stopping
    /\ walk' = [walk EXCEPT ![t] = next[walk[t]]]
    /\ Touch(t, "list", {walk[t], next[walk[t]]})
    /\ told' = told \cup {next[walk[t]]}
    /\ UNCHANGED <<registry, heap, list, handshake, pc, cur, prev, dropped,
                   counts>>

\* The callback for one device returns: go on to the next one, unless it
\* failed.
Reenumerated(t) ==
    /\ walk[t] # Null
    /\ t \notin stopping
    /\ \/ /\ walk' = [walk EXCEPT ![t] = next[walk[t]]]
          /\ Touch(t, "list", {walk[t], next[walk[t]]})
          /\ told' = told \cup ({next[walk[t]]} \ {Null})
       \/ /\ Faults
          /\ walk' = [walk EXCEPT ![t] = Null]
          /\ UNCHANGED <<stray, told>>
    /\ UNCHANGED <<registry, heap, list, handshake, pc, cur, prev, dropped,
                   counts>>

-----------------------------------------------------------------------------
System == \E d \in Dev : Plug(d) \/ Unplug(d) \/ Expire(d)

Callbacks ==
    \/ PluggedReturn \/ UnpluggedReturn \/ SweptReturn \/ InputReturn
    \/ Reenumerated(Loop)

Handlers ==
    \/ \E d \in Dev : \/ Drop(d) \/ Matched(d) \/ Removed(d)
                      \/ RemovedNull(d) \/ RemovedUnknown(d)
    \/ Sweep \/ Swept

RunLoop == LoopOpen \/ LoopConfirm \/ LoopClose \/ LoopExit

Calls(t) ==
    \/ \E n \in told : RegisterAdd(t, n) \/ RegisterDel(t, n)
    \/ Reenumerate(t) \/ Stop(t)

Lifecycle ==
    \/ Start \/ StartReturn \/ Clean
    \/ \E t \in Thread : StopReturn(t)

\* When the backend is freed the model ends.
Next ==
    /\ pc[Owner] # "cleaned"
    /\ \/ System \/ Handlers \/ Callbacks \/ RunLoop \/ LoopStop \/ Lifecycle
       \/ \E d \in Dev : Input(d)
       \/ \E t \in Thread : Calls(t)
       \/ Reenumerated(Owner)

Spec == Init /\ [][Next]_vars

\* Both threads go on, and callbacks return.  A run loop performs messages in
\* every pass, so inputs do not keep it from them for ever.
Fairness ==
    /\ WF_vars(RunLoop) /\ WF_vars(Handlers) /\ WF_vars(Callbacks)
    /\ SF_vars(LoopStop)
    /\ WF_vars(StartReturn) /\ WF_vars(StopReturn(Owner))

FairSpec == Spec /\ Fairness

-----------------------------------------------------------------------------
(* Properties                                                              *)

Id == Node \cup {Null}

TypeOK ==
    /\ entry \in [Dev -> {"new", "present", "id", "failed", "null"}]
    /\ matching \cup removal \cup hooked \cup dropped \subseteq Dev
    /\ allocated \in 0 .. MaxNodes
    /\ dev \in [Node -> Dev]
    /\ session \in [Node -> 0 .. MaxStarts]
    /\ next \in [Node -> Id]
    /\ {devices, cur, prev} \subseteq Id
    /\ registered \cup told \cup freed \subseteq Node
    /\ {thread, running, request, observed} \subseteq BOOLEAN
    /\ stopping \subseteq Thread
    /\ pc[Owner] \in {"idle", "starting", "cleaned"}
    /\ pc[Loop] \in {"none", "setup", "opened", "run", "plugged", "unplugged",
                     "sweep", "swept", "inputs", "ending", "exiting"}
    /\ walk \in [Thread -> Id]
    /\ stray \subseteq Thread \X {"list", "id"}
    /\ starts \in 0 .. MaxStarts
    /\ calls \in 0 .. MaxCalls

\* Whatever the run loop's thread removes, and whatever its callbacks call, it
\* never comes to a freed node by walking the list: the unplugging branch keeps
\* device_prev and the head in step (helpers.m:534 to 563, 600 to 607).  Another
\* thread's re-enumeration may, and so may an id.
LoopWalksLive == <<Loop, "list">> \notin stray

\* Of the ids the application has, one at most is that of a freed node: the one
\* whose unplugging is being reported, which register_del then reads
\* (helpers.m:609, macos.m:220).  Left out is an application that was given a
\* freed id by its own re-enumeration, from which nothing protects the list.
FreedIsReported ==
    \/ pc[Owner] = "cleaned"
    \/ <<Owner, "list">> \in stray
    \/ told \cap freed \subseteq
         (IF pc[Loop] \in {"unplugged", "swept"} THEN {cur} ELSE {})

\* When stop has returned, the thread of the run loop is past its last
\* callback, so that clean frees the list alone (helpers.m:164 to 172).
Quiet == ~thread => pc[Loop] = "none"

\* Nothing is under way.
AtRest == pc[Loop] = "run" /\ matching \cup removal = {} /\ pc[Owner] # "cleaned"

Current(n) == session[n] = starts

\* At rest the list has one node for each device that is there and none for one
\* that has gone.  Left out are devices a notification of which was cut short
\* by an error, and nodes that date from before a restart: stop does not empty
\* the list (helpers.m:438 to 628).
ListSettles ==
    AtRest =>
      /\ \A n \in Nodes(devices) :
           Current(n) => dev[n] \in Present \cup dropped
      /\ \A d \in Present \ dropped :
           Cardinality({n \in Nodes(devices) : dev[n] = d /\ Current(n)}) = 1

\* An input is reported with the id of the node that was registered for it,
\* even if older nodes of the device are left on the list; or with none, if the
\* search was cut short by a device without a service (macos.m:1047 to 1083).
InputKnown ==
    [][pc[Loop] = "run" /\ pc'[Loop] = "inputs" =>
         \/ cur' \in registered /\ Current(cur')
         \/ cur' = Null /\ \E d \in Dev : entry[d] = "null"]_vars

\* start and stop return, unless a callback calls stop: the run loop's thread
\* then waits for its own end (helpers.m:129, 164).
HandshakeReturns ==
    /\ pc[Owner] = "starting" ~> pc[Owner] = "idle"
    /\ Owner \in stopping ~> Owner \notin stopping \/ Loop \in stopping
=============================================================================
