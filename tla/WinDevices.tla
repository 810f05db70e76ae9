----------------------------- MODULE WinDevices -----------------------------
(***************************************************************************)
(* The device list of the Windows backend.                                 *)
(*                                                                         *)
(* The device thread polls: each refresh builds a list of new nodes, one   *)
(* per device that is there, and compares it with the reference list of    *)
(* the refresh before.  Nodes of devices seen before are moved to the      *)
(* front of the new list and take over what their old node knew; devices   *)
(* that are missing are reported as unplugged, and those that are left at  *)
(* the back as plugged.  Then the new list becomes the reference and the   *)
(* old one is freed.  Registered devices have a node on a second list,     *)
(* which points to their current node, and back.                           *)
(*                                                                         *)
(* An id is the address of a node.  The lists have a mutex each, which     *)
(* Windows lets its owner lock again.  The new list is modelled by its     *)
(* pointers, because the code rearranges it while it walks through it.     *)
(* This is the list of DirectInput.  That of XInput goes through the same   *)
(* steps afterwards, but never skips a device.                             *)
(***************************************************************************)
EXTENDS Naturals, Sequences, FiniteSets, PointerLists

CONSTANTS
    Dev,           \* devices, by their GUID
    Compatible,    \* those that XInput lists too, which are skipped
    App,           \* threads of the application
    DeviceThread,  \* runs device_loop
    InputThread,   \* runs input_loop
    NoThread,      \* "the mutex is free"
    DeviceOps,     \* calls the device callback makes
    InputOps,      \* calls the inputs callback makes
    AppOps,        \* calls made elsewhere
    MaxNodes,      \* bound on the nodes ever allocated
    MaxCalls       \* bound on the calls

Thread == App \cup {DeviceThread, InputThread}
Op == {"register_add", "register_del", "query", "effect"}

ASSUME WinAssumption ==
    /\ IsFiniteSet(Dev) /\ Dev # {}
    /\ Compatible \subseteq Dev
    /\ DeviceThread # InputThread
    /\ {DeviceThread, InputThread} \cap App = {}
    /\ NoThread \notin Thread
    /\ DeviceOps \cup InputOps \cup AppOps \subseteq Op \cup {"reenumerate"}
    /\ MaxNodes \in Nat
    /\ MaxCalls \in Nat

Null == 0
Node == 1 .. MaxNodes
Reg == 1 .. MaxCalls

VARIABLES
    allocated,    \* number of nodes allocated so far
    node,         \* what each node holds
    next,         \* next of each node of the new list
    new,          \* head of new_enum_devices
    ref,          \* ref_enum_devices
    registry,     \* nodes linked on reg_devices
    entry,        \* enum_entry of each registered node
    mutex_enum,   \* owner
    mutex_reg,    \* owner
    kept,         \* those a request that failed left locked, "enum" and "reg"
    event,        \* the re-enumeration event
    reenumerate,  \* the device thread's copy of it
    refp,         \* index of the reference node being compared
    part,         \* new_part_start: the first node not matched yet
    prev,         \* new_prev_start
    cur,          \* node whose callback comes next
    todo,         \* registered nodes the input thread has still to poll
    pc, call,     \* where each thread is, and the call it is in
    adding,       \* registered node each thread has still to link
    calls,        \* calls made so far
    told,         \* history: ids the application has been given
    freed,        \* history: nodes freed
    unregistered, \* history: registered nodes freed
    midway,       \* history: ... after a new node took their pointer over
    lost,         \* history: registered nodes of devices found missing
    reported,     \* history: devices reported as plugged
    skipped       \* history: devices whose unplugging was not reported

heap == <<allocated, node, next, entry>>
lists == <<new, ref, registry>>
mutexes == <<mutex_enum, mutex_reg, kept>>
events == <<event, reenumerate>>
cursors == <<refp, part, prev, cur>>
history == <<told, freed, unregistered, midway, lost, reported, skipped>>
vars == <<heap, lists, mutexes, events, cursors, todo, pc, call,
          adding, calls, history>>

\* A call of register_add that succeeds makes the registered node nr.
NoCall == [op |-> "none", id |-> Null, nr |-> Null]

\* Of a node that malloc returned only reg is set.  "unset" is a flag nobody
\* has written: reading it gives either value.  Null stands for an id nobody
\* has written: addresses are not used again here, so that what is there is
\* an id given out before, or no node's.
Flag == {"yes", "no", "unset"}
Fresh(d) == [dev |-> d, reg |-> Null, id |-> Null, plugged |-> "unset",
             registered |-> "unset", compatible |-> "unset"]

DevicePc == {"sleep", "match", "unplugged", "relist", "relisted", "list",
             "listed", "swap"}
InputPc == {"wait", "poll", "inputs"}

\* Where the application's code runs.
Calling == {"app", "unplugged", "relisted", "listed", "inputs"}

OpsOf(t) ==
    IF t = DeviceThread THEN DeviceOps
    ELSE IF t = InputThread THEN InputOps
    ELSE AppOps

Init ==
    /\ allocated = 0
    /\ node = [n \in Node |-> Fresh(CHOOSE d \in Dev : TRUE)]
    /\ next = [n \in Node |-> Null]
    /\ new = Null
    /\ ref = <<>>
    /\ registry = {}
    /\ entry = [r \in Reg |-> Null]
    /\ mutex_enum = NoThread
    /\ mutex_reg = NoThread
    /\ kept = {}
    /\ event = FALSE
    /\ reenumerate = FALSE
    /\ refp = 1
    /\ part = Null
    /\ prev = Null
    /\ cur = Null
    /\ todo = {}
    /\ pc = [t \in Thread |-> IF t = DeviceThread THEN "sleep"
                              ELSE IF t = InputThread THEN "wait"
                              ELSE "app"]
    /\ call = [t \in Thread |-> NoCall]
    /\ adding = [t \in Thread |-> Null]
    /\ calls = 0
    /\ told = {}
    /\ freed = {}
    /\ unregistered = {}
    /\ midway = {}
    /\ lost = {}
    /\ reported = {}
    /\ skipped = {}

Goto(t, l) == pc' = [pc EXCEPT ![t] = l]
At(t, l) == pc[t] = l /\ call[t] = NoCall

Locked(m, t) == m \in {NoThread, t}

\* The new list from node n on, as a sequence.
Walk(n) == Linked(next, n, MaxNodes)

Nodes(s) == {s[k] : k \in DOMAIN s}

-----------------------------------------------------------------------------
(* device_loop                                                             *)

\* Wait, take the event, and list the devices that are present.  EnumDevices
\* names them in any order; each node is put in front.
Refresh(present) ==
    /\ At(DeviceThread, "sleep")
    /\ allocated + Cardinality(present) <= MaxNodes
    /\ LET count == Cardinality(present)
           added == allocated + 1 .. allocated + count
       IN
       /\ \E f \in [added -> present] :
            /\ \A a, b \in added : f[a] = f[b] => a = b
            /\ node' = [n \in Node |-> IF n \in added THEN Fresh(f[n])
                                       ELSE node[n]]
       /\ next' = [n \in Node |-> IF n \in added \ {allocated + 1} THEN n - 1
                                  ELSE next[n]]
       /\ allocated' = allocated + count
       /\ new' = IF count = 0 THEN Null ELSE allocated + count
    /\ part' = new'
    /\ prev' = new'
    /\ refp' = 1
    /\ reenumerate' = event
    /\ event' = FALSE
    /\ Goto(DeviceThread, "match")
    /\ UNCHANGED <<entry, ref, registry, mutexes, cur, todo, call,
                   adding, calls, history>>

\* The search for the reference node in the rest of the new list: the node
\* found, and the one the search was at before it.
Candidates == Walk(part)
Matching(n) ==
    {k \in DOMAIN Candidates : node[Candidates[k]].dev = node[n].dev}
FoundAt(n) == CHOOSE k \in Matching(n) : \A l \in Matching(n) : k <= l
Found(n) == Candidates[FoundAt(n)]
Before(n) == IF FoundAt(n) = 1 THEN prev ELSE Candidates[FoundAt(n) - 1]

\* The matched node takes over what the old one knew, but not the flag that
\* tells XInput devices.
TakeOver(n, m) ==
    node' = [node EXCEPT
               ![m].reg = IF node[n].reg # Null THEN node[n].reg ELSE @,
               ![m].id = node[n].id,
               ![m].plugged = node[n].plugged,
               ![m].registered = node[n].registered]

\* Mutant: the search starts at the same node again.
MoveUpStays(m, p) ==
    /\ part' = part
    /\ prev' = IF (m = part /\ m = new) \/ (m # part /\ prev = part) THEN m
               ELSE prev
    /\ next' = IF m = new THEN next
               ELSE [next EXCEPT ![p] = next[m], ![m] = new]
    /\ new' = m

\* Mutant: the node before the rest of the list is not kept up.
MoveUpForgets(m, p) ==
    /\ part' = IF m = part THEN next[m] ELSE part
    /\ prev' = IF m = part /\ m = new THEN m ELSE prev
    /\ next' = IF m = new THEN next
               ELSE [next EXCEPT ![p] = next[m], ![m] = new]
    /\ new' = m

\* Move the matched node to the front, p being the node before it.
MoveUp(m, p) ==
    /\ part' = IF m = part THEN next[m] ELSE part
    /\ prev' = IF (m = part /\ m = new) \/ (m # part /\ prev = part) THEN m
               ELSE prev
    /\ next' = IF m = new THEN next
               ELSE [next EXCEPT ![p] = next[m], ![m] = new]
    /\ new' = m

Match ==
    /\ At(DeviceThread, "match")
    /\ refp <= Len(ref)
    /\ Locked(mutex_enum, DeviceThread)
    /\ Matching(ref[refp]) # {}
    /\ TakeOver(ref[refp], Found(ref[refp]))
    /\ MoveUp(Found(ref[refp]), Before(ref[refp]))
    /\ refp' = refp + 1
    /\ UNCHANGED <<allocated, entry, ref, registry, mutexes, events,
                   cur, todo, pc, call, adding, calls, history>>

Missing ==
    /\ At(DeviceThread, "match")
    /\ refp <= Len(ref)
    /\ Locked(mutex_enum, DeviceThread)
    /\ Matching(ref[refp]) = {}
    /\ lost' = lost \cup ({node[ref[refp]].reg} \ {Null})

\* The device callback runs with mutex_enum locked.
ReportUnplugged ==
    /\ Missing
    /\ LET n == ref[refp] IN
       /\ node[n].compatible # "yes"
       /\ node' = [node EXCEPT ![n].plugged = "no"]
       /\ cur' = n
       /\ told' = told \cup {node[n].id}
       /\ reported' = reported \ {node[n].dev}
    /\ mutex_enum' = DeviceThread
    /\ Goto(DeviceThread, "unplugged")
    /\ UNCHANGED <<allocated, next, entry, lists, mutex_reg, kept, events,
                   refp, part, prev, todo, call, adding, calls, freed,
                   unregistered, midway, skipped>>

SkipUnplugged ==
    /\ Missing
    /\ node[ref[refp]].compatible # "no"
    /\ skipped' = skipped \cup {node[ref[refp]].dev}
    /\ refp' = refp + 1
    /\ UNCHANGED <<heap, lists, mutexes, events, part, prev, cur,
                   todo, pc, call, adding, calls, told, freed, unregistered,
                   midway, reported>>

\* Mutant: the mutex stays locked.
UnplugReportedKept ==
    /\ At(DeviceThread, "unplugged")
    /\ refp' = refp + 1
    /\ Goto(DeviceThread, "match")
    /\ UNCHANGED <<heap, lists, mutexes, events, part, prev, cur, todo, call,
                   adding, calls, history>>

\* Mutant: the reference node after this one is passed over too.
UnplugReportedTwice ==
    /\ At(DeviceThread, "unplugged")
    /\ mutex_enum' = IF "enum" \in kept THEN mutex_enum ELSE NoThread
    /\ refp' = refp + 2
    /\ Goto(DeviceThread, "match")
    /\ UNCHANGED <<heap, lists, mutex_reg, kept, events, part, prev, cur, todo,
                   call, adding, calls, history>>

\* A mutex that a request left locked stays so: it was locked once more.
UnplugReported ==
    /\ At(DeviceThread, "unplugged")
    /\ mutex_enum' = IF "enum" \in kept THEN mutex_enum ELSE NoThread
    /\ refp' = refp + 1
    /\ Goto(DeviceThread, "match")
    /\ UNCHANGED <<heap, lists, mutex_reg, kept, events, part, prev, cur,
                   todo, call, adding, calls, history>>

\* All reference nodes were looked for.
Matched ==
    /\ At(DeviceThread, "match")
    /\ refp > Len(ref)
    /\ cur' = IF reenumerate THEN new ELSE part
    /\ Goto(DeviceThread, IF reenumerate THEN "relist" ELSE "list")
    /\ UNCHANGED <<heap, lists, mutexes, events, refp, part, prev,
                   todo, call, adding, calls, history>>

\* Re-enumeration: the devices seen before, without a mutex.
Relist ==
    /\ At(DeviceThread, "relist")
    /\ IF cur = part
         THEN Goto(DeviceThread, "list") /\ UNCHANGED told
         ELSE /\ Goto(DeviceThread, "relisted")
              /\ told' = told \cup {node[cur].id}
    /\ UNCHANGED <<heap, lists, mutexes, events, cursors, todo, call,
                   adding, calls, freed, unregistered, midway, lost, reported,
                   skipped>>

\* A new device: fill its node in and report it.
List ==
    /\ At(DeviceThread, "list")
    /\ cur # Null
    /\ node[cur].dev \notin Compatible
    /\ node' = [node EXCEPT ![cur].id = cur, ![cur].plugged = "yes",
                            ![cur].registered = "no",
                            ![cur].compatible = "no"]
    /\ told' = told \cup {cur}
    /\ reported' = reported \cup {node[cur].dev}
    /\ skipped' = skipped \ {node[cur].dev}
    /\ Goto(DeviceThread, "listed")
    /\ UNCHANGED <<allocated, next, entry, lists, mutexes, events,
                   cursors, todo, call, adding, calls, freed, unregistered,
                   midway, lost>>

\* Its info stays unset, and the next refreshes copy it.
ListCompatible ==
    /\ At(DeviceThread, "list")
    /\ cur # Null
    /\ node[cur].dev \in Compatible
    /\ node' = [node EXCEPT ![cur].compatible = "yes"]
    /\ cur' = next[cur]
    /\ UNCHANGED <<allocated, next, entry, lists, mutexes, events,
                   refp, part, prev, todo, pc, call, adding, calls, history>>

\* A callback returns; errors are ignored.
Reported(from, to) ==
    /\ At(DeviceThread, from)
    /\ cur' = next[cur]
    /\ Goto(DeviceThread, to)
    /\ UNCHANGED <<heap, lists, mutexes, events, refp, part, prev,
                   todo, call, adding, calls, history>>

Listed ==
    /\ At(DeviceThread, "list")
    /\ cur = Null
    /\ Goto(DeviceThread, "swap")
    /\ UNCHANGED <<heap, lists, mutexes, events, cursors, todo, call,
                   adding, calls, history>>

\* Nodes of the new list that were matched.
Front == {n \in Nodes(Walk(new)) : n \notin Nodes(Walk(part))}

\* Mutant: registered nodes keep pointing to the old list.
RetargetNone == entry

\* Registered nodes point to their new nodes.
Retarget ==
    [r \in Reg |-> IF \E n \in Front : node[n].reg = r
                     THEN CHOOSE n \in Front : node[n].reg = r
                     ELSE entry[r]]

\* Under both mutexes: the new list becomes the reference, and its nodes keep
\* their places there.  mutex_reg is taken first: unless a request leaves it
\* locked for good, only this thread holds mutex_enum for more than a step, so
\* that taking both at once differs only when the thread waits for ever.
Swap ==
    /\ At(DeviceThread, "swap")
    /\ Locked(mutex_reg, DeviceThread)
    /\ Locked(mutex_enum, DeviceThread)
    /\ entry' = Retarget
    /\ ref' = Walk(new)
    /\ new' = Null
    /\ next' = [n \in Node |-> Null]
    /\ refp' = 1
    /\ part' = Null
    /\ prev' = Null
    /\ cur' = Null
    /\ reenumerate' = FALSE
    /\ freed' = freed \cup Nodes(ref)
    /\ Goto(DeviceThread, "sleep")
    /\ UNCHANGED <<allocated, node, registry, mutexes, event, todo, call,
                   adding, calls, told, unregistered, midway, lost, reported,
                   skipped>>

-----------------------------------------------------------------------------
(* input_loop                                                              *)

InputLock ==
    /\ At(InputThread, "wait")
    /\ Locked(mutex_reg, InputThread)
    /\ mutex_reg' = InputThread
    /\ todo' = registry
    /\ Goto(InputThread, "poll")
    /\ UNCHANGED <<heap, lists, mutex_enum, kept, events, cursors, call,
                   adding, calls, history>>

\* Poll a device through its enumeration node.  The callbacks for its inputs
\* run with mutex_reg locked; they are taken together, as one that may make
\* several calls.
InputPoll ==
    /\ At(InputThread, "poll")
    /\ \E r \in todo \cap registry :
         /\ todo' = todo \ {r}
         /\ \/ UNCHANGED <<pc, told>>
            \/ /\ node[entry[r]].plugged # "no"
               /\ node[entry[r]].registered # "no"
               /\ Goto(InputThread, "inputs")
               /\ told' = told \cup {entry[r]}
    /\ UNCHANGED <<heap, lists, mutexes, events, cursors, call,
                   adding, calls, freed, unregistered, midway, lost, reported,
                   skipped>>

\* The code goes on from the node even when the callback unregistered it; its
\* memory is taken to hold the next one still.
InputReported ==
    /\ At(InputThread, "inputs")
    /\ Goto(InputThread, "poll")
    /\ UNCHANGED <<heap, lists, mutexes, events, cursors, todo, call,
                   adding, calls, history>>

InputUnlock ==
    /\ At(InputThread, "poll")
    /\ todo \cap registry = {}
    /\ mutex_reg' = IF "reg" \in kept THEN mutex_reg ELSE NoThread
    /\ todo' = {}
    /\ Goto(InputThread, "wait")
    /\ UNCHANGED <<heap, lists, mutex_enum, kept, events, cursors, call,
                   adding, calls, history>>

-----------------------------------------------------------------------------
(* Calls                                                                   *)

Call(t, op, id) ==
    /\ pc[t] \in Calling
    /\ call[t] = NoCall
    /\ calls < MaxCalls
    /\ id \in told \ {Null}
    /\ call' = [call EXCEPT ![t] = [op |-> op, id |-> id, nr |-> calls + 1]]
    /\ calls' = calls + 1
    /\ UNCHANGED <<heap, lists, mutexes, events, cursors, todo, pc,
                   adding, history>>

Reenumerate(t) ==
    /\ pc[t] \in Calling
    /\ call[t] = NoCall
    /\ calls < MaxCalls
    /\ event' = TRUE
    /\ calls' = calls + 1
    /\ UNCHANGED <<heap, lists, mutexes, reenumerate, cursors, todo,
                   pc, call, adding, history>>

Return(t) ==
    /\ call' = [call EXCEPT ![t] = NoCall]
    /\ UNCHANGED <<allocated, next, new, ref, events, cursors, todo, pc,
                   calls, told, freed, lost, reported, skipped>>

\* Only the new list is searched; an id that is not there is ignored.
RegisterAdd(t) ==
    /\ call[t].op = "register_add"
    /\ adding[t] = Null
    /\ Locked(mutex_enum, t)
    /\ LET n == call[t].id
           r == call[t].nr
       IN
       \/ /\ n \in Nodes(Walk(new))
          /\ node[n].registered # "yes"
          /\ node[n].plugged # "no"
          /\ node' = [node EXCEPT ![n].reg = r, ![n].registered = "yes"]
          /\ entry' = [entry EXCEPT ![r] = n]
          /\ adding' = [adding EXCEPT ![t] = r]
          /\ UNCHANGED <<allocated, next, lists, events, cursors, todo, pc,
                         call, calls, history>>
       \/ /\ \/ n \notin Nodes(Walk(new))
             \/ node[n].registered # "no"
             \/ node[n].plugged # "yes"
          /\ Return(t)
          /\ UNCHANGED <<node, entry, adding, registry, unregistered, midway>>
    /\ UNCHANGED mutexes

\* The second part, under the other mutex.
RegisterAddLink(t) ==
    /\ adding[t] # Null
    /\ Locked(mutex_reg, t)
    /\ registry' = registry \cup {adding[t]}
    /\ adding' = [adding EXCEPT ![t] = Null]
    /\ Return(t)
    /\ UNCHANGED <<node, entry, mutexes, unregistered, midway>>

\* Registered nodes are found by the address of their current node.
Registered(id) == {r \in registry : entry[r] = id}

\* A node of the new list already has what the node with this address knew.
TakenOver(r, id) == \E n \in Nodes(Walk(new)) \ {id} : node[n].reg = r

\* Mutant: the enumeration node keeps its pointer.
RegisterDelKeeps(t) ==
    /\ call[t].op = "register_del"
    /\ Locked(mutex_reg, t)
    /\ LET id == call[t].id IN
       /\ registry' = registry \ Registered(id)
       /\ unregistered' = unregistered \cup Registered(id)
       /\ midway' = midway \cup {r \in Registered(id) : TakenOver(r, id)}
    /\ Return(t)
    /\ UNCHANGED <<node, entry, mutexes, adding>>

\* Mutant: the mutex of the enumeration lists is taken.
RegisterDelEnum(t) ==
    /\ call[t].op = "register_del"
    /\ Locked(mutex_enum, t)
    /\ LET id == call[t].id IN
       /\ registry' = registry \ Registered(id)
       /\ unregistered' = unregistered \cup Registered(id)
       /\ midway' = midway \cup {r \in Registered(id) : TakenOver(r, id)}
       /\ node' = IF Registered(id) = {} THEN node
                  ELSE [node EXCEPT ![id].reg = Null,
                                    ![id].registered = "no"]
    /\ Return(t)
    /\ UNCHANGED <<entry, mutexes, adding>>

RegisterDel(t) ==
    /\ call[t].op = "register_del"
    /\ Locked(mutex_reg, t)
    /\ LET id == call[t].id IN
       /\ registry' = registry \ Registered(id)
       /\ unregistered' = unregistered \cup Registered(id)
       /\ midway' = midway \cup {r \in Registered(id) : TakenOver(r, id)}
       /\ node' = IF Registered(id) = {} THEN node
                  ELSE [node EXCEPT ![id].reg = Null,
                                    ![id].registered = "no"]
    /\ Return(t)
    /\ UNCHANGED <<entry, mutexes, adding>>

\* What a device can do: under mutex_enum, from the new list.  When there is
\* no memory for the answer, or DirectInput fails, the mutex stays locked.
Query(t) ==
    /\ call[t].op = "query"
    /\ Locked(mutex_enum, t)
    /\ \/ UNCHANGED <<mutex_enum, kept>>
       \/ /\ call[t].id \in Nodes(Walk(new))
          /\ mutex_enum' = t
          /\ kept' = kept \cup {"enum"}
    /\ Return(t)
    /\ UNCHANGED <<node, entry, mutex_reg, adding, registry, unregistered,
                   midway>>

\* Effects: under mutex_reg, from the registered nodes.  When DirectInput
\* fails, the mutex stays locked.
Effect(t) ==
    /\ call[t].op = "effect"
    /\ Locked(mutex_reg, t)
    /\ \/ UNCHANGED <<mutex_reg, kept>>
       \/ /\ Registered(call[t].id) # {}
          /\ mutex_reg' = t
          /\ kept' = kept \cup {"reg"}
    /\ Return(t)
    /\ UNCHANGED <<node, entry, mutex_enum, adding, registry, unregistered,
                   midway>>

-----------------------------------------------------------------------------
Device ==
    \/ \E present \in SUBSET Dev : Refresh(present)
    \/ Match \/ ReportUnplugged \/ SkipUnplugged \/ UnplugReported \/ Matched
    \/ Relist \/ Reported("relisted", "relist")
    \/ List \/ ListCompatible \/ Reported("listed", "list") \/ Listed
    \/ Swap

Input == InputLock \/ InputPoll \/ InputReported \/ InputUnlock

Calls(t) ==
    \/ \E op \in OpsOf(t) \cap Op, id \in told : Call(t, op, id)
    \/ "reenumerate" \in OpsOf(t) /\ Reenumerate(t)

Answer(t) ==
    \/ RegisterAdd(t) \/ RegisterAddLink(t) \/ RegisterDel(t)
    \/ Query(t) \/ Effect(t)

Next ==
    \/ Device
    \/ Input
    \/ \E t \in Thread : Calls(t) \/ Answer(t)

Spec == Init /\ [][Next]_vars

-----------------------------------------------------------------------------
(* Properties                                                              *)

Id == Node \cup {Null}

TypeOK ==
    /\ allocated \in 0 .. MaxNodes
    /\ node \in [Node -> [dev : Dev, reg : Reg \cup {Null}, id : Id,
                          plugged : Flag, registered : Flag,
                          compatible : Flag]]
    /\ next \in [Node -> Id]
    /\ new \in Id
    /\ ref \in Seq(Node)
    /\ registry \subseteq Reg
    /\ entry \in [Reg -> Id]
    /\ {mutex_enum, mutex_reg} \subseteq Thread \cup {NoThread}
    /\ kept \subseteq {"enum", "reg"}
    /\ {event, reenumerate} \subseteq BOOLEAN
    /\ refp \in 1 .. Len(ref) + 1
    /\ {part, prev, cur} \subseteq Id
    /\ todo \subseteq Reg
    /\ pc \in [Thread -> DevicePc \cup InputPc \cup {"app"}]
    /\ call \in [Thread -> [op : Op \cup {"none"}, id : Id,
                             nr : Reg \cup {Null}]]
    /\ adding \in [Thread -> Reg \cup {Null}]
    /\ calls \in 0 .. MaxCalls
    /\ told \subseteq Id
    /\ freed \subseteq Node
    /\ unregistered \cup midway \cup lost \subseteq Reg
    /\ reported \cup skipped \subseteq Dev

\* Moving matched nodes to the front splits the new list: it still has every
\* device once, those before new_part_start were in the reference list, and
\* those from there on were not (helpers.c:244 to 330).
Partitioned ==
    pc[DeviceThread] \in {"relist", "relisted", "list", "listed", "swap"} =>
      LET front == Front
          back == Nodes(Walk(part))
          old == {node[n].dev : n \in Nodes(ref)}
      IN
      /\ front \cup back = allocated + 1 - Cardinality(front \cup back)
                             .. allocated
      /\ Len(Walk(new)) = Cardinality(front) + Cardinality(back)
      /\ \A n \in front : node[n].dev \in old
      /\ \A n \in back : node[n].dev \notin old

\* A registered node never points to a freed one, unless its device was once
\* found missing.
EntryLive ==
    \A r \in registry \ lost : entry[r] \notin freed

\* An enumeration node in use never points to a registered node that was
\* freed, unless a new node had taken the pointer over before: register_del
\* knows one enumeration node only, and holds the other mutex.
RegLive ==
    \A n \in Nodes(ref) \cup Nodes(Walk(new)) :
      node[n].reg \in unregistered => node[n].reg \in midway

\* While the input loop works through the registered nodes, nobody but its own
\* callback changes them: when the loop goes on from a node that was freed, as
\* it then does, that callback has unregistered it (win_helpers.c:1195).
InputWalksAlone ==
    [][mutex_reg = InputThread /\ registry' # registry =>
         call[InputThread] # NoCall /\ call'[InputThread] = NoCall]_vars

\* A device that stays is reported as plugged once: the next report of it
\* follows one that it was unplugged, or that its unplugging was skipped.
ReportedOnce ==
    [][\A d \in Dev : d \in reported /\ pc'[DeviceThread] = "listed"
                        /\ pc[DeviceThread] = "list" /\ node[cur].dev = d
                        => d \in skipped]_vars

\* The mutexes a thread takes in its next step.
Wants(t) ==
    CASE call[t].op = "query" -> {mutex_enum}
      [] call[t].op = "register_add" ->
           IF adding[t] = Null THEN {mutex_enum} ELSE {mutex_reg}
      [] call[t].op \in {"register_del", "effect"} -> {mutex_reg}
      [] t = DeviceThread /\ At(t, "match") -> {mutex_enum}
      [] t = DeviceThread /\ At(t, "swap") -> {mutex_reg, mutex_enum}
      [] t = InputThread /\ At(t, "wait") -> {mutex_reg}
      [] OTHER -> {}

Blocked(t) == \E m \in Wants(t) : ~Locked(m, t)

\* The loops take the mutexes in the same order: unless a request that failed
\* left one locked, they block each other only when the device callback reports
\* an unplugging, and it and the inputs callback are both in a call.
OnlyCallsCross ==
    Blocked(DeviceThread) /\ Blocked(InputThread) /\ kept = {} =>
      /\ pc[DeviceThread] = "unplugged" /\ call[DeviceThread] # NoCall
      /\ pc[InputThread] = "inputs" /\ call[InputThread] # NoCall

\* register_del, called from the callback that reports the unplugging, removes
\* the device from the watch list (punknobs.h:419).
UnplugUnregisters ==
    [][/\ At(DeviceThread, "unplugged")'
       /\ call[DeviceThread].op = "register_del"
       /\ call[DeviceThread].id = node[cur].id
       => node[cur].reg \notin registry']_vars
=============================================================================
