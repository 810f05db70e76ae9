------------------------- MODULE EvdevHotplugProofs -------------------------
(***************************************************************************)
(* Proofs about EvdevHotplug, for any paths, any number of kernel events   *)
(* and any use of registration: the retries, and how the list of devices   *)
(* and the registered nodes keep together.                                 *)
(***************************************************************************)
EXTENDS EvdevHotplug, PointerListsProofs, TLAPS

(* Lists.                                                                  *)

Ids(list) == {list[i].id : i \in DOMAIN list}

Unique(list) == \A i, j \in DOMAIN list : list[i].id = list[j].id => i = j

\* What is left when an element is removed: those before and those after it.
LEMMA RemoveOne ==
  ASSUME NEW S, NEW s \in Seq(S), NEW i \in DOMAIN s
  PROVE  /\ RemoveAt(s, i) \in Seq(S)
         /\ DOMAIN RemoveAt(s, i) = 1 .. Len(s) - 1
         /\ \A k \in 1 .. Len(s) - 1 :
              RemoveAt(s, i)[k] = IF k < i THEN s[k] ELSE s[k + 1]
<1>1. i \in 1 .. Len(s) /\ Len(s) \in Nat OBVIOUS
<1>2. /\ SubSeq(s, 1, i - 1) \in Seq(S)
      /\ Len(SubSeq(s, 1, i - 1)) = i - 1
      /\ \A k \in 1 .. i - 1 : SubSeq(s, 1, i - 1)[k] = s[k]
  BY <1>1
<1>3. /\ SubSeq(s, i + 1, Len(s)) \in Seq(S)
      /\ Len(SubSeq(s, i + 1, Len(s))) = Len(s) - i
      /\ \A k \in 1 .. Len(s) - i :
           SubSeq(s, i + 1, Len(s))[k] = s[i + k]
  BY <1>1
<1> DEFINE a == SubSeq(s, 1, i - 1)
           b == SubSeq(s, i + 1, Len(s))
<1> HIDE DEF a, b
<1>4. /\ a \in Seq(S) /\ Len(a) = i - 1
      /\ \A k \in 1 .. i - 1 : a[k] = s[k]
  BY <1>2 DEF a
<1>5. /\ b \in Seq(S) /\ Len(b) = Len(s) - i
      /\ \A k \in 1 .. Len(s) - i : b[k] = s[i + k]
  BY <1>3 DEF b
<1>6. /\ a \o b \in Seq(S)
      /\ Len(a \o b) = Len(s) - 1
      /\ DOMAIN (a \o b) = 1 .. Len(s) - 1
      /\ \A k \in 1 .. Len(s) - 1 :
           (a \o b)[k] = IF k <= Len(a) THEN a[k] ELSE b[k - Len(a)]
  BY <1>1, <1>4, <1>5
<1>7. ASSUME NEW k \in 1 .. Len(s) - 1
      PROVE  (a \o b)[k] = IF k < i THEN s[k] ELSE s[k + 1]
  <2>1. CASE k < i BY <1>1, <1>4, <1>6, <2>1
  <2>2. CASE k >= i
    <3>1. k - Len(a) \in 1 .. Len(s) - i BY <1>1, <1>4, <2>2
    <3>2. (a \o b)[k] = b[k - Len(a)] BY <1>1, <1>4, <1>6, <2>2
    <3>3. b[k - Len(a)] = s[i + (k - Len(a))] BY <1>5, <3>1
    <3>4. i + (k - Len(a)) = k + 1 BY <1>1, <1>4
    <3>5. QED BY <1>1, <2>2, <3>2, <3>3, <3>4
  <2>3. k \in Int /\ i \in Int BY <1>1
  <2>4. k < i \/ k >= i BY <2>3
  <2>5. QED BY <2>1, <2>2, <2>4
<1>8. RemoveAt(s, i) = a \o b BY DEF RemoveAt, a, b
<1>9. QED BY <1>6, <1>7, <1>8

LEMMA WithoutLast ==
  ASSUME NEW S, NEW s \in Seq(S), NEW i \in DOMAIN s
  PROVE  /\ Front([s EXCEPT ![i] = Last(s)]) \in Seq(S)
         /\ Len(Front([s EXCEPT ![i] = Last(s)])) = Len(s) - 1
         /\ \A k \in 1 .. Len(s) - 1 :
              Front([s EXCEPT ![i] = Last(s)])[k] =
                IF k = i THEN s[Len(s)] ELSE s[k]
<1> DEFINE r == [s EXCEPT ![i] = Last(s)]
<1>1. i \in 1 .. Len(s) /\ Len(s) \in Nat OBVIOUS
<1>2. Last(s) \in S BY <1>1 DEF Last
<1>3. r \in Seq(S) /\ Len(r) = Len(s) BY <1>1, <1>2
<1>4. \A k \in 1 .. Len(s) : r[k] = IF k = i THEN s[Len(s)] ELSE s[k]
  BY <1>1 DEF Last
<1>5. /\ Front(r) \in Seq(S) /\ Len(Front(r)) = Len(s) - 1
      /\ \A k \in 1 .. Len(s) - 1 : Front(r)[k] = r[k]
  <2> HIDE DEF r
  <2>1. QED BY <1>1, <1>3 DEF Front
<1> HIDE DEF r
<1>6. \A k \in 1 .. Len(s) - 1 :
        Front(r)[k] = IF k = i THEN s[Len(s)] ELSE s[k]
  BY <1>1, <1>4, <1>5
<1>7. QED BY <1>5, <1>6 DEF r

\* Removing an id from a list of different ones removes that one only.
LEMMA WithoutId ==
  ASSUME NEW S, NEW s \in Seq(S), NEW id
  PROVE  /\ Without(s, id) \in Seq(S)
         /\ \A k \in DOMAIN Without(s, id) :
              \E j \in DOMAIN s : Without(s, id)[k] = s[j]
         /\ Unique(s) => /\ Unique(Without(s, id))
                         /\ Ids(Without(s, id)) = Ids(s) \ {id}
<1> DEFINE here == {i \in DOMAIN s : s[i].id = id}
<1>1. CASE here = {}
  <2>1. Without(s, id) = s BY <1>1 DEF Without
  <2>2. id \notin Ids(s) BY <1>1 DEF Ids
  <2>3. QED BY <2>1, <2>2
<1>2. CASE here # {}
  <2>1. DOMAIN s = 1 .. Len(s) /\ Len(s) \in Nat OBVIOUS
  <2>2. here \subseteq Nat BY <2>1
  <2>3. \E i \in here : \A j \in here : i <= j
    <3> HIDE DEF here
    <3>1. QED BY <1>2, <2>2, Smallest
  <2>4. PICK i \in here : Without(s, id) = RemoveAt(s, i)
    BY <1>2, <2>3 DEF Without
  <2>5. i \in DOMAIN s /\ s[i].id = id BY <2>4
  <2> DEFINE r == RemoveAt(s, i)
  <2>6. /\ r \in Seq(S)
        /\ DOMAIN r = 1 .. Len(s) - 1
        /\ \A k \in 1 .. Len(s) - 1 :
             r[k] = IF k < i THEN s[k] ELSE s[k + 1]
    BY <2>5, RemoveOne
  <2> HIDE DEF r, here
  <2>7. \A k \in DOMAIN r : \E j \in DOMAIN s : j # i /\ r[k] = s[j]
    BY <2>1, <2>5, <2>6
  <2>8. \A j \in DOMAIN s : j # i => \E k \in DOMAIN r : r[k] = s[j]
    <3> SUFFICES ASSUME NEW j \in DOMAIN s, j # i
                 PROVE  \E k \in DOMAIN r : r[k] = s[j]
      OBVIOUS
    <3>1. CASE j < i BY <2>1, <2>5, <2>6, <3>1
    <3>2. CASE j > i
      <4>1. j - 1 \in DOMAIN r BY <2>1, <2>5, <2>6, <3>2
      <4>2. r[j - 1] = s[j] BY <2>1, <2>5, <2>6, <3>2
      <4>3. QED BY <4>1, <4>2
    <3>3. QED BY <2>1, <2>5, <3>1, <3>2
  <2>9. Unique(s) => Unique(r)
    BY <2>1, <2>5, <2>6 DEF Unique
  <2>10. Unique(s) => Ids(r) = Ids(s) \ {id}
    <3> SUFFICES ASSUME Unique(s) PROVE Ids(r) = Ids(s) \ {id}
      OBVIOUS
    <3>1. \A j \in DOMAIN s : s[j].id = id <=> j = i
      BY <2>5 DEF Unique
    <3>2. QED BY <2>7, <2>8, <3>1 DEF Ids
  <2>11. Without(s, id) = r BY <2>4 DEF r
  <2>12. QED BY <2>6, <2>7, <2>9, <2>10, <2>11
<1>3. QED BY <1>1, <1>2

-----------------------------------------------------------------------------
(* The invariant.                                                          *)

TypeInv == TypeOK /\ setup \in Setups

InCallback(t) == pc[t] \in {"open", "probe", "push", "report"}

Retrying ==
    \/ pc[DeviceThread] = "retry"
    \/ InCallback(DeviceThread) /\ job[DeviceThread].via = "retry"

Waits(p) == \E k \in DOMAIN devices_pending : devices_pending[k] = p

\* A path waits once.
WaitsOnce ==
    \A i, j \in DOMAIN devices_pending :
      devices_pending[i] = devices_pending[j] => i = j

\* What was looked up before a callback still holds after it: nobody but the
\* device thread changes devices_pending.
LookedUp ==
    InCallback(DeviceThread) /\ job[DeviceThread].via = "attrib" =>
      (pending <=> Waits(job[DeviceThread].path))

\* The timer may be off while a path waits only during a retry, or when the
\* device thread has ended.
Armed ==
    devices_pending # <<>> =>
      timeout \/ Retrying \/ pc[DeviceThread] = "exit"

Deleting ==
    pc[DeviceThread] \in {"unlist", "unreport"} =>
      job[DeviceThread].via = "delete"

RetryInv == WaitsOnce /\ LookedUp /\ Armed /\ Deleting

ListedIds == Ids(devices_plugged)
Watched == Ids(input_loop_fds)

\* An id that was given out but not listed yet is known to one worker only.
FreshIds ==
    \A t \in Worker :
      /\ pc[t] \in {"push", "report"} => job[t].id # NoId
      /\ pc[t] = "push" =>
           /\ job[t].id \notin ListedIds \cup Watched
           /\ \A u \in Worker \ {t} :
                pc[u] \in {"push", "report", "unlist", "unreport"} =>
                  job[u].id # job[t].id

\* Every id is listed and watched once.
Once == Unique(devices_plugged) /\ Unique(input_loop_fds)

\* The entry of a device that is watched says so.
Flagged ==
    \A i \in DOMAIN devices_plugged :
      devices_plugged[i].id \in Watched => devices_plugged[i].registered

\* Every device that is watched is listed, or its unplugging is being reported
\* or was reported without unregistering it.
WatchedListed ==
    \A id \in Watched :
      \/ id \in ListedIds \cup kept
      \/ pc[DeviceThread] = "unreport" /\ id = job[DeviceThread].id

\* From the lookup of an id to the end of its unplugging.
Unlisting ==
    /\ pc[DeviceThread] = "unlist" =>
         job[DeviceThread].id \in ListedIds \cup kept
    /\ pc[DeviceThread] = "unreport" =>
         /\ job[DeviceThread].id \notin ListedIds
         /\ job[DeviceThread].id \in Watched => job[DeviceThread].registered

ListInv == FreshIds /\ Once /\ Flagged /\ WatchedListed /\ Unlisting

IInv == TypeInv /\ RetryInv /\ ListInv

(* Types.                                                                  *)

Outcome == {"ok", "open", "other"}

LEMMA Workers ==
  Starter \in Worker /\ DeviceThread \in Worker /\ Starter # DeviceThread
BY WorkerAssumption DEF Worker

Jobs == [path : Path, plug : Nat, id : Id,
         via : {"list", "create", "attrib", "delete", "retry"},
         registered : BOOLEAN]

States == {"list", "started", "poll", "handle", "open", "probe", "push",
           "report", "unlist", "unreport", "retry", "exit", "undefined"}

LEMMA NoJobType == lastId \in Nat => NoJob \in Jobs
<1> SUFFICES ASSUME lastId \in Nat PROVE NoJob \in Jobs
  OBVIOUS
<1>1. (CHOOSE p \in Path : TRUE) \in Path BY PathAssumption
<1>2. 0 \in Id /\ 0 \in Nat BY DEF Id, NoId
<1> DEFINE p == CHOOSE p \in Path : TRUE
<1> HIDE DEF p
<1>3. p \in Path BY <1>1 DEF p
<1>4. NoJob = [path |-> p, via |-> "list", plug |-> 0, id |-> 0,
               registered |-> FALSE]
  BY DEF NoJob, p, NoId
<1>5. QED BY <1>2, <1>3, <1>4 DEF Jobs

LEMMA TypeInit == Init => TypeInv
<1> SUFFICES ASSUME Init PROVE TypeInv
  OBVIOUS
<1>1. setup \in Setups /\ setup \in Setup BY SetupAssumption DEF Init
<1>2. setup.initial \subseteq Path /\ setup.used \subseteq Path
  BY <1>1 DEF Setup
<1>3. plug \in [Path -> Nat] BY DEF Init
<1>4. job \in [Worker -> Jobs] BY NoJobType DEF Init
<1>5. /\ queue \in Seq(Event) /\ batch \in Seq(Event)
      /\ devices_pending \in Seq(Path)
      /\ devices_plugged \in
           Seq([id : Id \ {NoId}, path : Path, plug : Nat,
                registered : BOOLEAN])
      /\ input_loop_fds \in Seq([id : Id \ {NoId}, path : Path])
  BY DEF Init
<1>6. pc \in [Worker -> States]
  BY DEF Init, Idle, States
<1>7. events \in 0 .. MaxEvents /\ lastId \in Nat
  BY BoundAssumption DEF Init
<1>8. /\ node \in [Path -> {"absent", "locked", "open"}]
      /\ timeout \in BOOLEAN /\ pending \in BOOLEAN
      /\ retired \subseteq Id /\ kept \subseteq Id
      /\ missed \subseteq Path /\ todo \subseteq Path
  BY <1>2 DEF Init
<1>9. QED
  BY <1>1, <1>3, <1>4, <1>5, <1>6, <1>7, <1>8
  DEF TypeInv, TypeOK, Jobs, States

LEMMA PendingType ==
  ASSUME TypeInv, RetryInv, NEW t \in Worker, NEW outcome \in Outcome,
         InCallback(t) \/ pc[t] = "unreport"
  PROVE  PendingAfter(t, outcome) \in Seq(Path)
<1> DEFINE i == CHOOSE k \in DOMAIN devices_pending :
                  devices_pending[k] = job[t].path
<1>1. devices_pending \in Seq(Path) /\ job[t].path \in Path
  BY DEF TypeInv, TypeOK
<1>2. ASSUME Answers(t, outcome), pending
      PROVE  i \in DOMAIN devices_pending
  <2>1. Waits(job[t].path)
    BY <1>2 DEF Answers, RetryInv, LookedUp, Deleting
  <2>2. QED BY <2>1 DEF Waits
<1>3. CASE Answers(t, outcome) /\ outcome = "open" /\ ~pending
  BY <1>1, <1>3 DEF PendingAfter
<1>4. CASE Answers(t, outcome) /\ outcome = "ok" /\ pending
  <2>1. i \in DOMAIN devices_pending BY <1>2, <1>4
  <2>2. PendingAfter(t, outcome)
          = Front([devices_pending EXCEPT ![i] = Last(devices_pending)])
    BY <1>4 DEF PendingAfter
  <2> HIDE DEF i
  <2>3. QED BY <1>1, <2>1, <2>2, WithoutLast
<1>5. QED BY <1>1, <1>3, <1>4 DEF PendingAfter

\* What a callback leaves in the variables of the worker.
LEMMA FinishType ==
  ASSUME TypeInv, RetryInv, NEW t \in Worker, NEW outcome \in Outcome,
         InCallback(t) \/ pc[t] = "unreport", Finish(t, outcome)
  PROVE  /\ job' \in [Worker -> Jobs]
         /\ pc' \in [Worker -> States]
         /\ devices_pending' \in Seq(Path)
         /\ timeout' \in BOOLEAN
         /\ pending' \in BOOLEAN
<1>1. /\ job \in [Worker -> Jobs] /\ pc \in [Worker -> States]
      /\ timeout \in BOOLEAN /\ pending \in BOOLEAN /\ lastId \in Nat
  BY DEF TypeInv, TypeOK, Jobs, States
<1>2. NoJob \in Jobs BY <1>1, NoJobType
<1>3. job' \in [Worker -> Jobs] BY <1>1, <1>2 DEF Finish
<1>4. pc' \in [Worker -> States] BY <1>1 DEF Finish, Goto, States
<1>5. devices_pending' \in Seq(Path) BY PendingType DEF Finish
<1>6. timeout' \in BOOLEAN
  <2>1. timeout' \in {TRUE, FALSE} BY DEF Finish
  <2>2. QED BY <2>1
<1>7. pending' \in BOOLEAN
  <2>1. pending' \in {TRUE, FALSE} BY DEF Finish
  <2>2. QED BY <2>1
<1>8. QED BY <1>3, <1>4, <1>5, <1>6, <1>7

Entry == [id : Id \ {NoId}, path : Path, plug : Nat, registered : BOOLEAN]
InputNode == [id : Id \ {NoId}, path : Path]

\* The conjuncts of the type invariant by the names of this module.
LEMMA Types ==
  TypeInv <=>
    /\ setup \in Setups
    /\ node \in [Path -> {"absent", "locked", "open"}]
    /\ plug \in [Path -> Nat]
    /\ events \in 0 .. MaxEvents
    /\ queue \in Seq(Event) /\ batch \in Seq(Event)
    /\ timeout \in BOOLEAN /\ pending \in BOOLEAN
    /\ devices_pending \in Seq(Path)
    /\ devices_plugged \in Seq(Entry)
    /\ input_loop_fds \in Seq(InputNode)
    /\ lastId \in Nat
    /\ retired \subseteq Id /\ kept \subseteq Id
    /\ missed \subseteq Path
    /\ pc \in [Worker -> States]
    /\ job \in [Worker -> Jobs]
    /\ todo \subseteq Path
BY DEF TypeInv, TypeOK, Entry, InputNode, States, Jobs

LEMMA UsedPaths ==
  ASSUME TypeInv
  PROVE  setup.used \subseteq Path
BY SetupAssumption DEF TypeInv, Setup

LEMMA SetRegisteredType ==
  ASSUME TypeInv, NEW id, NEW b \in BOOLEAN, SetRegistered(id, b)
  PROVE  /\ devices_plugged' \in Seq(Entry)
         /\ DOMAIN devices_plugged' = DOMAIN devices_plugged
         /\ \A i \in DOMAIN devices_plugged :
              /\ devices_plugged'[i].id = devices_plugged[i].id
              /\ devices_plugged'[i].registered =
                   IF devices_plugged[i].id = id THEN b
                   ELSE devices_plugged[i].registered
<1>1. devices_plugged \in Seq(Entry) BY Types
<1>2. DOMAIN devices_plugged = 1 .. Len(devices_plugged)
      /\ Len(devices_plugged) \in Nat
  BY <1>1
<1>3. ASSUME NEW i \in DOMAIN devices_plugged
      PROVE  /\ devices_plugged'[i] \in Entry
             /\ devices_plugged'[i].id = devices_plugged[i].id
             /\ devices_plugged'[i].registered =
                  IF devices_plugged[i].id = id THEN b
                  ELSE devices_plugged[i].registered
  <2>1. devices_plugged[i] \in Entry BY <1>1
  <2>2. devices_plugged'[i] =
          IF devices_plugged[i].id = id
            THEN [devices_plugged[i] EXCEPT !.registered = b]
            ELSE devices_plugged[i]
    BY DEF SetRegistered
  <2>3. QED BY <2>1, <2>2 DEF Entry
<1>4. DOMAIN devices_plugged' = DOMAIN devices_plugged
  BY DEF SetRegistered
<1>5. devices_plugged' = [i \in 1 .. Len(devices_plugged) |->
                            devices_plugged'[i]]
  BY <1>2 DEF SetRegistered
<1>6. devices_plugged' \in Seq(Entry)
  BY <1>2, <1>3, <1>5
<1>7. QED BY <1>3, <1>4, <1>6

LEMMA RegisterType ==
  ASSUME TypeInv, NEW id \in Id \ {NoId}, NEW p \in Path, Register(id, p)
  PROVE  /\ devices_plugged' \in Seq(Entry)
         /\ input_loop_fds' \in Seq(InputNode)
<1>1. devices_plugged' \in Seq(Entry)
  BY SetRegisteredType DEF Register
<1>2. [id |-> id, path |-> p] \in InputNode BY DEF InputNode
<1>3. input_loop_fds \in Seq(InputNode) BY Types
<1>4. QED BY <1>1, <1>2, <1>3 DEF Register

LEMMA UnregisterType ==
  ASSUME TypeInv, NEW id \in Id, Unregister(id)
  PROVE  /\ devices_plugged' \in Seq(Entry)
         /\ input_loop_fds' \in Seq(InputNode)
         /\ retired' \subseteq Id
<1>1. devices_plugged' \in Seq(Entry)
  BY SetRegisteredType DEF Unregister
<1>2. input_loop_fds \in Seq(InputNode) BY Types
<1>3. input_loop_fds' \in Seq(InputNode)
  BY <1>2, WithoutId DEF Unregister
<1>4. QED BY <1>1, <1>3, Types DEF Unregister

\* The id of a path is that of one of its nodes.
LEMMA FirstIdType ==
  ASSUME TypeInv, NEW p
  PROVE  /\ FirstId(p) \in Id
         /\ FirstId(p) # NoId => FirstId(p) \in Ids(input_loop_fds)
<1>1. input_loop_fds \in Seq(InputNode) /\ lastId \in Nat BY Types
<1>2. CASE Nodes(p) = {}
  BY <1>1, <1>2 DEF FirstId, Id, NoId
<1>3. CASE Nodes(p) # {}
  <2>1. Nodes(p) \subseteq DOMAIN input_loop_fds
        /\ DOMAIN input_loop_fds \subseteq Nat
    BY <1>1 DEF Nodes
  <2>2. \E i \in Nodes(p) : \A j \in Nodes(p) : i <= j
    BY <1>3, <2>1, Smallest
  <2>3. PICK i \in Nodes(p) : FirstId(p) = input_loop_fds[i].id
    BY <1>3, <2>2 DEF FirstId
  <2>4. input_loop_fds[i] \in InputNode BY <1>1, <2>1
  <2>5. QED BY <2>1, <2>3, <2>4 DEF InputNode, Ids
<1>4. QED BY <1>2, <1>3

LEMMA KernelType == TypeInv /\ Kernel => TypeInv'
<1> SUFFICES ASSUME TypeInv, NEW p \in setup.used,
                    Plug(p) \/ Permit(p) \/ Unplug(p)
             PROVE  TypeInv'
  BY DEF Kernel
<1>1. p \in Path BY UsedPaths
<1>2. ASSUME NEW mask \in {"create", "attrib", "delete"}, Notify(mask, p)
      PROVE  events' \in 0 .. MaxEvents /\ queue' \in Seq(Event)
  <2>1. [mask |-> mask, path |-> p] \in Event BY <1>1 DEF Event
  <2>2. QED BY <1>2, <2>1, Types, BoundAssumption DEF Notify
<1>3. \E mask \in {"create", "attrib", "delete"} : Notify(mask, p)
  BY DEF Plug, Permit, Unplug
<1>4. events' \in 0 .. MaxEvents /\ queue' \in Seq(Event)
  BY <1>2, <1>3
<1>5. UNCHANGED <<setup, batch, retry, registry, lastId, pc, job, todo,
                  pending>>
  BY <1>3 DEF Notify
<1>8. missed' \subseteq Path
  BY <1>1, Types DEF Plug, Permit, Unplug
<1>6. /\ node' \in [Path -> {"absent", "locked", "open"}]
      /\ plug' \in [Path -> Nat]
  <2>1. CASE Plug(p) BY <1>1, <2>1, Types DEF Plug
  <2>2. CASE Permit(p)
    <3>1. PICK state \in {node[p], "open"} : node' = [node EXCEPT ![p] = state]
      BY <2>2 DEF Permit
    <3>2. state \in {"absent", "locked", "open"} BY <1>1, Types
    <3>3. QED BY <1>1, <2>2, <3>1, <3>2, Types DEF Permit
  <2>3. CASE Unplug(p) BY <1>1, <2>3, Types DEF Unplug
  <2>4. QED BY <2>1, <2>2, <2>3
<1>7. QED
  BY <1>4, <1>5, <1>6, <1>8, Types
  DEF retry, registry, history, TypeInv, TypeOK, Id, Entry, InputNode, Jobs, States

\* Begin, and every step of a worker between callbacks.
LEMMA BeginType ==
  ASSUME TypeInv, NEW t \in Worker, NEW p \in Path,
         NEW via \in {"list", "create", "attrib", "retry"},
         Begin(t, p, via)
  PROVE  job' \in [Worker -> Jobs] /\ pc' \in [Worker -> States]
<1>1. NoJob \in Jobs BY NoJobType, Types
<1>2. [NoJob EXCEPT !.path = p, !.via = via] \in Jobs
  BY <1>1 DEF Jobs
<1>3. QED BY <1>2, Types DEF Begin, Goto, States

LEMMA CallbackType ==
  ASSUME IInv, NEW t \in Worker, RunCallback(t)
  PROVE  TypeInv'
<1> USE DEF IInv
<1>1. CASE Open(t)
  <2>1. UNCHANGED <<kernel, queue, batch, registry, history, todo>>
    BY <1>1 DEF Open
  <2>2. CASE node[job[t].path] = "open"
    <3>1. /\ Goto(t, "probe")
          /\ job' = [job EXCEPT ![t].plug = plug[job[t].path]]
          /\ UNCHANGED <<retry, pending>>
      BY <1>1, <2>2 DEF Open
    <3>2. job[t] \in Jobs /\ plug[job[t].path] \in Nat
      BY Types DEF Jobs
    <3>3. job' \in [Worker -> Jobs]
      BY <3>1, <3>2, Types DEF Jobs
    <3>4. pc' \in [Worker -> States] BY <3>1, Types DEF Goto, States
    <3>5. QED
      BY <2>1, <3>1, <3>3, <3>4
      DEF kernel, retry, registry, history, TypeInv, TypeOK, Id, Jobs, States
  <2>3. CASE node[job[t].path] # "open"
    <3>1. Finish(t, "open") /\ InCallback(t)
      BY <1>1, <2>3 DEF Open, InCallback
    <3>2. QED
      BY <2>1, <3>1, FinishType
      DEF Outcome, kernel, registry, history, TypeInv, TypeOK, Id, Jobs, States
  <2>4. QED BY <2>2, <2>3
<1>2. CASE Probe(t)
  <2>1. UNCHANGED <<kernel, queue, batch, registry, missed, todo>>
    BY <1>2 DEF Probe
  <2>2. CASE node[job[t].path] = "open" /\ plug[job[t].path] = job[t].plug
    <3>1. /\ Goto(t, "push") /\ lastId' = lastId + 1
          /\ job' = [job EXCEPT ![t].id = lastId + 1]
          /\ UNCHANGED <<retry, pending>>
      BY <1>2, <2>2 DEF Probe
    <3>2. lastId' \in Nat /\ Id \subseteq Id' /\ lastId + 1 \in Id'
          /\ NoId' = NoId
      BY <3>1, Types DEF Id, NoId
    <3>3. Jobs \subseteq Jobs' /\ InputNode \subseteq InputNode'
          /\ Entry \subseteq Entry'
      BY <3>2 DEF Jobs, InputNode, Entry
    <3>4. job[t] \in Jobs' BY <3>3, Types
    <3>5. [job[t] EXCEPT !.id = lastId + 1] \in Jobs'
      BY <3>2, <3>4 DEF Jobs
    <3>6. job' \in [Worker -> Jobs']
      BY <3>1, <3>3, <3>5, Types
    <3>7. pc' \in [Worker -> States'] BY <3>1, Types DEF Goto, States
    <3>8. devices_plugged \in Seq(Entry') /\ input_loop_fds \in Seq(InputNode')
      BY <3>3, Types
    <3>9. retired' \subseteq Id'
      BY <2>1, <3>2, Types DEF registry
    <3>10. QED
      <4>1. TypeOK' /\ setup' \in Setups
        BY <2>1, <3>1, <3>2, <3>6, <3>7, <3>8, <3>9, Types
        DEF kernel, retry, registry, TypeOK, Entry, InputNode, Jobs, States,
            Event
      <4>2. QED BY <4>1 DEF TypeInv
  <2>3. CASE ~(node[job[t].path] = "open" /\ plug[job[t].path] = job[t].plug)
    <3>1. Finish(t, "other") /\ InCallback(t) /\ UNCHANGED lastId
      BY <1>2, <2>3 DEF Probe, InCallback
    <3>2. QED
      BY <2>1, <3>1, FinishType
      DEF Outcome, kernel, registry, history, TypeInv, TypeOK, Id, Jobs, States
  <2>4. QED BY <2>2, <2>3
<1>3. CASE PushDevice(t)
  <2> DEFINE e == [id |-> job[t].id, path |-> job[t].path,
                   plug |-> job[t].plug, registered |-> FALSE]
  <2>1. job[t] \in Jobs BY Types
  <2>2. job[t].id # NoId
    BY <1>3 DEF PushDevice, ListInv, FreshIds
  <2>3. e \in Entry BY <2>1, <2>2 DEF Jobs, Entry
  <2>4. devices_plugged' = <<e>> \o devices_plugged BY <1>3 DEF PushDevice
  <2> HIDE DEF e
  <2>5. devices_plugged' \in Seq(Entry) BY <2>3, <2>4, Types
  <2>6. pc' \in [Worker -> States]
    BY <1>3, Types DEF PushDevice, Goto, States
  <2>7. UNCHANGED <<kernel, queue, batch, retry, input_loop_fds, retired,
                    kept, history, job, todo, pending>>
    BY <1>3 DEF PushDevice
  <2>8. QED
    BY <2>5, <2>6, <2>7
    DEF kernel, retry, history, TypeInv, TypeOK, Id, Entry, Jobs, States
<1>4. CASE Report(t)
  <2>1. UNCHANGED <<kernel, queue, batch, history, todo>> /\ InCallback(t)
    BY <1>4 DEF Report, InCallback
  <2>2. \E outcome \in Outcome : Finish(t, outcome)
    BY <1>4 DEF Report, Outcome
  <2>3. /\ job' \in [Worker -> Jobs] /\ pc' \in [Worker -> States]
        /\ devices_pending' \in Seq(Path)
        /\ timeout' \in BOOLEAN /\ pending' \in BOOLEAN
    BY <2>1, <2>2, FinishType
  <2>4. job[t] \in Jobs /\ job[t].id # NoId
    BY <1>4, Types DEF Report, ListInv, FreshIds
  <2>5. job[t].id \in Id \ {NoId} /\ job[t].path \in Path
    BY <2>4 DEF Jobs
  <2>6. /\ devices_plugged' \in Seq(Entry)
        /\ input_loop_fds' \in Seq(InputNode)
        /\ UNCHANGED <<retired, kept>>
    <3>1. CASE UNCHANGED registry BY <3>1, Types DEF registry
    <3>2. CASE Register(job[t].id, job[t].path)
      BY <2>5, <3>2, RegisterType DEF Register
    <3>3. QED BY <1>4, <3>1, <3>2 DEF Report
  <2>7. QED
    BY <2>1, <2>3, <2>6
    DEF kernel, history, TypeInv, TypeOK, Id, Entry, InputNode, Jobs, States
<1>5. QED BY <1>1, <1>2, <1>3, <1>4 DEF RunCallback

LEMMA ListingType == TypeInv /\ Listing => TypeInv'
<1> SUFFICES ASSUME TypeInv, Listing PROVE TypeInv'
  OBVIOUS
<1>1. CASE Started
  <2>1. pc' \in [Worker -> States]
    BY <1>1, Types DEF Started, Goto, States
  <2>2. QED
    BY <1>1, <2>1
    DEF Started, kernel, retry, registry, history, TypeInv, TypeOK, Id, Jobs, States
<1>2. ASSUME NEW p \in Path, List(p) PROVE TypeInv'
  <2>1. job' \in [Worker -> Jobs] /\ pc' \in [Worker -> States]
    BY <1>2, BeginType, Workers DEF List
  <2>2. todo' \subseteq Path BY <1>2, Types DEF List
  <2>3. QED
    BY <1>2, <2>1, <2>2
    DEF List, kernel, retry, registry, history, TypeInv, TypeOK, Id, Jobs, States
<1>3. QED BY <1>1, <1>2 DEF Listing

\* An event is taken from the batch.
LEMMA EventType ==
  ASSUME TypeInv, NEW mask, NextEvent(mask)
  PROVE  Head(batch).path \in Path /\ batch' \in Seq(Event)
<1>1. batch \in Seq(Event) /\ batch # <<>> /\ batch' = Tail(batch)
  BY Types DEF NextEvent
<1>2. Head(batch) \in Event BY <1>1
<1>3. QED BY <1>1, <1>2 DEF Event

LEMMA HandleType ==
  ASSUME TypeInv, HandleCreate \/ HandleAttrib \/ HandleDelete
  PROVE  TypeInv'
<1>1. \E mask : NextEvent(mask)
  BY DEF HandleCreate, HandleAttrib, HandleDelete
<1>2. Head(batch).path \in Path /\ batch' \in Seq(Event)
  BY <1>1, EventType
<1>3. UNCHANGED <<kernel, queue, retry, registry, lastId, todo>>
      /\ missed' \subseteq Path
  BY <1>1, <1>2, Types
  DEF NextEvent, HandleCreate, HandleAttrib, HandleDelete
<1>4. /\ job' \in [Worker -> Jobs] /\ pc' \in [Worker -> States]
      /\ pending' \in BOOLEAN
  <2>1. CASE HandleCreate
    BY <1>2, <2>1, BeginType, Workers, Types DEF HandleCreate
  <2>2. CASE HandleAttrib
    <3>1. CASE UNCHANGED <<pc, job, pending>> BY <3>1, Types
    <3>2. CASE /\ Begin(DeviceThread, Head(batch).path, "attrib")
               /\ pending' = \E k \in DOMAIN devices_pending :
                               devices_pending[k] = Head(batch).path
      BY <1>2, <3>2, BeginType, Workers
    <3>3. QED BY <2>2, <3>1, <3>2 DEF HandleAttrib
  <2>3. CASE HandleDelete
    <3>1. CASE UNCHANGED <<pc, job>> BY <2>3, <3>1, Types DEF HandleDelete
    <3>2. CASE HandleDeleteOf(Head(batch).path)
      <4>1. FirstId(Head(batch).path) \in Id BY FirstIdType
      <4>2. NoJob \in Jobs BY NoJobType, Types
      <4>3. [NoJob EXCEPT !.path = Head(batch).path, !.via = "delete",
                          !.id = FirstId(Head(batch).path)] \in Jobs
        BY <1>2, <4>1, <4>2 DEF Jobs
      <4>4. QED
        BY <2>3, <3>2, <4>3, Types
        DEF HandleDelete, HandleDeleteOf, Goto, States
    <3>3. QED BY <2>3, <3>1, <3>2 DEF HandleDelete
  <2>4. QED BY <2>1, <2>2, <2>3
<1>5. QED
  BY <1>2, <1>3, <1>4
  DEF kernel, retry, registry, history, TypeInv, TypeOK, Id, Jobs, States

LEMMA UnlistType ==
  ASSUME TypeInv, Unlist
  PROVE  TypeInv'
<1>1. job[DeviceThread] \in Jobs BY Types, Workers
<1>2. devices_plugged' \in Seq(Entry)
  BY Types, WithoutId DEF Unlist
<1>3. PICK b \in BOOLEAN :
        job' = [job EXCEPT ![DeviceThread].registered = b]
  BY DEF Unlist
<1>4. [job[DeviceThread] EXCEPT !.registered = b] \in Jobs
  BY <1>1 DEF Jobs
<1>5. job' \in [Worker -> Jobs] BY <1>3, <1>4, Types
<1>6. pc' \in [Worker -> States] BY Types DEF Unlist, Goto, States
<1>9. missed' \subseteq Path
  <2>1. job[DeviceThread].path \in Path BY <1>1 DEF Jobs
  <2>2. QED BY <2>1, Types DEF Unlist
<1>7. UNCHANGED <<kernel, queue, batch, retry, input_loop_fds, retired,
                  kept, lastId, todo, pending>>
  BY DEF Unlist
<1>8. QED
  BY <1>2, <1>5, <1>6, <1>7, <1>9
  DEF kernel, retry, history, TypeInv, TypeOK, Id, Entry, Jobs, States

LEMMA UnreportType ==
  ASSUME IInv, Unreport
  PROVE  TypeInv'
<1> USE DEF IInv
<1>1. UNCHANGED <<kernel, queue, batch, history, todo>>
      /\ pc[DeviceThread] = "unreport"
  BY DEF Unreport
<1>2. \E outcome \in Outcome : Finish(DeviceThread, outcome)
  BY DEF Unreport, Outcome
<1>3. /\ job' \in [Worker -> Jobs] /\ pc' \in [Worker -> States]
      /\ devices_pending' \in Seq(Path)
      /\ timeout' \in BOOLEAN /\ pending' \in BOOLEAN
  BY <1>1, <1>2, FinishType, Workers
<1>4. job[DeviceThread].id \in Id BY Types, Workers DEF Jobs
<1>5. /\ devices_plugged' \in Seq(Entry)
      /\ input_loop_fds' \in Seq(InputNode)
      /\ retired' \subseteq Id /\ kept' \subseteq Id
  <2>1. CASE UNCHANGED registry BY <2>1, Types DEF registry
  <2>2. CASE Unregister(job[DeviceThread].id)
    BY <1>4, <2>2, UnregisterType, Types DEF Unregister
  <2>3. CASE /\ kept' = kept \cup IF Registered(job[DeviceThread].id)
                                   THEN {job[DeviceThread].id} ELSE {}
             /\ UNCHANGED <<devices_plugged, input_loop_fds, retired>>
    BY <1>4, <2>3, Types
  <2>4. QED BY <2>1, <2>2, <2>3 DEF Unreport
<1>6. QED
  BY <1>1, <1>3, <1>5
  DEF kernel, history, TypeInv, TypeOK, Id, Entry, InputNode, Jobs, States

LEMMA LoopType ==
  ASSUME TypeInv,
         PollEvents \/ Handled \/ PollTimeout \/ RetryNext \/ RetryEnd
  PROVE  TypeInv'
<1> USE Workers DEF kernel, retry, registry, history
<1>1. CASE PollEvents
  <2>1. batch' \in Seq(Event) /\ queue' \in Seq(Event)
    BY <1>1, Types DEF PollEvents
  <2>2. pc' \in [Worker -> States]
    BY <1>1, Types DEF PollEvents, Goto, States
  <2>3. QED
    BY <1>1, <2>1, <2>2 DEF PollEvents, TypeInv, TypeOK, Id, Jobs, States
<1>2. CASE Handled
  BY <1>2, Types DEF Handled, Goto, States, TypeInv, TypeOK, Id, Jobs
<1>3. CASE PollTimeout
  BY <1>3, Types DEF PollTimeout, Goto, States, TypeInv, TypeOK, Id, Jobs
<1>4. CASE RetryNext
  <2>1. devices_pending \in Seq(Path) /\ devices_pending # <<>>
    BY <1>4, Types DEF RetryNext
  <2>2. Head(devices_pending) \in Path
        /\ Tail(devices_pending) \in Seq(Path)
    BY <2>1
  <2>3. job' \in [Worker -> Jobs] /\ pc' \in [Worker -> States]
    BY <1>4, <2>2, BeginType DEF RetryNext
  <2>4. QED
    BY <1>4, <2>2, <2>3
    DEF RetryNext, TypeInv, TypeOK, Id, Jobs, States
<1>5. CASE RetryEnd
  BY <1>5, Types DEF RetryEnd, Goto, States, TypeInv, TypeOK, Id, Jobs
<1>6. QED BY <1>1, <1>2, <1>3, <1>4, <1>5

LEMMA AppType == TypeInv /\ App => TypeInv'
<1> SUFFICES ASSUME TypeInv, App PROVE TypeInv'
  OBVIOUS
<1>1. /\ UNCHANGED <<kernel, queue, batch, retry, history, pc, job, todo,
                     pending, kept>>
      /\ devices_plugged' \in Seq(Entry)
      /\ input_loop_fds' \in Seq(InputNode)
      /\ retired' \subseteq Id
  <2>1. ASSUME NEW i \in DOMAIN devices_plugged, AppRegister(i)
        PROVE  <1>1!:
    <3>1. devices_plugged[i] \in Entry BY Types
    <3>2. devices_plugged[i].id \in Id \ {NoId}
          /\ devices_plugged[i].path \in Path
      BY <3>1 DEF Entry
    <3>3. QED
      BY <2>1, <3>2, RegisterType, Types DEF AppRegister, Register
  <2>2. ASSUME NEW i \in DOMAIN input_loop_fds, AppUnregister(i)
        PROVE  <1>1!:
    <3>1. input_loop_fds[i] \in InputNode BY Types
    <3>2. input_loop_fds[i].id \in Id BY <3>1 DEF InputNode
    <3>3. QED BY <2>2, <3>2, UnregisterType DEF AppUnregister, Unregister
  <2>3. QED BY <2>1, <2>2 DEF App
<1>2. QED
  BY <1>1 DEF kernel, retry, history, TypeInv, TypeOK, Id, Entry, InputNode, Jobs,
              States

LEMMA TypeStep == IInv /\ [Next]_vars => TypeInv'
<1> SUFFICES ASSUME IInv, [Next]_vars PROVE TypeInv'
  OBVIOUS
<1> USE DEF IInv
<1>1. CASE UNCHANGED vars
  BY <1>1
  DEF vars, kernel, retry, registry, history, TypeInv, TypeOK, Id, Jobs, States
<1>2. CASE Next
  BY <1>2, KernelType, CallbackType, ListingType, HandleType, UnlistType,
     UnreportType, LoopType, AppType
  DEF Next, Device
<1>3. QED BY <1>1, <1>2

-----------------------------------------------------------------------------
(* The retries.                                                            *)

LEMMA RetryInit == Init => RetryInv
<1> SUFFICES ASSUME Init PROVE RetryInv
  OBVIOUS
<1>1. devices_pending = <<>> /\ pc[DeviceThread] = "poll"
  BY Workers DEF Init, Idle
<1>2. QED
  BY <1>1
  DEF RetryInv, WaitsOnce, LookedUp, Armed, Deleting, InCallback

\* What the invariant is about, unchanged by a step of somebody else.
LEMMA RetryFrame ==
  ASSUME RetryInv, UNCHANGED <<retry, pending>>,
         pc'[DeviceThread] = pc[DeviceThread],
         job'[DeviceThread] = job[DeviceThread]
  PROVE  RetryInv'
BY DEF RetryInv, WaitsOnce, LookedUp, Armed, Deleting, InCallback, Retrying,
       Waits, retry

\* A path is added when it does not wait yet, and leaves one place only.
LEMMA FinishRetry ==
  ASSUME TypeInv, RetryInv, NEW t \in Worker, NEW outcome \in Outcome,
         InCallback(t) \/ (t = DeviceThread /\ pc[t] = "unreport"),
         Finish(t, outcome)
  PROVE  RetryInv'
<1> DEFINE p == job[t].path
           i == CHOOSE k \in DOMAIN devices_pending : devices_pending[k] = p
<1>1. CASE t # DeviceThread
  <2>1. ~Answers(t, outcome) BY <1>1 DEF Answers
  <2>2. UNCHANGED <<retry, pending>>
    BY <2>1, Types DEF Finish, PendingAfter, retry
  <2>3. /\ pc'[DeviceThread] = pc[DeviceThread]
        /\ job'[DeviceThread] = job[DeviceThread]
    BY <1>1, Types, Workers DEF Finish, Goto
  <2>4. QED BY <2>2, <2>3, RetryFrame
<1>2. CASE t = DeviceThread
  <2>1. pc'[DeviceThread] = IF outcome = "other" THEN "exit"
                            ELSE IF job[DeviceThread].via = "retry"
                              THEN "retry" ELSE "handle"
    BY <1>2, Types, Workers DEF Finish, Goto
  <2>2. /\ devices_pending' = PendingAfter(DeviceThread, outcome)
        /\ timeout' = (timeout \/ (Answers(DeviceThread, outcome)
                                   /\ outcome = "open"))
    BY <1>2 DEF Finish
  <2>3. devices_pending \in Seq(Path) /\ p \in Path BY Types DEF Jobs
  <2>4. /\ DOMAIN devices_pending = 1 .. Len(devices_pending)
        /\ Len(devices_pending) \in Nat
    BY <2>3
  <2>5. Answers(DeviceThread, outcome) => (pending <=> Waits(p))
    BY <1>2 DEF Answers, RetryInv, LookedUp, Deleting
  <2>6. CASE Answers(DeviceThread, outcome) /\ outcome = "open" /\ ~pending
    <3>1. devices_pending' = Append(devices_pending, p)
      BY <1>2, <2>2, <2>6 DEF PendingAfter
    <3>2. \A k \in DOMAIN devices_pending : devices_pending[k] # p
      BY <2>5, <2>6 DEF Waits
    <3> HIDE DEF p
    <3>3. WaitsOnce'
      BY <2>3, <2>4, <3>1, <3>2 DEF RetryInv, WaitsOnce
    <3>4. timeout' BY <2>2, <2>6
    <3>5. QED
      BY <2>1, <3>3, <3>4
      DEF RetryInv, LookedUp, Armed, Deleting, InCallback
  <2>7. CASE Answers(DeviceThread, outcome) /\ outcome = "ok" /\ pending
    <3>1. devices_pending' =
            Front([devices_pending EXCEPT ![i] = Last(devices_pending)])
      BY <1>2, <2>2, <2>7 DEF PendingAfter
    <3>2. i \in DOMAIN devices_pending
      BY <2>5, <2>7 DEF Waits
    <3> HIDE DEF p, i
    <3>3. /\ devices_pending' \in Seq(Path)
          /\ Len(devices_pending') = Len(devices_pending) - 1
          /\ \A k \in 1 .. Len(devices_pending) - 1 :
               devices_pending'[k] =
                 IF k = i THEN devices_pending[Len(devices_pending)]
                 ELSE devices_pending[k]
      BY <2>3, <3>1, <3>2, WithoutLast
    <3>4. WaitsOnce'
      BY <2>4, <3>2, <3>3 DEF RetryInv, WaitsOnce
    <3>5. devices_pending # <<>> BY <2>4, <3>2
    <3>6. timeout \/ Retrying
      BY <1>2, <3>5 DEF RetryInv, Armed, InCallback
    <3>7. Armed'
      BY <1>2, <2>1, <2>2, <3>6 DEF Armed, Retrying, InCallback
    <3>8. QED
      BY <2>1, <3>4, <3>7 DEF RetryInv, LookedUp, Deleting, InCallback
  <2>8. CASE devices_pending' = devices_pending
    <3>1. WaitsOnce' BY <2>8 DEF RetryInv, WaitsOnce
    <3>2. devices_pending # <<>> => timeout \/ Retrying
      BY <1>2 DEF RetryInv, Armed, InCallback
    <3>3. Armed'
      BY <1>2, <2>1, <2>2, <2>8, <3>2 DEF Armed, Retrying, InCallback
    <3>4. QED
      BY <2>1, <3>1, <3>3 DEF RetryInv, LookedUp, Deleting, InCallback
  <2>9. QED BY <2>2, <2>6, <2>7, <2>8, <1>2 DEF PendingAfter
<1>3. QED BY <1>1, <1>2

LEMMA CallbackRetry ==
  ASSUME IInv, NEW t \in Worker, RunCallback(t)
  PROVE  RetryInv'
<1>1. /\ TypeInv /\ RetryInv /\ InCallback(t)
      /\ pc \in [Worker -> States] /\ job \in [Worker -> Jobs]
  BY Types DEF IInv, RunCallback, Open, Probe, PushDevice, Report, InCallback
<1>2. ASSUME NEW outcome \in Outcome, Finish(t, outcome) PROVE RetryInv'
  BY <1>1, <1>2, FinishRetry
<1>3. ASSUME NEW l \in {"probe", "push", "report"}, Goto(t, l),
             UNCHANGED <<retry, pending>>,
             \/ UNCHANGED job
             \/ job' = [job EXCEPT ![t].plug = plug[job[t].path]]
             \/ job' = [job EXCEPT ![t].id = lastId + 1]
      PROVE  RetryInv'
  <2>1. /\ InCallback(DeviceThread)' <=> InCallback(DeviceThread)
        /\ pc'[DeviceThread] \in {"poll", "retry", "exit", "unlist",
                                  "unreport"} =>
             pc'[DeviceThread] = pc[DeviceThread]
        /\ pc[DeviceThread] \in {"retry", "exit"} =>
             pc'[DeviceThread] = pc[DeviceThread]
    BY <1>1, <1>3, Workers DEF Goto, InCallback
  <2>2. /\ job'[DeviceThread].via = job[DeviceThread].via
        /\ job'[DeviceThread].path = job[DeviceThread].path
    BY <1>1, <1>3, Workers DEF Jobs
  <2>3. QED
    BY <1>1, <1>3, <2>1, <2>2
    DEF RetryInv, WaitsOnce, LookedUp, Armed, Deleting, Retrying, Waits, retry
<1>4. CASE Open(t)
  BY <1>2, <1>3, <1>4 DEF Open, Outcome
<1>5. CASE Probe(t)
  BY <1>2, <1>3, <1>5 DEF Probe, Outcome
<1>6. CASE PushDevice(t)
  BY <1>3, <1>6 DEF PushDevice
<1>7. CASE Report(t)
  BY <1>2, <1>7 DEF Report, Outcome
<1>8. QED BY <1>4, <1>5, <1>6, <1>7 DEF RunCallback

LEMMA RetryStep == IInv /\ [Next]_vars => RetryInv'
<1> SUFFICES ASSUME IInv, [Next]_vars PROVE RetryInv'
  OBVIOUS
<1>1. /\ TypeInv /\ RetryInv
      /\ pc \in [Worker -> States] /\ job \in [Worker -> Jobs]
      /\ devices_pending \in Seq(Path)
  BY Types DEF IInv
<1>2. CASE Kernel \/ App \/ UNCHANGED vars
  <2>1. UNCHANGED <<retry, pending, pc, job>>
    BY <1>2 DEF Kernel, Plug, Permit, Unplug, Notify, App, AppRegister,
                AppUnregister, vars
  <2>2. QED BY <1>1, <2>1, RetryFrame
<1>3. CASE Listing
  <2>1. /\ UNCHANGED <<retry, pending>>
        /\ pc'[DeviceThread] = pc[DeviceThread]
        /\ job'[DeviceThread] = job[DeviceThread]
    BY <1>1, <1>3, Workers DEF Listing, Started, List, Begin, Goto
  <2>2. QED BY <1>1, <2>1, RetryFrame
<1>4. CASE PollEvents \/ Handled
  <2>1. UNCHANGED <<retry, pending, job>>
        /\ pc[DeviceThread] \in {"poll", "handle"}
        /\ pc'[DeviceThread] \in {"poll", "handle"}
    BY <1>1, <1>4, Workers DEF PollEvents, Handled, Goto
  <2>2. QED
    BY <1>1, <2>1
    DEF RetryInv, WaitsOnce, LookedUp, Armed, Deleting, InCallback, Retrying,
        retry
<1>5. CASE HandleCreate \/ HandleDelete
  <2>1. UNCHANGED <<retry, pending>> /\ pc[DeviceThread] = "handle"
    BY <1>5 DEF HandleCreate, HandleDelete, NextEvent
  <2>2. \/ /\ pc'[DeviceThread] = "open"
           /\ job'[DeviceThread].via = "create"
        \/ /\ pc'[DeviceThread] = "unlist"
           /\ job'[DeviceThread].via = "delete"
        \/ UNCHANGED <<pc, job>>
    BY <1>1, <1>5, Workers
    DEF HandleCreate, HandleDelete, HandleDeleteOf, Begin, Goto, NoJob
  <2>3. QED
    BY <1>1, <2>1, <2>2
    DEF RetryInv, WaitsOnce, LookedUp, Armed, Deleting, InCallback, Retrying,
        retry
<1>6. CASE HandleAttrib
  <2>1. UNCHANGED retry /\ pc[DeviceThread] = "handle"
    BY <1>6 DEF HandleAttrib, NextEvent
  <2>2. \/ UNCHANGED <<pc, job, pending>>
        \/ /\ pc'[DeviceThread] = "open"
           /\ job'[DeviceThread].via = "attrib"
           /\ job'[DeviceThread].path = Head(batch).path
           /\ pending' = Waits(Head(batch).path)
    BY <1>1, <1>6, Workers DEF HandleAttrib, Begin, Goto, NoJob, Waits
  <2>3. QED
    BY <1>1, <2>1, <2>2
    DEF RetryInv, WaitsOnce, LookedUp, Armed, Deleting, InCallback, Retrying,
        Waits, retry
<1>7. CASE Unlist
  <2>1. /\ UNCHANGED <<retry, pending>>
        /\ pc[DeviceThread] = "unlist"
        /\ pc'[DeviceThread] \in {"unreport", "undefined"}
        /\ job'[DeviceThread].via = job[DeviceThread].via
    BY <1>1, <1>7, Workers DEF Unlist, Goto, Jobs
  <2>2. QED
    BY <1>1, <2>1
    DEF RetryInv, WaitsOnce, LookedUp, Armed, Deleting, InCallback, Retrying,
        retry
<1>8. CASE Unreport
  <2>1. \E outcome \in Outcome : Finish(DeviceThread, outcome)
    BY <1>8 DEF Unreport, Outcome
  <2>2. pc[DeviceThread] = "unreport" BY <1>8 DEF Unreport
  <2>3. QED BY <1>1, <2>1, <2>2, FinishRetry, Workers
<1>9. CASE PollTimeout
  <2>1. /\ UNCHANGED <<devices_pending, job, pending>>
        /\ pc'[DeviceThread] = "retry"
    BY <1>1, <1>9, Workers DEF PollTimeout, Goto
  <2>2. QED
    BY <1>1, <2>1
    DEF RetryInv, WaitsOnce, LookedUp, Armed, Deleting, InCallback, Retrying
<1>10. CASE RetryNext
  <2>1. /\ devices_pending # <<>> /\ devices_pending' = Tail(devices_pending)
        /\ pc'[DeviceThread] = "open"
        /\ job'[DeviceThread].via = "retry"
    BY <1>1, <1>10, Workers DEF RetryNext, Begin, Goto, NoJob
  <2>2. WaitsOnce'
    BY <1>1, <2>1 DEF RetryInv, WaitsOnce
  <2>3. QED
    BY <2>1, <2>2 DEF RetryInv, LookedUp, Armed, Deleting, InCallback, Retrying
<1>11. CASE RetryEnd
  <2>1. /\ UNCHANGED <<retry, pending>> /\ devices_pending = <<>>
        /\ pc'[DeviceThread] = "poll"
    BY <1>1, <1>11, Workers DEF RetryEnd, Goto
  <2>2. QED
    BY <1>1, <2>1
    DEF RetryInv, WaitsOnce, LookedUp, Armed, Deleting, InCallback, retry
<1>12. CASE \E t \in Worker : RunCallback(t)
  BY <1>12, CallbackRetry
<1>13. QED
  BY <1>2, <1>3, <1>4, <1>5, <1>6, <1>7, <1>8, <1>9, <1>10, <1>11, <1>12
  DEF Next, Device

-----------------------------------------------------------------------------
(* The list of devices and the registered nodes.                           *)

Special == {"push", "report", "unlist", "unreport"}

\* Every worker stays where it is, or goes where the invariant asks nothing.
Calm ==
    \A u \in Worker :
      \/ /\ pc'[u] = pc[u]
         /\ job'[u].id = job[u].id
         /\ job'[u].registered = job[u].registered
      \/ pc[u] # "unreport" /\ pc'[u] \notin Special

LEMMA ListInit == Init => ListInv
<1> SUFFICES ASSUME Init PROVE ListInv
  OBVIOUS
<1>1. devices_plugged = <<>> /\ input_loop_fds = <<>>
      /\ \A t \in Worker : pc[t] \in {"list", "poll"}
  BY DEF Init, Idle
<1>2. QED
  BY <1>1, Workers
  DEF ListInv, FreshIds, Once, Flagged, WatchedListed, Unlisting, Unique, Ids,
      Watched

LEMMA CalmList ==
  ASSUME ListInv, Calm, UNCHANGED <<devices_plugged, kept, input_loop_fds>>
  PROVE  ListInv'
<1>1. ListedIds' = ListedIds /\ Watched' = Watched
  BY DEF ListedIds, Watched, Ids
<1>2. FreshIds'
  BY <1>1 DEF ListInv, FreshIds, Calm, Special
<1>3. Once' /\ Flagged'
  BY <1>1 DEF ListInv, Once, Flagged, Unique
<1>4. WatchedListed' /\ Unlisting'
  BY <1>1, Workers DEF ListInv, WatchedListed, Unlisting, Calm, Special
<1>5. QED BY <1>2, <1>3, <1>4 DEF ListInv

\* register_add appends a node: the entry said that there was none.
LEMMA RegisterList ==
  ASSUME TypeInv, ListInv, Calm, NEW id \in Id \ {NoId}, NEW p \in Path,
         Register(id, p)
  PROVE  ListInv'
<1>1. /\ DOMAIN devices_plugged' = DOMAIN devices_plugged
      /\ \A i \in DOMAIN devices_plugged :
           /\ devices_plugged'[i].id = devices_plugged[i].id
           /\ devices_plugged'[i].registered =
                IF devices_plugged[i].id = id THEN TRUE
                ELSE devices_plugged[i].registered
  BY SetRegisteredType DEF Register
<1>2. ListedIds' = ListedIds BY <1>1 DEF ListedIds, Ids
<1>3. PICK e \in DOMAIN devices_plugged :
        devices_plugged[e].id = id /\ ~devices_plugged[e].registered
  BY DEF Register
<1>4. id \in ListedIds /\ id \notin Watched
  BY <1>3 DEF ListedIds, Ids, ListInv, Flagged
<1> DEFINE n == [id |-> id, path |-> p]
<1>5. input_loop_fds \in Seq(InputNode) BY Types
<1>6. input_loop_fds' = Append(input_loop_fds, n) /\ n.id = id
  BY DEF Register
<1> HIDE DEF n
<1>7. /\ DOMAIN input_loop_fds = 1 .. Len(input_loop_fds)
      /\ DOMAIN input_loop_fds' = 1 .. Len(input_loop_fds) + 1
      /\ Len(input_loop_fds) \in Nat
      /\ \A k \in 1 .. Len(input_loop_fds) :
           input_loop_fds'[k] = input_loop_fds[k]
      /\ input_loop_fds'[Len(input_loop_fds) + 1] = n
  BY <1>5, <1>6
<1>8. Watched' = Watched \cup {id}
  BY <1>6, <1>7 DEF Watched, Ids
<1>9. Unique(input_loop_fds)'
  <2>1. \A k \in 1 .. Len(input_loop_fds) : input_loop_fds[k].id # id
    BY <1>4, <1>7 DEF Watched, Ids
  <2>2. QED
    BY <1>6, <1>7, <2>1 DEF ListInv, Once, Unique
<1>10. Once'
  BY <1>1, <1>9 DEF ListInv, Once, Unique
<1>11. Flagged'
  BY <1>1, <1>8 DEF ListInv, Flagged
<1>12. FreshIds'
  BY <1>2, <1>4, <1>8 DEF ListInv, FreshIds, Calm, Special
<1>15. UNCHANGED kept BY DEF Register
<1>13. WatchedListed' /\ Unlisting'
  BY <1>2, <1>4, <1>8, <1>15, Workers
  DEF ListInv, WatchedListed, Unlisting, Calm, Special
<1>14. QED BY <1>10, <1>11, <1>12, <1>13 DEF ListInv

\* register_del takes one node out, and its entry says so.
LEMMA UnregisterList ==
  ASSUME TypeInv, ListInv, NEW id \in Id, Unregister(id)
  PROVE  /\ ListedIds' = ListedIds
         /\ Watched' = Watched \ {id}
         /\ Once' /\ Flagged'
<1>1. /\ DOMAIN devices_plugged' = DOMAIN devices_plugged
      /\ \A i \in DOMAIN devices_plugged :
           /\ devices_plugged'[i].id = devices_plugged[i].id
           /\ devices_plugged'[i].registered =
                IF devices_plugged[i].id = id THEN FALSE
                ELSE devices_plugged[i].registered
  BY SetRegisteredType DEF Unregister
<1>2. ListedIds' = ListedIds BY <1>1 DEF ListedIds, Ids
<1>3. input_loop_fds \in Seq(InputNode) BY Types
<1>4. Unique(input_loop_fds)' /\ Watched' = Watched \ {id}
  <2>1. /\ Unique(Without(input_loop_fds, id))
        /\ Ids(Without(input_loop_fds, id)) = Ids(input_loop_fds) \ {id}
    BY <1>3, WithoutId DEF ListInv, Once
  <2>2. input_loop_fds' = Without(input_loop_fds, id) BY DEF Unregister
  <2>3. QED BY <2>1, <2>2 DEF Watched, Unique, Ids
<1>5. Once' BY <1>1, <1>4 DEF ListInv, Once, Unique
<1>6. Flagged' BY <1>1, <1>4 DEF ListInv, Flagged
<1>7. QED BY <1>2, <1>4, <1>5, <1>6

\* The end of a callback that reported a device, or failed to.
LEMMA FinishCalm ==
  ASSUME TypeInv, NEW t \in Worker, NEW outcome \in Outcome,
         pc[t] # "unreport", Finish(t, outcome)
  PROVE  Calm
<1>1. pc'[t] \in {"list", "exit", "retry", "handle"}
  BY Types DEF Finish, Goto
<1>2. \A u \in Worker \ {t} : pc'[u] = pc[u] /\ job'[u] = job[u]
  BY Types DEF Finish, Goto
<1>3. QED BY <1>1, <1>2 DEF Calm, Special

\* The only list a worker changes before it is done is that of devices.
LEMMA PushList ==
  ASSUME IInv, NEW t \in Worker, PushDevice(t)
  PROVE  ListInv'
<1> USE DEF IInv
<1> DEFINE e == [id |-> job[t].id, path |-> job[t].path,
                 plug |-> job[t].plug, registered |-> FALSE]
           id == job[t].id
<1>1. job[t] \in Jobs BY Types
<1>2. /\ pc[t] = "push" /\ id # NoId /\ id \notin ListedIds \cup Watched
      /\ \A u \in Worker \ {t} : pc[u] \in Special => job[u].id # id
  BY DEF PushDevice, ListInv, FreshIds, Special
<1>3. e \in Entry BY <1>1, <1>2 DEF Jobs, Entry
<1>4. devices_plugged' = <<e>> \o devices_plugged /\ UNCHANGED input_loop_fds
  BY DEF PushDevice
<1>5. e.id = id OBVIOUS
<1>6. devices_plugged \in Seq(Entry) BY Types
<1>7. /\ UNCHANGED job /\ pc'[t] = "report"
      /\ \A u \in Worker \ {t} : pc'[u] = pc[u]
  BY Types DEF PushDevice, Goto
<1> HIDE DEF e, id
<1>8. /\ DOMAIN devices_plugged = 1 .. Len(devices_plugged)
      /\ DOMAIN devices_plugged' = 1 .. Len(devices_plugged) + 1
      /\ Len(devices_plugged) \in Nat
      /\ devices_plugged'[1] = e
      /\ \A k \in 2 .. Len(devices_plugged) + 1 :
           devices_plugged'[k] = devices_plugged[k - 1]
  BY <1>3, <1>4, <1>6
<1>9. \A k \in 2 .. Len(devices_plugged) + 1 : k - 1 \in DOMAIN devices_plugged
  BY <1>8
<1>10. ListedIds' = ListedIds \cup {id}
  <2>1. \A k \in DOMAIN devices_plugged :
          /\ k + 1 \in DOMAIN devices_plugged'
          /\ devices_plugged'[k + 1] = devices_plugged[k]
    BY <1>8
  <2>2. \A k \in DOMAIN devices_plugged' :
          k = 1 \/ k \in 2 .. Len(devices_plugged) + 1
    BY <1>8
  <2>3. 1 \in DOMAIN devices_plugged' BY <1>8
  <2>4. QED BY <1>5, <1>8, <1>9, <2>1, <2>2, <2>3 DEF ListedIds, Ids
<1>11. Watched' = Watched BY <1>4 DEF Watched, Ids
<1>12. \A k \in DOMAIN devices_plugged : devices_plugged[k].id # id
  BY <1>2 DEF ListedIds, Ids
<1>13. Once'
  BY <1>4, <1>5, <1>8, <1>9, <1>12 DEF ListInv, Once, Unique
<1>14. Flagged'
  <2> SUFFICES ASSUME NEW k \in DOMAIN devices_plugged',
                      devices_plugged'[k].id \in Watched
               PROVE  devices_plugged'[k].registered
    BY <1>11 DEF Flagged
  <2>1. k # 1 BY <1>2, <1>5, <1>8
  <2>2. k \in 2 .. Len(devices_plugged) + 1 BY <1>8, <2>1
  <2>3. QED BY <1>8, <1>9, <2>2 DEF ListInv, Flagged
<1>15. FreshIds'
  <2> SUFFICES ASSUME NEW u \in Worker
               PROVE  /\ pc'[u] \in {"push", "report"} => job'[u].id # NoId
                      /\ pc'[u] = "push" =>
                           /\ job'[u].id \notin ListedIds' \cup Watched'
                           /\ \A v \in Worker \ {u} :
                                pc'[v] \in Special => job'[v].id # job'[u].id
    BY DEF FreshIds, Special, NoId
  <2>1. CASE u = t BY <1>2, <1>7, <2>1 DEF id
  <2>2. CASE u # t
    <3>1. pc'[u] = pc[u] /\ job'[u] = job[u] BY <1>7, <2>2
    <3>2. pc[u] = "push" =>
            /\ job[u].id \notin ListedIds \cup Watched
            /\ job[u].id # id
            /\ \A v \in Worker \ {u} :
                 pc[v] \in Special => job[v].id # job[u].id
      BY <1>2, <2>2 DEF ListInv, FreshIds, Special
    <3>3. \A v \in Worker \ {u} : pc'[v] \in Special => pc[v] \in Special
      BY <1>2, <1>7 DEF Special
    <3>4. pc[u] \in {"push", "report"} => job[u].id # NoId
      BY DEF ListInv, FreshIds
    <3>5. QED BY <1>7, <1>10, <1>11, <3>1, <3>2, <3>3, <3>4
  <2>3. QED BY <2>1, <2>2
<1>18. UNCHANGED kept BY DEF PushDevice
<1>16. WatchedListed' /\ Unlisting'
  BY <1>2, <1>7, <1>10, <1>11, <1>18, Workers
  DEF ListInv, WatchedListed, Unlisting, Special
<1>17. QED BY <1>13, <1>14, <1>15, <1>16 DEF ListInv

LEMMA CallbackList ==
  ASSUME IInv, NEW t \in Worker, RunCallback(t)
  PROVE  ListInv'
<1>1. /\ TypeInv /\ ListInv
      /\ pc \in [Worker -> States] /\ job \in [Worker -> Jobs]
  BY Types DEF IInv
<1>2. CASE Open(t)
  <2>1. UNCHANGED <<devices_plugged, kept, input_loop_fds>> /\ pc[t] = "open"
    BY <1>2 DEF Open, registry
  <2>2. CASE node[job[t].path] = "open"
    <3>1. Calm
      BY <1>1, <1>2, <2>1, <2>2 DEF Open, Goto, Calm, Special
    <3>2. QED BY <1>1, <2>1, <3>1, CalmList
  <2>3. CASE node[job[t].path] # "open"
    BY <1>1, <1>2, <2>1, <2>3, FinishCalm, CalmList DEF Open, Outcome
  <2>4. QED BY <2>2, <2>3
<1>3. CASE Probe(t)
  <2>1. UNCHANGED <<devices_plugged, kept, input_loop_fds>> /\ pc[t] = "probe"
    BY <1>3 DEF Probe, registry
  <2>2. CASE node[job[t].path] = "open" /\ plug[job[t].path] = job[t].plug
    <3>1. /\ pc' = [pc EXCEPT ![t] = "push"]
          /\ job' = [job EXCEPT ![t].id = lastId + 1]
      BY <1>3, <2>2 DEF Probe, Goto
    <3>2. /\ pc'[t] = "push" /\ job'[t].id = lastId + 1
          /\ \A u \in Worker \ {t} : pc'[u] = pc[u] /\ job'[u] = job[u]
      BY <1>1, <3>1 DEF Jobs
    <3>3. lastId \in Nat /\ lastId + 1 \notin Id /\ lastId + 1 # NoId
      BY <1>1, Types DEF Id, NoId
    <3>4. ListedIds \subseteq Id /\ Watched \subseteq Id
      <4>1. /\ devices_plugged \in Seq(Entry)
            /\ input_loop_fds \in Seq(InputNode)
        BY <1>1, Types
      <4>2. \A i \in DOMAIN devices_plugged : devices_plugged[i].id \in Id
        <5>1. \A i \in DOMAIN devices_plugged : devices_plugged[i] \in Entry
          BY <4>1
        <5>2. QED BY <5>1 DEF Entry
      <4>3. \A i \in DOMAIN input_loop_fds : input_loop_fds[i].id \in Id
        <5>1. \A i \in DOMAIN input_loop_fds : input_loop_fds[i] \in InputNode
          BY <4>1
        <5>2. QED BY <5>1 DEF InputNode
      <4>4. QED BY <4>2, <4>3 DEF ListedIds, Watched, Ids
    <3>5. \A u \in Worker : job[u].id \in Id BY <1>1 DEF Jobs
    <3>6. ListedIds' = ListedIds /\ Watched' = Watched
      BY <2>1 DEF ListedIds, Watched, Ids
    <3>7. FreshIds'
      BY <1>1, <3>2, <3>3, <3>4, <3>5, <3>6 DEF ListInv, FreshIds, NoId
    <3>8. Once' /\ Flagged'
      BY <1>1, <2>1, <3>6 DEF ListInv, Once, Flagged, Unique
    <3>9. WatchedListed' /\ Unlisting'
      BY <1>1, <2>1, <3>2, <3>6, Workers
      DEF ListInv, WatchedListed, Unlisting
    <3>10. QED BY <3>7, <3>8, <3>9 DEF ListInv
  <2>3. CASE ~(node[job[t].path] = "open" /\ plug[job[t].path] = job[t].plug)
    BY <1>1, <1>3, <2>1, <2>3, FinishCalm, CalmList DEF Probe, Outcome
  <2>4. QED BY <2>2, <2>3
<1>4. CASE PushDevice(t) BY <1>4, PushList
<1>5. CASE Report(t)
  <2>1. pc[t] = "report" BY <1>5 DEF Report
  <2>2. \E outcome \in Outcome : Finish(t, outcome)
    BY <1>5 DEF Report, Outcome
  <2>3. Calm BY <1>1, <2>1, <2>2, FinishCalm
  <2>4. CASE UNCHANGED registry
    BY <1>1, <2>3, <2>4, CalmList DEF registry
  <2>5. CASE Register(job[t].id, job[t].path)
    <3>1. job[t].id \in Id \ {NoId} /\ job[t].path \in Path
      BY <1>1, <2>1 DEF ListInv, FreshIds, Jobs
    <3>2. QED BY <1>1, <2>3, <2>5, <3>1, RegisterList
  <2>6. QED BY <1>5, <2>4, <2>5 DEF Report
<1>6. QED BY <1>2, <1>3, <1>4, <1>5 DEF RunCallback

\* A DELETE looks a watched id up: its device is listed.
LEMMA HandleDeleteList ==
  ASSUME TypeInv, ListInv, HandleDelete
  PROVE  ListInv'
<1> DEFINE p == Head(batch).path
           id == FirstId(p)
<1>1. /\ UNCHANGED <<devices_plugged, kept, input_loop_fds>>
      /\ pc[DeviceThread] = "handle"
  BY DEF HandleDelete, NextEvent, registry
<1>2. CASE UNCHANGED <<pc, job>>
  <2>1. Calm BY <1>2 DEF Calm
  <2>2. QED BY <1>1, <2>1, CalmList
<1>3. CASE id # NoId /\ HandleDeleteOf(p)
  <2>1. id \in Watched BY <1>3, FirstIdType DEF Watched
  <2>2. id \in ListedIds \cup kept
    BY <1>1, <2>1 DEF ListInv, WatchedListed
  <2>3. /\ pc'[DeviceThread] = "unlist"
        /\ job'[DeviceThread].id = id
        /\ pc'[Starter] = pc[Starter] /\ job'[Starter] = job[Starter]
    BY <1>3, Types, Workers DEF HandleDeleteOf, Goto, NoJob
  <2>4. ListedIds' = ListedIds /\ Watched' = Watched
    BY <1>1 DEF ListedIds, Watched, Ids
  <2> HIDE DEF id
  <2>5. FreshIds'
    BY <2>1, <2>3, <2>4 DEF ListInv, FreshIds, Worker
  <2>6. Once' /\ Flagged'
    BY <1>1, <2>4 DEF ListInv, Once, Flagged, Unique
  <2>7. WatchedListed' /\ Unlisting'
    BY <1>1, <2>2, <2>3, <2>4 DEF ListInv, WatchedListed, Unlisting
  <2>8. QED BY <2>5, <2>6, <2>7 DEF ListInv
<1>4. QED BY <1>2, <1>3 DEF HandleDelete

LEMMA UnlistList ==
  ASSUME TypeInv, ListInv, Unlist
  PROVE  ListInv'
<1> DEFINE id == job[DeviceThread].id
           here == {i \in DOMAIN devices_plugged : devices_plugged[i].id = id}
           list == Without(devices_plugged, id)
<1>1. devices_plugged \in Seq(Entry) /\ Unique(devices_plugged)
  BY Types DEF ListInv, Once
<1>2. /\ pc[DeviceThread] = "unlist" /\ id \in ListedIds \cup kept
      /\ UNCHANGED <<input_loop_fds, kept>>
      /\ devices_plugged' = list
  BY DEF Unlist, ListInv, Unlisting
<1>3. /\ \A k \in DOMAIN list :
           \E j \in DOMAIN devices_plugged : list[k] = devices_plugged[j]
      /\ Unique(list)
      /\ Ids(list) = ListedIds \ {id}
  BY <1>1, WithoutId DEF ListedIds
<1>4. /\ pc'[DeviceThread] =
           IF id \in ListedIds THEN "unreport" ELSE "undefined"
      /\ job'[DeviceThread].id = id
      /\ job'[DeviceThread].registered =
           \E i \in here : devices_plugged[i].registered
      /\ pc'[Starter] = pc[Starter] /\ job'[Starter] = job[Starter]
  BY Types, Workers DEF Unlist, Goto, Jobs, ListedIds, Ids
<1> HIDE DEF list
<1>5. ListedIds' = ListedIds \ {id} /\ Watched' = Watched
  BY <1>2, <1>3 DEF ListedIds, Watched, Ids
<1>6. ASSUME id \in ListedIds
      PROVE  id \in Watched => job'[DeviceThread].registered
  <2>1. PICK i \in DOMAIN devices_plugged : devices_plugged[i].id = id
    BY <1>6 DEF ListedIds, Ids
  <2>2. id \in Watched => devices_plugged[i].registered
    BY <2>1 DEF ListInv, Flagged
  <2>3. QED BY <1>4, <2>1, <2>2
<1> HIDE DEF id, here
<1>7. Once'
  BY <1>2, <1>3 DEF ListInv, Once, Unique
<1>8. Flagged'
  BY <1>2, <1>3, <1>5 DEF ListInv, Flagged
<1>9. FreshIds'
  BY <1>2, <1>4, <1>5 DEF ListInv, FreshIds, Worker, id
<1>10. WatchedListed' /\ Unlisting'
  BY <1>2, <1>4, <1>5, <1>6 DEF ListInv, WatchedListed, Unlisting
<1>11. QED BY <1>7, <1>8, <1>9, <1>10 DEF ListInv

\* The node goes with the entry, in whatever way register_del was called, or
\* is one of those that were left registered.
LEMMA UnreportList ==
  ASSUME TypeInv, ListInv, Unreport
  PROVE  ListInv'
<1> DEFINE id == job[DeviceThread].id
<1>1. /\ pc[DeviceThread] = "unreport" /\ id \notin ListedIds
      /\ id \in Watched => job[DeviceThread].registered
  BY DEF Unreport, ListInv, Unlisting
<1>2. \E outcome \in Outcome : Finish(DeviceThread, outcome)
  BY DEF Unreport, Outcome
<1>3. /\ pc'[DeviceThread] \in {"exit", "retry", "handle"}
      /\ pc'[Starter] = pc[Starter] /\ job'[Starter] = job[Starter]
  BY <1>2, Types, Workers DEF Finish, Goto
<1>4. /\ ListedIds' = ListedIds
      /\ \/ Watched' = Watched \ {id} /\ UNCHANGED kept
         \/ Watched' = Watched /\ kept' = kept \cup {id}
      /\ Once' /\ Flagged'
  <2>1. CASE Unregister(id)
    <3>1. id \in Id BY Types, Workers DEF Jobs
    <3>2. QED BY <2>1, <3>1, UnregisterList DEF Unregister
  <2>2. CASE UNCHANGED registry /\ id \notin Watched
    <3>1. ListedIds' = ListedIds /\ Watched' = Watched
      BY <2>2 DEF registry, ListedIds, Watched, Ids
    <3>2. QED
      BY <2>2, <3>1 DEF registry, ListInv, Once, Flagged, Unique
  <2>3. Registered(id) <=> id \in Watched
    BY DEF Registered, Watched, Ids
  <2>4. CASE /\ kept' = kept \cup {id} /\ id \in Watched
             /\ UNCHANGED <<devices_plugged, input_loop_fds>>
    <3>1. ListedIds' = ListedIds /\ Watched' = Watched
      BY <2>4 DEF ListedIds, Watched, Ids
    <3>2. QED
      BY <2>4, <3>1 DEF ListInv, Once, Flagged, Unique
  <2>5. \/ Unregister(id)
        \/ UNCHANGED registry /\ ~Registered(id)
        \/ /\ kept' = kept \cup IF Registered(id) THEN {id} ELSE {}
           /\ UNCHANGED <<devices_plugged, input_loop_fds, retired>>
    BY DEF Unreport
  <2>6. ASSUME kept' = kept, ~Registered(id),
               UNCHANGED <<devices_plugged, input_loop_fds, retired>>
        PROVE  UNCHANGED registry
    BY <2>6 DEF registry
  <2>7. QED BY <2>1, <2>2, <2>3, <2>4, <2>5, <2>6
<1> HIDE DEF id
<1>5. FreshIds'
  BY <1>3, <1>4 DEF ListInv, FreshIds, Worker
<1>6. WatchedListed' /\ Unlisting'
  BY <1>1, <1>3, <1>4 DEF ListInv, WatchedListed, Unlisting, id
<1>7. QED BY <1>4, <1>5, <1>6 DEF ListInv

LEMMA AppList == TypeInv /\ ListInv /\ App => ListInv'
<1> SUFFICES ASSUME TypeInv, ListInv, App PROVE ListInv'
  OBVIOUS
<1>1. UNCHANGED <<pc, job>>
  BY DEF App, AppRegister, AppUnregister
<1>2. Calm BY <1>1 DEF Calm
<1>3. ASSUME NEW i \in DOMAIN devices_plugged, AppRegister(i)
      PROVE  ListInv'
  <2>1. devices_plugged[i] \in Entry BY Types
  <2>2. devices_plugged[i].id \in Id \ {NoId}
        /\ devices_plugged[i].path \in Path
    BY <2>1 DEF Entry
  <2>3. QED BY <1>2, <1>3, <2>2, RegisterList DEF AppRegister
<1>4. ASSUME NEW i \in DOMAIN input_loop_fds, AppUnregister(i)
      PROVE  ListInv'
  <2> DEFINE id == input_loop_fds[i].id
  <2>1. input_loop_fds[i] \in InputNode BY Types
  <2>2. id \in Id BY <2>1 DEF InputNode
  <2>3. Unregister(id) BY <1>4 DEF AppUnregister
  <2> HIDE DEF id
  <2>4. /\ ListedIds' = ListedIds /\ Watched' = Watched \ {id}
        /\ Once' /\ Flagged' /\ UNCHANGED kept
    BY <2>2, <2>3, UnregisterList DEF Unregister
  <2>5. FreshIds' BY <1>1, <2>4 DEF ListInv, FreshIds
  <2>6. WatchedListed' /\ Unlisting'
    BY <1>1, <2>4 DEF ListInv, WatchedListed, Unlisting
  <2>7. QED BY <2>4, <2>5, <2>6 DEF ListInv
<1>5. QED BY <1>3, <1>4 DEF App

LEMMA ListStep == IInv /\ [Next]_vars => ListInv'
<1> SUFFICES ASSUME IInv, [Next]_vars PROVE ListInv'
  OBVIOUS
<1>1. /\ TypeInv /\ ListInv
      /\ pc \in [Worker -> States] /\ job \in [Worker -> Jobs]
  BY Types DEF IInv
<1>2. CASE Kernel \/ UNCHANGED vars
  <2>1. UNCHANGED <<devices_plugged, kept, input_loop_fds, pc, job>>
    BY <1>2 DEF Kernel, Plug, Permit, Unplug, Notify, vars, registry
  <2>2. Calm BY <2>1 DEF Calm
  <2>3. QED BY <1>1, <2>1, <2>2, CalmList
<1>3. CASE Listing
  <2>1. /\ UNCHANGED <<devices_plugged, kept, input_loop_fds>>
        /\ pc[Starter] = "list" /\ pc'[Starter] \in {"open", "started"}
        /\ pc'[DeviceThread] = pc[DeviceThread]
        /\ job'[DeviceThread] = job[DeviceThread]
    BY <1>1, <1>3, Workers
    DEF Listing, Started, List, Begin, Goto, registry
  <2>2. Calm BY <2>1 DEF Calm, Special, Worker
  <2>3. QED BY <1>1, <2>1, <2>2, CalmList
<1>4. CASE \/ PollEvents \/ Handled \/ HandleCreate \/ HandleAttrib
           \/ PollTimeout \/ RetryNext \/ RetryEnd
  <2>1. UNCHANGED <<devices_plugged, kept, input_loop_fds>>
    BY <1>4
    DEF PollEvents, Handled, HandleCreate, HandleAttrib, NextEvent,
        PollTimeout, RetryNext, RetryEnd, registry
  <2>2. \/ UNCHANGED <<pc, job>>
        \/ /\ pc[DeviceThread] \in {"poll", "handle", "retry"}
           /\ pc'[DeviceThread] \in {"poll", "handle", "retry", "open"}
           /\ pc'[Starter] = pc[Starter] /\ job'[Starter] = job[Starter]
    BY <1>1, <1>4, Workers
    DEF PollEvents, Handled, HandleCreate, HandleAttrib, NextEvent,
        PollTimeout, RetryNext, RetryEnd, Begin, Goto
  <2>3. Calm BY <2>2 DEF Calm, Special, Worker
  <2>4. QED BY <1>1, <2>1, <2>3, CalmList
<1>5. CASE \E t \in Worker : RunCallback(t)
  BY <1>5, CallbackList
<1>6. QED
  BY <1>1, <1>2, <1>3, <1>4, <1>5, HandleDeleteList, UnlistList, UnreportList,
     AppList
  DEF Next, Device

-----------------------------------------------------------------------------

LEMMA Invariant == Spec => []IInv
<1>1. Init => IInv BY TypeInit, RetryInit, ListInit DEF IInv
<1>2. IInv /\ [Next]_vars => IInv'
  BY TypeStep, RetryStep, ListStep DEF IInv
<1>3. QED BY <1>1, <1>2, PTL DEF Spec

\* The lists keep their shape through every interleaving of the thread in
\* start, the device thread and the calls of the application.
THEOREM TypeCorrect == Spec => []TypeOK
<1>1. IInv => TypeOK BY DEF IInv, TypeInv
<1>2. QED BY <1>1, Invariant, PTL

\* A path waits for a retry once, and while the device thread polls with a
\* path waiting the timer is armed: none is forgotten (helpers.c:601-860).
THEOREM RetryIsArmed == Spec => []RetryArmed
<1>1. IInv => RetryArmed
  BY DEF IInv, RetryInv, WaitsOnce, Armed, Retrying, InCallback, RetryArmed
<1>2. QED BY <1>1, Invariant, PTL

\* Whatever the application registers or unregisters, and whenever, the unplug
\* branch of run_device_callback finds the id that device_handle looked up,
\* unless that id is one its own unplug callback left registered.
THEOREM UnplugFinds == Spec => []UnplugFindsEntry
<1>1. IInv => UnplugFindsEntry
  BY DEF IInv, ListInv, Unlisting, ListedIds, Ids, UnplugFindsEntry, ListsId
<1>2. QED BY <1>1, Invariant, PTL

\* An unplug callback that leaves its device registered is the only way for a
\* node to outlive the entry of its device.
THEOREM NodesAreListed == Spec => []NodesListed
<1>1. IInv => NodesListed
  BY DEF IInv, ListInv, WatchedListed, ListedIds, Watched, Ids, NodesListed, ListsId
<1>2. QED BY <1>1, Invariant, PTL

=============================================================================
