----------------------------- MODULE Lifecycle -----------------------------
(***************************************************************************)
(* The life of a punknobs context: what is common to the backends.         *)
(*                                                                         *)
(* An application has a context made by punknobs_init, starts and stops    *)
(* it, and gives it back to punknobs_clean.  Every call goes through the   *)
(* table of functions to the backend, whose steps EvdevLifecycle and       *)
(* WinLifecycle define.  The application is the repository's example: it   *)
(* looks at the code of its error record after every call, and calls clean *)
(* as soon as that is not OK.  One that stopped may also start again.      *)
(*                                                                         *)
(* What happens between calls to the devices is left to the other modules. *)
(***************************************************************************)
EXTENDS Naturals, Sequences, FiniteSets

CONSTANTS
    Backends,       \* backends the table of functions may be filled for
    App,            \* the application's thread
    Device, Input,  \* the two loops a backend runs in threads
    Again,          \* backends that are started again after a stop
    MaxStarts       \* bound on the calls of start

\* Every start has its own threads.
Session == 1 .. MaxStarts
Thread == {Device, Input} \X Session

ASSUME LifecycleAssumption ==
    /\ Backends \subseteq {"evdev", "win"}
    /\ Again \subseteq Backends
    /\ Device # Input
    /\ App \notin Thread
    /\ MaxStarts \in Nat

VARIABLES
    config,   \* the backend in the table of functions
    call,     \* the application's latest call
    pc,       \* where the application is in it
    context,  \* memory of the context
    backend,  \* memory that context->backend_context leads to
    error,    \* does the application's error record hold an error
    closed,   \* the flag that tells threads to end
    held,     \* what has been created or opened, and not yet given back
    thread,   \* where each thread is
    starts,
    failed,   \* history: calls that failed, or were taken for failed
    stray     \* history: uses of what is freed, null or not open, by whom

memory == <<context, backend>>
history == <<failed, stray>>
vars == <<config, call, pc, memory, error, closed, held, thread, starts,
          history>>

Init ==
    /\ config \in Backends
    /\ call = "none"
    /\ pc = "idle"
    /\ context = "none"
    /\ backend = "none"
    /\ error = FALSE
    /\ closed = FALSE
    /\ held = {}
    /\ thread = [t \in Thread |-> "none"]
    /\ starts = 0
    /\ failed = {}
    /\ stray = {}

Begin(c) == call' = c /\ pc' = "begin"

\* The backend's function is at step l of call c.
At(c, l) == call = c /\ pc = l

Goto(l) == pc' = l /\ UNCHANGED call

\* The function returns with its error set.
Returned(e) ==
    /\ failed' = IF e THEN failed \cup {call} ELSE failed
    /\ Goto("returned")

Return(e) == error' = e /\ Returned(e)

\* It goes on.
Continue(l) == Goto(l) /\ UNCHANGED <<error, failed>>

Starting == {<<Device, starts>>, <<Input, starts>>}
Live == {t \in Thread : thread[t] \notin {"none", "ended"}}

Stray(who, what) == stray' = stray \cup {<<who, what>>}

-----------------------------------------------------------------------------
(* The application                                                         *)

\* Without memory for a context there is nothing to be done.
PunknobsInit ==
    /\ call = "none"
    /\ \/ context' = "held" /\ Begin("init")
       \/ pc' = "done" /\ UNCHANGED <<context, call>>
    /\ pc # "done"
    /\ UNCHANGED <<config, backend, error, closed, held, thread, starts,
                   history>>

\* Look at the error of the call that has returned.
Check ==
    /\ pc = "returned"
    /\ call # "clean"
    /\ IF error
         THEN failed' = failed \cup {call} /\ Begin("clean")
         ELSE Goto("idle") /\ UNCHANGED failed
    /\ UNCHANGED <<config, memory, error, closed, held, thread, starts, stray>>

PunknobsStart ==
    /\ pc = "idle"
    /\ call \in {"init", "stop"}
    /\ starts < MaxStarts
    /\ starts = 0 \/ config \in Again
    /\ starts' = starts + 1
    /\ Begin("start")
    /\ UNCHANGED <<config, memory, error, closed, held, thread, history>>

PunknobsStop ==
    /\ pc = "idle"
    /\ call = "start"
    /\ Begin("stop")
    /\ UNCHANGED <<config, memory, error, closed, held, thread, starts,
                   history>>

\* Between init and start the example cleans if it cannot set the delays.
Clean ==
    /\ pc = "idle"
    /\ call \in {"init", "stop"}
    /\ Begin("clean")
    /\ UNCHANGED <<config, memory, error, closed, held, thread, starts,
                   history>>

\* punknobs_clean frees the context whatever the backend's clean did.
PunknobsClean ==
    /\ At("clean", "returned")
    /\ context' = "freed"
    /\ failed' = IF error THEN failed \cup {"clean"} ELSE failed
    /\ Goto("done")
    /\ UNCHANGED <<config, backend, error, closed, held, thread, starts, stray>>

Application ==
    \/ PunknobsInit \/ Check \/ PunknobsStart \/ PunknobsStop \/ Clean
    \/ PunknobsClean
=============================================================================
