------------------------------ MODULE Punknobs ------------------------------
(***************************************************************************)
(* The library's life with either backend: the application's calls of      *)
(* Lifecycle composed with the steps and the threads of the backend that   *)
(* the table of functions leads to.                                        *)
(***************************************************************************)
EXTENDS EvdevLifecycle, WinLifecycle

allVars == <<vars, evdev, author, lists>>

PunknobsInitial ==
    /\ Init
    /\ owner = {}
    /\ heard = {}
    /\ author = App
    /\ refs = "empty"
    /\ regs = "empty"
    /\ leads = {}

\* Once freed memory has been used anything may follow, and the model ends.
Defined == stray \subseteq {<<App, "zero">>, <<App, "null">>}

Next ==
    /\ Defined
    /\ \/ Application /\ UNCHANGED <<evdev, author, lists>>
       \/ EvdevCalls /\ UNCHANGED <<author, lists>>
       \/ \E t \in Thread : EvdevThread(t) /\ UNCHANGED <<author, lists>>
       \/ WinCalls /\ UNCHANGED evdev
       \/ \E t \in Thread : WinThread(t) /\ UNCHANGED evdev

Spec == PunknobsInitial /\ [][Next]_allVars

-----------------------------------------------------------------------------
(* Properties                                                              *)

EvdevResources == {"pending", "input_pipe", "input_epoll", "input_list",
                   "device_pipe", "device_epoll", "mutex", "semaphore",
                   "inotify", "devices"}
WinResources == {"main", "enum", "reg", "event", "dinput", "thread_device",
                 "thread_input", "thread_dinput", "strings", "objects"}

\* The states of a backend, and the other one left alone.
EvdevTypeOK ==
    /\ held \subseteq EvdevResources
    /\ thread \in [Thread -> {"none", "entered", "looping", "ended"}]
    /\ <<refs, regs, leads>> = <<"empty", "empty", {}>>

WinTypeOK ==
    /\ held \subseteq WinResources
    /\ thread \in [Thread -> {"none", "entered", "update", "check", "turn",
                              "swap", "ended"}]
    /\ {refs, regs} \subseteq {"empty", "linked", "dangling"}
    /\ leads \subseteq {"entry", "reg"}
    /\ owner = {} /\ heard = {} /\ ~closed

TypeOK ==
    /\ config \in Backends
    /\ call \in {"none", "init", "start", "stop", "clean"}
    /\ pc \in {"idle", "begin", "returned", "done", "device", "input", "list",
               "join", "join_device", "watch", "lists", "mutex", "started",
               "refs", "reg", "stopped", "enum", "event", "free"}
    /\ {context, backend} \subseteq {"none", "held", "freed"}
    /\ error \in BOOLEAN
    /\ closed \in BOOLEAN
    /\ starts \in 0 .. MaxStarts
    /\ failed \subseteq {"init", "start", "stop", "clean"}
    /\ heard \subseteq Thread
    /\ stray \subseteq {App, Device, Input}
                         \X {"null", "zero", "backend", "refs", "regs",
                             "entry", "reg"}
    /\ owner \subseteq Thread \cup {App}
    /\ author \in Thread \cup {App}
    /\ config = "evdev" => EvdevTypeOK
    /\ config = "win" => WinTypeOK

\* With evdev the threads never use what clean has freed, unless a start or a
\* stop failed: the example then calls clean with threads running, after a start
\* that created one (evdev_epoll.c:434 to 474), or a stop that was refused the
\* mutex, as by a request refused before on the same thread (493 to 500), or the
\* join of a thread (525 to 544).  Descriptor 0 is closed, or a null pointer
\* followed, after a failed init only (evdev_epoll.c:278 to 281).
FreedUnused ==
    config = "evdev" =>
      /\ (\E l \in {Device, Input} : <<l, "backend">> \in stray)
           => {"start", "stop"} \cap failed # {}
      /\ {<<App, "zero">>, <<App, "null">>} \cap stray # {} => "init" \in failed

\* What is not given back.
Left ==
    held \cup {m \in {"backend"} : backend = "held"}
         \cup {m \in {"threads"} : Live # {}}
         \cup {m \in {"refs"} : refs = "linked"}
         \cup {m \in {"regs"} : regs = "linked"}

\* What a life without failures leaves.  With evdev it is two descriptors
\* (evdev_epoll.c:270 to 375).  With Windows it is, but for the handles and the
\* backend itself, about everything: the objects of DirectInput, the strings of
\* the devices, the threads, and what they make after stop has freed the lists
\* (win.c:310 to 366 and 434 to 549).
Leaked ==
    IF config = "evdev" THEN {"input_epoll", "device_epoll"}
    ELSE {"dinput", "thread_dinput", "objects", "strings", "threads", "refs",
          "regs"}

GivesBack == context = "freed" /\ failed = {} => Left \subseteq Leaked

\* With evdev no thread of any start runs after a stop that succeeded, whatever
\* ended the threads and whoever lost the mutex meanwhile
\* (evdev_epoll.c:483 to 556).
StoppedIsOver ==
    /\ config = "evdev"
    /\ call = "clean" \/ At("stop", "watch") \/ At("stop", "idle")
    /\ failed = {}
    => Live = {}

\* Starting again after stop is deaf with evdev: closed stays set, so that the
\* new threads end before their first turn, and start succeeds all the same
\* (evdev_epoll.c:503, helpers.c:908 and 1210).
DeafAfterStop == config = "evdev" => \A t \in heard : t[2] = 1

\* A thread is never ended by the error that its own callback left: it resets
\* the record before it looks (win_helpers.c:103).  It is ended by an error that
\* the other thread, or that of another start, puts there in between, or by
\* clean having closed the mutex.
EndedByOthers ==
    [][\A t \in Thread :
         thread[t] = "check" /\ thread'[t] = "ended"
           => author # t \/ "main" \notin held]_allVars
=============================================================================
