--------------------------- MODULE MCEvdevHotplug ---------------------------
(* Instances of EvdevHotplug for TLC. *)
EXTENDS EvdevHotplug, TLC

First == CHOOSE p \in Path : TRUE

\* One path and any use of registration, or all paths and every device
\* registered, none there at first.
OneOrAll ==
    {[used |-> {First}, initial |-> {First}, registersAll |-> FALSE],
     [used |-> Path, initial |-> {}, registersAll |-> TRUE]}

\* Nothing is plugged at first.
Unplugged == {[used |-> {First}, initial |-> {}, registersAll |-> FALSE]}
=============================================================================
