--------------------------- MODULE MCSubscriptions ---------------------------
(* Subscriptions with an internal topic of its own name and one with a     *)
(* '+', and one custom topic that two threads may register.                *)
EXTENDS Subscriptions

CONSTANTS callback, control, hub, command

MCInternal == <<callback, control>>
MCHubs == <<hub>>
MCCovers == [t \in {control} |-> {command}]
MCNames == {callback, command, hub}
=============================================================================
