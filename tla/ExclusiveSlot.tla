--------------------------- MODULE ExclusiveSlot ---------------------------
(***************************************************************************)
(* What a console slot promises, independent of any BMC: a client that asks *)
(* is granted the slot if nobody holds it and refused if somebody does, and *)
(* only the client that holds the slot gives it back.  The KVM bridges      *)
(* (bmc.ErrBusy, HTTP 409) are meant to implement it.                       *)
(***************************************************************************)
CONSTANTS Clients, None

VARIABLES
    holder,     \* the client that holds the slot, or None
    reply       \* what each client was told

vars == <<holder, reply>>

Init ==
    /\ holder = None
    /\ reply = [c \in Clients |-> "none"]

Take(c) ==
    /\ holder = None
    /\ reply[c] = "none"
    /\ holder' = c
    /\ reply' = [reply EXCEPT ![c] = "granted"]

Refuse(c) ==
    /\ holder # None
    /\ reply[c] = "none"
    /\ reply' = [reply EXCEPT ![c] = "busy"]
    /\ UNCHANGED holder

Give(c) ==
    /\ holder = c
    /\ holder' = None
    /\ UNCHANGED reply

Next == \E c \in Clients : Take(c) \/ Refuse(c) \/ Give(c)

Spec == Init /\ [][Next]_vars
=============================================================================
