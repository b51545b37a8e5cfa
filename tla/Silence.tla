-------------------------------- MODULE Silence --------------------------------
(***************************************************************************)
(* What the block list promises whoever reads it.  The kernel lets in a    *)
(* set of addresses.  One that an alert has named may be taken out, one at *)
(* a time; whoever is on the list is out; and nobody comes back but by an  *)
(* operator, who takes him off the list if he is on it.                    *)
(***************************************************************************)
CONSTANT Addr

VARIABLES filtering,   \* the XDP program is attached
          admitted,    \* whom it lets in
          accused,     \* whom an actionable alert has named
          blocked,     \* the block list
          forgotten,   \* taken off the list, not yet let in again
          reopened     \* let in again at some time

silenceVars == <<filtering, admitted, accused, blocked, forgotten, reopened>>

Init ==
    /\ filtering = TRUE
    /\ admitted \subseteq Addr
    /\ accused = {} /\ blocked = {} /\ forgotten = {} /\ reopened = {}

Accuse ==
    /\ \E ip \in Addr : accused' = accused \cup {ip}
    /\ UNCHANGED <<filtering, admitted, blocked, forgotten, reopened>>

Deny ==
    /\ filtering
    /\ \E ip \in accused \cap admitted : admitted' = admitted \ {ip}
    /\ UNCHANGED <<filtering, accused, blocked, forgotten, reopened>>

\* A race with an operator may put somebody on the list who has just been let in again.
Block ==
    /\ filtering
    /\ \E ip \in accused \ (admitted \ reopened) : blocked' = blocked \cup {ip}
    /\ UNCHANGED <<filtering, admitted, accused, forgotten, reopened>>

Forget ==
    /\ filtering /\ forgotten = {}
    /\ \E ip \in Addr : blocked' = blocked \ {ip} /\ forgotten' = {ip}
    /\ UNCHANGED <<filtering, admitted, accused, reopened>>

\* Letting in may fail, for want of room.
Readmit ==
    /\ filtering
    /\ \E ip \in forgotten : /\ admitted' \in {admitted, admitted \cup {ip}}
                             /\ forgotten' = forgotten \ {ip}
                             /\ reopened' = reopened \cup {ip}
    /\ UNCHANGED <<filtering, accused, blocked>>

\* Without the program the kernel lets everybody in.
Quit ==
    /\ filtering
    /\ filtering' = FALSE /\ admitted' = Addr
    /\ UNCHANGED <<accused, blocked, forgotten, reopened>>

Next == Accuse \/ Deny \/ Block \/ Forget \/ Readmit \/ Quit

Spec == Init /\ [][Next]_silenceVars
================================================================================
