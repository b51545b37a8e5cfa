----------------------------- MODULE MCDepartments -----------------------------
(* Three departments in a chain whose numbers ascend from the root, and the    *)
(* commands an operator gives: one after the other, or side by side.           *)
EXTENDS Departments, TLC

Spawn(d, tier, parent) == [op |-> "spawn", dept |-> d, tier |-> tier, parent |-> parent]
Call(op, d)            == [op |-> op, dept |-> d, tier |-> Staff, parent |-> NoParent]

Symmetry == Permutations(Pid) \cup Permutations(Command)

Chain == {Spawn(0, Root, NoParent), Spawn(1, Director, 0), Spawn(2, Staff, 1)}

\* One after the other, with containers that die and spawns that fail.
MCLife == [commands |-> Chain \cup {Call("quarantine", 1), Call("unquarantine", 1)},
           overlap |-> FALSE, deaths |-> TRUE, reuse |-> FALSE, faults |-> {"start"}]

\* Two roots, so that one can be spawned while the other has ended.
MCSnapshots == [commands |-> {Spawn(0, Root, NoParent), Spawn(1, Root, NoParent),
                              Call("snapshot", 0), Call("status", 0)},
                overlap |-> FALSE, deaths |-> TRUE, reuse |-> FALSE, faults |-> {"save", "veth"}]

\* Side by side: one department whose containers die while commands are killed, and two
\* departments that are spawned, quarantined and looked at.
MCSideBySide == [commands |-> {Spawn(0, Root, NoParent), Call("quarantine", 0)},
                 overlap |-> TRUE, deaths |-> TRUE, reuse |-> FALSE, faults |-> {"crash", "nft"}]

MCTwoSideBySide == [commands |-> {Spawn(0, Root, NoParent), Spawn(1, Director, 0),
                                  Call("quarantine", 0), Call("status", 0)},
                    overlap |-> TRUE, deaths |-> FALSE, reuse |-> FALSE, faults |-> {"veth"}]

MCReuse == [commands |-> {Spawn(0, Root, NoParent), Call("quarantine", 0)},
            overlap |-> FALSE, deaths |-> TRUE, reuse |-> TRUE, faults |-> {}]

MCLives == {MCLife, MCSnapshots, MCSideBySide, MCTwoSideBySide, MCReuse}

\* What an operator may do about a quarantined department
MCHeld == {[commands |-> {Spawn(0, Root, NoParent), Call("quarantine", 0),
                          Call("unquarantine", 0), Call("snapshot", 0)},
            overlap |-> FALSE, deaths |-> FALSE, reuse |-> FALSE, faults |-> {}]}
=============================================================================
