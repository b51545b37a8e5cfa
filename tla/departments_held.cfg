SPECIFICATION Spec
SYMMETRY Symmetry
CONSTANTS
    Dept = {0, 1, 2}
    Command = {c1, c2}
    Pid = {p1, p2, p3, p4}
    Subnet = {1, 2, 3}
    Environments <- MCHeld
PROPERTIES QuarantineEndsByCommand
