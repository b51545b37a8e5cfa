------------------------------- MODULE Hierarchy -------------------------------
(***************************************************************************)
(* The four-tier RBAC tree (hierarchy/rbac.go).  A tree is a function from *)
(* the registered department ids to [tier, parent, children]; it lives in  *)
(* the memory of one process and is rebuilt by every other.                *)
(***************************************************************************)
EXTENDS Integers, FiniteSets

Staff == 0
Manager == 1
Director == 2
Root == 3

Tier == Staff .. Root

NoParent == -1

EmptyTree == [d \in {} |-> [tier |-> Root, parent |-> NoParent, children |-> {}]]

\* RegisterDepartment's conditions: a new id, and below a parent of a strictly higher
\* tier unless it is a ROOT.
MayRegister(tree, d, tier, parent) ==
    /\ d \notin DOMAIN tree
    /\ \/ tier = Root
       \/ parent \in DOMAIN tree /\ tree[parent].tier > tier

\* RegisterDepartment.  What parent a ROOT is given is ignored.
Register(tree, d, tier, parent) ==
    [x \in DOMAIN tree \cup {d} |->
        IF x = d
        THEN [tier     |-> tier,
              parent   |-> IF tier = Root THEN NoParent ELSE parent,
              children |-> {}]
        ELSE IF x = parent /\ tier # Root
        THEN [tree[x] EXCEPT !.children = @ \cup {d}]
        ELSE tree[x]]

\* collectSubordinates: all below a department, whose tiers decrease on the way down.
Subordinates(tree, d) ==
    LET below[x \in DOMAIN tree] ==
            tree[x].children \cup UNION {below[c] : c \in tree[x].children \cap DOMAIN tree}
    IN  IF d \in DOMAIN tree THEN below[d] ELSE {}

\* isSubordinateOf
IsSubordinateOf(tree, target, ancestor) ==
    LET under[x \in DOMAIN tree] ==
            \E c \in tree[x].children :
                c = target \/ (c \in DOMAIN tree /\ under[c])
    IN  ancestor \in DOMAIN tree /\ under[ancestor]

\* Slip: isSubordinateOf is asked the wrong way round.
CanAccessUpwards(tree, requester, target) ==
    \/ requester = target
    \/ tree[requester].tier = Root
    \/ tree[requester].tier = Director /\ IsSubordinateOf(tree, requester, target)
    \/ tree[requester].tier = Manager /\ target \in tree[requester].children

\* CanAccess, for registered departments
CanAccess(tree, requester, target) ==
    \/ requester = target
    \/ tree[requester].tier = Root
    \/ tree[requester].tier = Director /\ IsSubordinateOf(tree, target, requester)
    \/ tree[requester].tier = Manager /\ target \in tree[requester].children

\* ListVisible
ListVisible(tree, requester) ==
    CASE tree[requester].tier = Root     -> DOMAIN tree
      [] tree[requester].tier = Director -> {requester} \cup Subordinates(tree, requester)
      [] tree[requester].tier = Manager  -> {requester} \cup tree[requester].children
      [] tree[requester].tier = Staff    -> {requester}
=============================================================================
