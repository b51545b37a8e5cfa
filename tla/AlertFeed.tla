------------------------------- MODULE AlertFeed -------------------------------
(***************************************************************************)
(* What AGENT-BETA promises the daemon about the policy violations it      *)
(* sees.  A violation may be lost, and that is the end of it; none is      *)
(* invented, reported twice, overtaken by a later one, or left hanging.    *)
(***************************************************************************)
EXTENDS Naturals

CONSTANT MaxViolations   \* bound: violations seen

VARIABLES seen,          \* how many there were: they are numbered as they come
          unsettled,     \* those neither delivered nor lost
          latest         \* the last one the daemon has read (0: none)

feedVars == <<seen, unsettled, latest>>

Init == seen = 0 /\ unsettled = {} /\ latest = 0

See == /\ seen < MaxViolations
       /\ seen' = seen + 1
       /\ unsettled' \in {unsettled, unsettled \cup {seen + 1}}
       /\ UNCHANGED latest

Deliver == \E v \in unsettled :
              /\ latest < v /\ \A w \in unsettled : v <= w
              /\ unsettled' = unsettled \ {v}
              /\ latest' = v
              /\ UNCHANGED seen

Lose == /\ unsettled' \in (SUBSET unsettled) \ {unsettled}
        /\ UNCHANGED <<seen, latest>>

Next == See \/ Deliver \/ Lose

Settle == Deliver \/ Lose

Spec == Init /\ [][Next]_feedVars /\ WF_feedVars(Settle)
================================================================================
