----------------------------- MODULE MCAuditChain -----------------------------
(* The daemon and the commands an operator runs: one after the other, with   *)
(* failing writes, with appends inside a rotation, or with neither; and side *)
(* by side.                                                                  *)
EXTENDS AuditChain

MCInTurn  == {[overlap |-> FALSE, rotation |-> "apart", faults |-> {"open", "sync"}],
              [overlap |-> FALSE, rotation |-> "between", faults |-> {}]}
MCQuiet   == {[overlap |-> FALSE, rotation |-> "apart", faults |-> {}]}
MCOverlap == {[overlap |-> TRUE, rotation |-> "apart", faults |-> {}]}
=============================================================================
