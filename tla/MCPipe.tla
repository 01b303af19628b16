------------------------------- MODULE MCPipe -------------------------------
(***************************************************************************)
(* A small pipe for model checking: events at both ends of the range of    *)
(* timestamps, where differences wrap around, and one in between.          *)
(***************************************************************************)
EXTENDS IrPipe

Msgs      == {"a", "b"}
NearEnd   == {MaxTime - 1}
Extremes  == {[ts |-> MinTime, msg |-> "a"], [ts |-> MaxTime, msg |-> "b"],
              [ts |-> 0, msg |-> "a"]}
TwoBytes  == {2}
=============================================================================
