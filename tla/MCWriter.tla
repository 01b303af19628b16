------------------------------ MODULE MCWriter ------------------------------
(***************************************************************************)
(* A small Writer for model checking: all timestamps, two messages.        *)
(***************************************************************************)
EXTENDS Writer

Msgs       == {"a", "b"}
AllTimes   == Times
SomeEvents == {[ts |-> t, msg |-> "a"] : t \in Times} \cup {[ts |-> 0, msg |-> "b"]}
Sizes      == {1, 2}
=============================================================================
