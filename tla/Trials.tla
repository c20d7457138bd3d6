-------------------------------- MODULE Trials --------------------------------
(***************************************************************************)
(* A calculation is tried on one input at a time: a state holds the        *)
(* calculation's name and the input, and no step follows.                  *)
(***************************************************************************)
VARIABLES subject, input

trial == <<subject, input>>

Untried == subject = "none" /\ input = << >>
Try(name, inputs) == subject = "none" /\ subject' = name /\ input' \in inputs

\* The property holds of the input whenever it is one of the calculation named.
For(name, holds) == subject = name => holds
==============================================================================
