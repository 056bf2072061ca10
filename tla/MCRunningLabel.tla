---------------------------- MODULE MCRunningLabel ----------------------------
(* RunningLabel with two values of the setting and one label of a user. *)
EXTENDS RunningLabel

MCRunningLabels == {"running", "working"}
MCHumanLabels == {"urgent"}
===============================================================================
