------------------------------ MODULE MCHotReload ------------------------------
(* HotReload with a file that enables the note and the mirror, one that turns   *)
(* both jobs off by an interval and names another repository, one that names a  *)
(* project the agent does not see and an interval beyond the limit, and one     *)
(* that is no JSON.                                                             *)
EXTENDS HotReload, TLC

None == [k \in Keys |-> Unset]
MCDefaults == [None EXCEPT !.noteInterval = 3, !.syncInterval = 1]
MCFiles ==
    {Garbage,
     [None EXCEPT !.project = "p", !.repository = "r"],
     [None EXCEPT !.repository = "s", !.noteInterval = 0, !.syncInterval = 0],
     [None EXCEPT !.project = "q", !.noteInterval = 9, !.syncInterval = 2]}
===============================================================================
