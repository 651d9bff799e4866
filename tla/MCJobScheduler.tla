--------------------------- MODULE MCJobScheduler ---------------------------
(* Windows that touch and windows that overlap. *)
EXTENDS JobScheduler

Window(a, s) == [alarm |-> a, stop |-> s]
MCConfigs == {Window(0, 1), Window(1, 2), Window(0, 2)}
MCTouching == {Window(0, 1), Window(1, 2)}
=============================================================================
