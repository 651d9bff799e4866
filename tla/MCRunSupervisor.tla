-------------------------- MODULE MCRunSupervisor --------------------------
EXTENDS RunSupervisor
=============================================================================
