------------------------- MODULE MCWorkerSupervisor -------------------------
EXTENDS WorkerSupervisor

CONSTANTS f0, f1
=============================================================================
