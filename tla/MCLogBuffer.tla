---------------------------- MODULE MCLogBuffer ----------------------------
(* LogBuffer.tla on a backlog of two lines and two threads.              *)
EXTENDS LogBuffer

CONSTANTS t1, t2

MCThreads == {t1, t2}

============================================================================
