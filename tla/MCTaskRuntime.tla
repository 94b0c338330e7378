---- MODULE MCTaskRuntime ----
EXTENDS TaskRuntime
====
