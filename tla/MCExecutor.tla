------------------------------- MODULE MCExecutor -------------------------------
EXTENDS Executor
=============================================================================
