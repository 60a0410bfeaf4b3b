----------------------------- MODULE MCVmStart ------------------------------
EXTENDS VmStart
=============================================================================
