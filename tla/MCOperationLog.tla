-------------------------- MODULE MCOperationLog --------------------------
\* Instances of OperationLog for TLC.
EXTENDS OperationLog

MCSlots == 1..5
=============================================================================
