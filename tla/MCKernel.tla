------------------------------- MODULE MCKernel -------------------------------
EXTENDS Kernel
=============================================================================
