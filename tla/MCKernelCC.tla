----------------------------- MODULE MCKernelCC -----------------------------
EXTENDS KernelCC, TLC

Interchangeable == Permutations(Thread)
=============================================================================
