--------------------------- MODULE MCKernelPromises ---------------------------
\* KernelPromises for model checking: the constants are in the cfg files.
EXTENDS KernelPromisesProperties
=============================================================================
