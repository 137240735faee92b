--------------------------- MODULE MCKernelClaims ---------------------------
(***************************************************************************)
(* TLC instances of KernelClaims.                                          *)
(***************************************************************************)
EXTENDS MCKernel, KernelClaims

=============================================================================
