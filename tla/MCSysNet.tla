------------------------------ MODULE MCSysNet ------------------------------
(***************************************************************************)
(* TLC instances of SysNet and SysNetClaims.                               *)
(***************************************************************************)
EXTENDS SysNetClaims

=============================================================================
