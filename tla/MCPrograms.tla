----------------------------- MODULE MCPrograms -----------------------------
(***************************************************************************)
(* The baseline programs, alone and in pairs.                              *)
(***************************************************************************)
EXTENDS Programs

SomeBoots ==
  {<<p>> : p \in {"main4", "userM", "userN", "userT", "userU", "userH", "userI", "userJ"}} \cup
  {<<"main1", "main2">>, <<"main3", "userP">>, <<"userQ", "userV">>, <<"userR", "userS">>,
   <<"userH", "userT">>}

SomeStatuses == {E_BAD_SYSCALL} \cup 0 .. MaxPid
=============================================================================
