---------------------------- MODULE MCFactoryService ----------------------------
(***************************************************************************)
(* The instance of MCProtoFactory on which ProtoFactory is checked against *)
(* ImportService.                                                          *)
(***************************************************************************)
EXTENDS MCProtoFactory, FactoryService
=============================================================================
