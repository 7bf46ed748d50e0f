------------------------------ MODULE MCAplic ------------------------------
(***************************************************************************)
(* An instance of Aplic: interrupt files of one group, a page apart, with  *)
(* two bits of hart index.                                                 *)
(***************************************************************************)
EXTENDS Aplic

MCMsiAddrCfgs == {[ppn |-> 4, lhxw |-> 2, hhxw |-> 0]}
=============================================================================
