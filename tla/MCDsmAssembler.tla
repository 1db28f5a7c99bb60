--------------------------- MODULE MCDsmAssembler ---------------------------
(* One satellite and one DSM id per run: assemblies do not share state.    *)
(* Messages of two or three blocks, with a retention time of three         *)
(* subframes for the hour of a KROOT and the thirteen hours of a PKR.      *)
EXTENDS DsmAssembler
=============================================================================
