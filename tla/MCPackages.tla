----------------------------- MODULE MCPackages -----------------------------
(* A layout with two imports.                                              *)
EXTENDS Packages

TwoImports == <<"clock", "weather">>
=============================================================================
