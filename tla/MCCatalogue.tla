---------------------------- MODULE MCCatalogue ----------------------------
(* A small instance of Catalogue for TLC.                                  *)
EXTENDS MCServices, Catalogue

CONSTANT r1
=============================================================================
