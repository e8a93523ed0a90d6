--------------------------- MODULE MCAuthorityLoop ----------------------------
(* The instances of MCAuthority for the authority with its loop.              *)
EXTENDS MCAuthority, AuthorityLoop
===============================================================================
