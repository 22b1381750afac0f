------------------------------- MODULE MCRex --------------------------------
(* Instances of Rex for TLC.                                               *)
EXTENDS Rex
=============================================================================
