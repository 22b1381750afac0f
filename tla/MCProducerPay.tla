--------------------------- MODULE MCProducerPay ---------------------------
(* Instances of ProducerPay for TLC.                                       *)
EXTENDS ProducerPay

MCProducers == <<"a", "b", "c">>
MCFills == {<<10, 2>>}
=============================================================================
