----------------------- MODULE MCApplicationOperator -----------------------
(* Instances of ApplicationOperator.                                          *)
EXTENDS ApplicationOperator
=============================================================================
