------------------------------ MODULE MCBalance ------------------------------
(* Balance with the pool TLC explores.                                    *)
EXTENDS Balance

CONSTANTS b1, b2

Two == <<b1, b2>>
=============================================================================
