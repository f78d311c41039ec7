------------------------------- MODULE MCServer -------------------------------
(* Two public listeners, one of which is easily full, and the admin server.    *)
EXTENDS Server

Limits == [s \in Servers |-> IF s = 2 THEN 2 ELSE 1]
=============================================================================
