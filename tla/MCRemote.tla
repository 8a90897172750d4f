------------------------------ MODULE MCRemote ------------------------------
(* Remote with two keys of two bits each. *)
EXTENDS Remote

MCKey == {<<0, 1>>, <<1, 0>>}
=============================================================================
