------------------------------ MODULE MCBackend ------------------------------
(* Small instances of Backend: the devices of one domain. *)
EXTENDS Backend

OneDomain == {<<5, 0>>, <<5, 1>>}
OneDevice == {<<5, 0>>}
=============================================================================
