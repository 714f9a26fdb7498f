----------------------------- MODULE MCRecording -----------------------------
(* Recording on a small instance: the requests of a conversation as it grows,  *)
(* which may come repeatedly (a retry, or a second conversation that begins    *)
(* like the first) and in any order.                                           *)
EXTENDS Recording

CONSTANTS a, b

MCAsked == {<<a>>, <<a, b>>, <<a, b, a>>}
=============================================================================
