-------------------------- MODULE MCSessionStore --------------------------
(* Two instances of the service on one database: v1 serves two callers,    *)
(* which share its lock, and v2 serves the third.                          *)
EXTENDS SessionStore

CONSTANTS v1, v2, c1, c2, c3

SharedAndOwn == [c \in Callers |-> IF c = c3 THEN v2 ELSE v1]
=============================================================================
