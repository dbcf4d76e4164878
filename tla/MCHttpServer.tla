---------------------------- MODULE MCHttpServer ----------------------------
(* Small instances of HttpServer: three clients, one without a body, and a
   backlog that two fill. *)
EXTENDS HttpServer, TLC
CONSTANTS c1, c2, c3
ThreeClients == {c1, c2, c3}
Bodies == [c \in Clients |-> IF c = c1 THEN 0 ELSE IF c = c2 THEN 1 ELSE 3]
=============================================================================
