-------------------------- MODULE MCHttpServer --------------------------
(* Model-checking module of HttpServer. *)
EXTENDS HttpServer, TLC

CONSTANTS c1, c2, r1, r2, f1, f2

Same == Permutations(Conn) \cup Permutations(Request) \cup Permutations(Fd)
=========================================================================
