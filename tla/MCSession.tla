----------------------------- MODULE MCSession -----------------------------
(***************************************************************************)
(* Session with every pair of requests and, after two requests whose       *)
(* handlers compete for send_mtx, a third: one more competitor, or a       *)
(* request that ends the connection.                                       *)
(***************************************************************************)
EXTENDS Session

Pairs == AllKinds \X AllKinds

Triples == {"read"} \X {"writeSync"} \X {"write", "bad"}

MCWorkloads == Pairs \cup Triples
=============================================================================
