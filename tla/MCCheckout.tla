------------------------------ MODULE MCCheckout ------------------------------
(* Small instances of Checkout for TLC. *)
EXTENDS Checkout, TLC

\* Requests, orders and buyers are interchangeable (safety runs only).
Symmetry == Permutations(Worker) \cup Permutations(Order) \cup Permutations(Buyer)
===============================================================================
