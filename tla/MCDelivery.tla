----------------------------- MODULE MCDelivery -----------------------------
(* Values of the constants of Delivery for TLC.                            *)
EXTENDS Delivery, TLC

CONSTANTS w1, w2

MCBackoffs == <<1, 2>>

\* Two goroutines are interchangeable.
WorkerSymmetry == Permutations({w1, w2})

=============================================================================
