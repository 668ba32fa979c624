--------------------------- MODULE MCDeliveryLive ---------------------------
(* One dispatcher goroutine, as cmd/gateway starts it, with the proportions *)
(* of the program: a send ends well before the lease does.                  *)
EXTENDS Delivery

MCBackoffs == <<1, 2>>

=============================================================================
