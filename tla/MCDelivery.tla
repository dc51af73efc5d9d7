---------------------------- MODULE MCDelivery ----------------------------
EXTENDS Delivery

CONSTANTS t1, t2

\* A link that breaks and a program that dies, both or one; or a frame that
\* does not open, which ends the delivery.
MCFaults == (SUBSET {"corte", "caida"}) \cup {{"trama"}}
===========================================================================
