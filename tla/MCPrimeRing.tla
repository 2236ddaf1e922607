----------------------------- MODULE MCPrimeRing ------------------------------
(* A small instance of PrimeRing for TLC.                                    *)
EXTENDS PrimeRing
===============================================================================
