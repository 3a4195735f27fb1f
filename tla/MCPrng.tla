------------------------------ MODULE MCPrng ------------------------------
(***************************************************************************)
(* Prng for TLC, with words of three bits: two threads that ask for        *)
(* everything that can be asked.                                           *)
(***************************************************************************)
EXTENDS Prng

MCOutput ==
  [state \in Word |-> (5 * state + 3) % Words]

=============================================================================
