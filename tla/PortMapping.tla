----------------------------- MODULE PortMapping -----------------------------
(***************************************************************************)
(* The ports a participant uses in a domain (PortMapping with its default  *)
(* configuration).                                                         *)
(***************************************************************************)
EXTENDS Integers

NoPort == 0
Calculate(domain, offset, participant) ==
  LET value == 7400 + 250 * domain + offset + 2 * participant
  IN IF value > 65535 THEN NoPort ELSE value

SpdpMulticastPort(domain) == Calculate(domain, 0, 0)
UserMulticastPort(domain) == Calculate(domain, 1, 0)
SpdpUnicastPort(domain, participant) == Calculate(domain, 10, participant)
UserUnicastPort(domain, participant) == Calculate(domain, 11, participant)
=============================================================================
