---------------------------- MODULE MCHostProtocol ----------------------------
(***************************************************************************)
(* An instance of HostProtocol for TLC: one configuration register stands  *)
(* for all of them, since none takes part in the protocol.                 *)
(***************************************************************************)
EXTENDS HostProtocol

MCConfigRegister == {"DMR_MASK"}
MCConfigValue == [r \in MCConfigRegister |-> {{}, {0, 1}}]
=============================================================================
