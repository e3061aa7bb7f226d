------------------------------- MODULE MCXray --------------------------------
(***************************************************************************)
(* Two callers and two users, the inbounds of one or two transports and a  *)
(* mirror inbound.                                                         *)
(***************************************************************************)
EXTENDS XrayInbounds

CONSTANTS k1, k2, u1, u2, ws, reality, tws, treality, twg

MCTagFor == [x \in Transports |-> IF x = ws THEN tws ELSE treality]
=============================================================================
