---------------------------- MODULE MCBaseAtomos ----------------------------
(* One mail of each kind. *)
EXTENDS BaseAtomos

CONSTANTS s, w, k, ks, c

MCSync == {s}
MCWormhole == {w}
MCKill == {k}
MCKillSelf == {ks}
MCCallback == {c}
AllFault == {"spawn", "wormhole", "stop"}
=============================================================================
