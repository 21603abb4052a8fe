-------------------------- MODULE MCAsyncCallback --------------------------
(* Two instances of one name, with every fault and with none. *)
EXTENDS AsyncCallback

AnyFault == {"refuse", "panic", "lose", "spawn"}
NoFault == {}
=============================================================================
