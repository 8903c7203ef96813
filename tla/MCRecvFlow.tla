----------------------------- MODULE MCRecvFlow -----------------------------
(* RecvFlow for TLC: the changes of -recvmode a script makes.               *)
EXTENDS RecvFlow

NoSwitch == {}
Onwards == {<<"zero", "flow">>, <<"zero", "burst">>, <<"flow", "burst">>}
=============================================================================
