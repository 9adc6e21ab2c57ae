----------------------------- MODULE MCReceiver -----------------------------
EXTENDS Receiver

(* Port 0 gets several epochs, port 1 one tick that competes for the stats *)
(* core.                                                                   *)
SentTo == [p \in Port |-> IF p = 0 THEN 6 ELSE 2]
=============================================================================
