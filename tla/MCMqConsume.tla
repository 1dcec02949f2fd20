---------------------------- MODULE MCMqConsume ----------------------------
(* The instance of MqConsume for TLC; MCMqConsume.cfg gives the constants. *)
EXTENDS MqConsume
=============================================================================
