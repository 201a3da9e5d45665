---------------------------- MODULE MCMqttConfig ----------------------------
(***************************************************************************)
(* Bounds of the run of mqtt-config.                                       *)
(***************************************************************************)
EXTENDS MqttConfig
=============================================================================
