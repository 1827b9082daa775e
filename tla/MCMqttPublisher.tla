-------------------------- MODULE MCMqttPublisher --------------------------
(* Instances of MqttPublisher for TLC. *)
EXTENDS MqttPublisher
=============================================================================
