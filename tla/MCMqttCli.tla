------------------------------ MODULE MCMqttCli ------------------------------
\* Instances of MqttCli for TLC: see the configurations.
EXTENDS MqttCli
==============================================================================
