---------------------------- MODULE MCBrokerLink ----------------------------
EXTENDS BrokerLink

TwoValues == {"v1", "v2"}
=============================================================================
