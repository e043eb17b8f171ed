---------------------------- MODULE MCWSEndpoint ----------------------------
EXTENDS WSEndpoint
=============================================================================
