----------------------------- MODULE MCGateway -----------------------------
EXTENDS Gateway
CONSTANTS chat1
=============================================================================
