---- MODULE MCGateway ----
EXTENDS Gateway
====
