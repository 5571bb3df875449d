---- MODULE MCFramework ----
EXTENDS Framework

NoBootstrap == <<>>
====
