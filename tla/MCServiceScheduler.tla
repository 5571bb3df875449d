-------------------------- MODULE MCServiceScheduler --------------------------
(***************************************************************************)
(* Small instances of ServiceScheduler: one service, so that liveness can  *)
(* be checked; ServiceSchedulerProofs is about any number of services.     *)
(***************************************************************************)
EXTENDS ServiceScheduler

CONSTANTS w1, w2, c1, s1

MCWorkers  == {w1, w2}
OneWorker  == {w1}
MCClients  == {Main, c1}
MainOnly   == {Main}
OneService == {s1}
=============================================================================
