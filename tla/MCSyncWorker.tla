---------------------------- MODULE MCSyncWorker ----------------------------
(* SyncWorker on small instances: constants only. *)
EXTENDS SyncWorker

TwoDays == [s \in Segments |-> s \div 2]
=============================================================================
