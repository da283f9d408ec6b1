----------------------------- MODULE MCWorkQueue -----------------------------
(* The work queue with a small pool: see the cfg files for the instances.  *)
EXTENDS WorkQueue

=============================================================================
