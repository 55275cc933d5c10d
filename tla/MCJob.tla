------------------------------- MODULE MCJob -------------------------------
(* Small instances of Job: the cfg files give every bound and config flag.  *)
EXTENDS Job

=============================================================================
