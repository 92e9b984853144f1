------------------------------- MODULE MCLog -------------------------------
(* Which logger and which payload it is makes no difference to the log.    *)
EXTENDS ProvenanceLog, TLC

LogSymmetry == Permutations(Loggers) \cup Permutations(Payloads)
=============================================================================
