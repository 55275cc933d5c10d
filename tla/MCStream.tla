------------------------------ MODULE MCStream ------------------------------
(* Small instances of EventStream: the surroundings the runs are about.     *)
EXTENDS EventStream

CONSTANTS t1, t2

Plain == [threads |-> {t1}, types |-> {"change"}, buffer |-> 3, queue |-> 3,
          overtaking |-> FALSE, changes |-> 3, restarts |-> 0, losses |-> 1, failures |-> 0]
Busy  == [Plain EXCEPT !.threads = {t1, t2}, !.failures = 1, !.changes = 2]
Rough == [threads |-> {t1}, types |-> {"change", "log"}, buffer |-> 1, queue |-> 1,
          overtaking |-> TRUE, changes |-> 2, restarts |-> 1, losses |-> 0, failures |-> 1]
Short == [Plain EXCEPT !.buffer = 1, !.queue = 1]

AllSettings == {Plain, Busy, Short, Rough}
Restarted   == {[Plain EXCEPT !.restarts = 1]}
=============================================================================
