-------------------------- MODULE MemoryRepository --------------------------
(***************************************************************************)
(* knotch-testing: InMemoryRepository::append, the repository that tests   *)
(* put in the place of the file.  The whole call runs under one mutex      *)
(* without an await, so a batch is one step.  with_cache appends in the    *)
(* same way.  It serves as the abstract specification of FileRepository.   *)
(***************************************************************************)
EXTENDS Kernel

CONSTANTS Batches, Modes, Readings

VARIABLE events

\* One proposal against a working log.
Judge(w, body) ==
    IF Admissible(w.log, body)
    THEN {[w EXCEPT !.log = Append(@, Stamped(@, body, now))] : now \in Readings}
    ELSE {[w EXCEPT !.refused = TRUE]}

\* The working logs a batch may lead to, proposal after proposal, and whether
\* everything was accepted.
After(log, batch) ==
    LET after[n \in 0..Len(batch)] ==
            IF n = 0 THEN {[log |-> log, refused |-> FALSE]}
            ELSE UNION {Judge(w, batch[n]) : w \in after[n - 1]}
    IN  after

\* An AllOrNothing batch that is not accepted in full is truncated away.
AppendBatch(batch, mode) ==
    \E w \in After(events, batch)[Len(batch)] :
        /\ mode = "AllOrNothing" => ~w.refused
        /\ events' = w.log

InitMemory == events = <<>>

\* A batch that adds nothing is a stutter.
NextMemory == events' # events /\ \E batch \in Batches, mode \in Modes : AppendBatch(batch, mode)

SpecMemory == InitMemory /\ [][NextMemory]_events
=============================================================================
