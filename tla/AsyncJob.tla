------------------------------ MODULE AsyncJob ------------------------------
(***************************************************************************)
(* What CloudWise promises of a background job (an inventory scan, a cost  *)
(* or metric synchronization, a recommendation refresh): a request creates *)
(* a queued job for a key (the AWS connection), unless that key already    *)
(* has a job that is queued or running; the job may be seen running; it    *)
(* ends once, and what it ended as is its answer for good.  Nothing is     *)
(* said here of workers, brokers, locks, retries or crashes: the modules   *)
(* that model them implement this one.                                     *)
(***************************************************************************)
EXTENDS FiniteSets

CONSTANTS Ids,    \* the jobs that may ever be requested
          KeyOf   \* what at most one active job may be working on

VARIABLE phase    \* how far each job has come

Active == {"queued", "running"}

TypeOK == phase \in [Ids -> Active \cup {"absent", "ended"}]

Init == phase = [j \in Ids |-> "absent"]

KeyIsFree(k) == \A j \in Ids : KeyOf[j] = k => phase[j] \notin Active

Submit(j) ==
    /\ phase[j] = "absent"
    /\ KeyIsFree(KeyOf[j])
    /\ phase' = [phase EXCEPT ![j] = "queued"]

Start(j) ==
    /\ phase[j] = "queued"
    /\ phase' = [phase EXCEPT ![j] = "running"]

End(j) ==
    /\ phase[j] \in Active
    /\ phase' = [phase EXCEPT ![j] = "ended"]

Next == \E j \in Ids : Submit(j) \/ Start(j) \/ End(j)

SafeSpec == Init /\ [][Next]_phase

(* A job that was accepted is brought to an end.                           *)
Spec == SafeSpec /\ \A j \in Ids : WF_phase(End(j))

-----------------------------------------------------------------------------
(* A key never has two jobs that are queued or running: the promise of     *)
(* start_scan, of start_sync and of the partial unique indexes.            *)
OneActivePerKey ==
    \A i, j \in Ids : /\ i # j
                      /\ KeyOf[i] = KeyOf[j]
                      /\ phase[i] \in Active
                      => phase[j] \notin Active

(* A job that has ended stays so, and a requested one is never forgotten:  *)
(* the status an API client has polled to the end does not change again.   *)
EndedIsFinal ==
    [][\A j \in Ids : /\ phase[j] = "ended" => phase'[j] = "ended"
                      /\ phase[j] # "absent" => phase'[j] # "absent"]_phase

(* Every requested job comes to an end, so that its key is free again.     *)
EveryJobEnds ==
    \A j \in Ids : phase[j] \in Active ~> phase[j] = "ended"

=============================================================================
