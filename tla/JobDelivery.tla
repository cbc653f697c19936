----------------------------- MODULE JobDelivery -----------------------------
(***************************************************************************)
(* What the audit queue promises to the services that use it, with the     *)
(* stream, the consumer group and the workers abstracted away:             *)
(*   - a job that was accepted leaves the queue only on evidence, either   *)
(*     that one call of the handler returned ("done") or that the job was  *)
(*     copied to the dead-letter stream ("buried");                        *)
(*   - evidence is never withdrawn and a job never comes back;             *)
(*   - every accepted job leaves the queue in the end.                     *)
(***************************************************************************)
EXTENDS Naturals

CONSTANT Entries        \* the identifiers a job can be given

VARIABLES
    accepted,           \* jobs handed to the queue
    evidence,           \* evidence[e]: what is known about job e
    settled             \* jobs the queue has let go of

vars == <<accepted, evidence, settled>>

Evidence == {"done", "buried"}

Init ==
    /\ accepted = {}
    /\ evidence = [e \in Entries |-> {}]
    /\ settled = {}

Accept(e) ==
    /\ e \notin accepted
    /\ accepted' = accepted \cup {e}
    /\ UNCHANGED <<evidence, settled>>

\* A handler may still return after the job was settled: a slow worker whose
\* job was taken over by another one.
Witness(e, k) ==
    /\ e \in accepted
    /\ evidence' = [evidence EXCEPT ![e] = @ \cup {k}]
    /\ UNCHANGED <<accepted, settled>>

Settle(e) ==
    /\ e \in accepted \ settled
    /\ evidence[e] # {}
    /\ settled' = settled \cup {e}
    /\ UNCHANGED <<accepted, evidence>>

Next == \E e \in Entries :
    \/ Accept(e)
    \/ \E k \in Evidence : Witness(e, k)
    \/ Settle(e)

\* No accepted job stays in the queue for ever.
EveryJobSettles == \A e \in Entries : (e \in accepted) ~> (e \in settled)

SafeSpec == Init /\ [][Next]_vars

Spec == SafeSpec /\ EveryJobSettles
==============================================================================
