---------------------------- MODULE RunLifecycle ----------------------------
(***************************************************************************)
(* What the control plane promises a client that submits runs and polls    *)
(* them: a run is queued, then running, then settled, and a settled run    *)
(* never changes again.  The states are those of RunState                  *)
(* (domain/models.py); "absent" is a run id the repository does not know.  *)
(***************************************************************************)
EXTENDS Naturals

CONSTANT Runs

VARIABLE state

Settled   == {"completed", "failed", "cancelled"}
RunState  == {"queued", "running"} \union Settled

LifecycleTypeOK == state \in [Runs -> RunState \union {"absent"}]

LifecycleInit == state = [r \in Runs |-> "absent"]

Enqueue(r) ==
    /\ state[r] = "absent"
    /\ state' = [state EXCEPT ![r] = "queued"]

Run(r) ==
    /\ state[r] = "queued"
    /\ state' = [state EXCEPT ![r] = "running"]

Settle(r) ==
    /\ state[r] = "running"
    /\ \E s \in Settled : state' = [state EXCEPT ![r] = s]

LifecycleNext == \E r \in Runs : Enqueue(r) \/ Run(r) \/ Settle(r)

SafeSpec == LifecycleInit /\ [][LifecycleNext]_state

\* A queued run is taken up and a running one is settled.
FairSpec ==
    /\ SafeSpec
    /\ \A r \in Runs : WF_state(Run(r)) /\ WF_state(Settle(r))

-----------------------------------------------------------------------------
\* A settled run keeps its verdict for ever.
SettledIsFinal ==
    [][\A r \in Runs : state[r] \in Settled => state'[r] = state[r]]_state

=============================================================================
