----------------------------- MODULE JobService -----------------------------
(***************************************************************************)
(* What jive::ThreadPool promises its callers: a submitted job is taken in  *)
(* the order of submission, performed once, and its own outcome, nothing    *)
(* else, is what its submitter is told.  Sentries, workers, condition       *)
(* variables and resizing do not appear here.                               *)
(***************************************************************************)
EXTENDS SequencesExt

CONSTANTS Job, Outcome, NoOutcome

VARIABLES
    pending,   \* jobs submitted and not taken, oldest first
    active,    \* jobs being performed
    result,    \* the outcome of each job performed
    told       \* the outcome each submitter was told

vars == <<pending, active, result, told>>

Init ==
    /\ pending = <<>>
    /\ active = {}
    /\ result = [j \in Job |-> NoOutcome]
    /\ told = [j \in Job |-> NoOutcome]

Submit(j) ==
    /\ j \notin ToSet(pending) \cup active
    /\ result[j] = NoOutcome
    /\ pending' = Append(pending, j)
    /\ UNCHANGED <<active, result, told>>

Take ==
    /\ pending # <<>>
    /\ pending' = Tail(pending)
    /\ active' = active \cup {Head(pending)}
    /\ UNCHANGED <<result, told>>

Complete(j, outcome) ==
    /\ j \in active
    /\ active' = active \ {j}
    /\ result' = [result EXCEPT ![j] = outcome]
    /\ UNCHANGED <<pending, told>>

Tell(j) ==
    /\ result[j] # NoOutcome
    /\ told' = [told EXCEPT ![j] = result[j]]
    /\ UNCHANGED <<pending, active, result>>

\* The submitter lets go of a job it was told of, and may submit it anew.
Forget(j) ==
    /\ told[j] # NoOutcome
    /\ result' = [result EXCEPT ![j] = NoOutcome]
    /\ told' = [told EXCEPT ![j] = NoOutcome]
    /\ UNCHANGED <<pending, active>>

Next ==
    \/ Take
    \/ \E j \in Job :
         \/ Submit(j)
         \/ \E outcome \in Outcome : Complete(j, outcome)
         \/ Tell(j)
         \/ Forget(j)

Spec == Init /\ [][Next]_vars

\* Jobs are taken, and each job taken is completed.
Fairness ==
    /\ WF_vars(Take)
    /\ \A j \in Job : WF_vars(\E outcome \in Outcome : Complete(j, outcome))

FairSpec == Spec /\ Fairness
=============================================================================
