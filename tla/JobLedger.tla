------------------------------ MODULE JobLedger ------------------------------
(***************************************************************************)
(* What the batch queue promises of each job, without workers, sweepers,   *)
(* backoff or restarts: a job is submitted once, is started at most Budget *)
(* times, settles as done only after at least one execution, is given up   *)
(* only when its attempts are spent or when it was cancelled while         *)
(* waiting, and never starts again once it is settled.                     *)
(*                                                                         *)
(* One step may move several jobs: the sweeper resets every stuck row in   *)
(* one UPDATE statement.                                                   *)
(***************************************************************************)
EXTENDS Naturals

CONSTANTS Jobs,         \* identities of jobs
          MaxAttempts   \* failed attempts after which a job is given up

VARIABLES phase,        \* where each job stands
          runs,         \* how many times each job was started
          cancellable   \* jobs a conversation purge may cancel

vars == <<phase, runs, cancellable>>

\* The sweeper compares the attempt counter before it adds one, so a job may
\* be started once more than MaxAttempts.
Budget == MaxAttempts + 1

Phases == {"absent", "pending", "running", "done", "dead"}

Init == /\ phase = [j \in Jobs |-> "absent"]
        /\ runs  = [j \in Jobs |-> 0]
        /\ cancellable \in SUBSET Jobs

Moves(j, from, to) == phase[j] \in from /\ phase'[j] = to

Submit(j)  == Moves(j, {"absent"}, "pending") /\ runs'[j] = runs[j]

Start(j)   == /\ Moves(j, {"pending"}, "running")
              /\ runs[j] < Budget
              /\ runs'[j] = runs[j] + 1

Requeue(j) == /\ Moves(j, {"running"}, "pending")
              /\ runs[j] < Budget
              /\ runs'[j] = runs[j]

\* An execution may outlive its lease: the job is already waiting again, or
\* was given up, when the execution reports success.
Finish(j)  == /\ Moves(j, {"pending", "running", "dead"}, "done")
              /\ runs[j] > 0
              /\ runs'[j] = runs[j]

GiveUp(j)  == /\ Moves(j, {"running"}, "dead")
              /\ runs[j] >= MaxAttempts
              /\ runs'[j] = runs[j]

Cancel(j)  == /\ j \in cancellable
              /\ Moves(j, {"pending"}, "dead")
              /\ runs'[j] = runs[j]

Stay(j)    == phase'[j] = phase[j] /\ runs'[j] = runs[j]

Next == /\ cancellable' = cancellable
        /\ \A j \in Jobs : \/ Submit(j) \/ Start(j) \/ Requeue(j)
                           \/ Finish(j) \/ GiveUp(j) \/ Cancel(j)
                           \/ Stay(j)

Spec == Init /\ [][Next]_vars
=============================================================================
