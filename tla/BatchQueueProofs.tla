-------------------------- MODULE BatchQueueProofs --------------------------
(***************************************************************************)
(* Theorems of BatchQueue for every number of jobs, users, workers and     *)
(* crashes. The argument: the attempt counter and the number of claims of  *)
(* a job move together (Counted); a job a claim has locked stays pending   *)
(* (Leased); what a worker holds was claimed, and what it completes was    *)
(* returned by a handler (Held).                                           *)
(***************************************************************************)
EXTENDS BatchQueue, TLAPS

\* How attempt and starts are tied in each status.
Counted ==
  \A j \in Jobs :
    /\ status[j] = "absent"  => starts[j] = 0 /\ attempt[j] = 0
    /\ status[j] = "pending" => starts[j] = attempt[j] /\ attempt[j] <= MaxAttempts
    /\ status[j] = "running" => starts[j] = attempt[j] + 1 /\ attempt[j] <= MaxAttempts
    /\ starts[j] <= MaxAttempts + 1

Leased ==
  \A w \in Workers : pc[w] = "claiming" =>
    /\ hold[w] \in Jobs
    /\ status[hold[w]] = "pending"
    /\ \A v \in Workers : pc[v] = "claiming" /\ hold[v] = hold[w] => v = w

Held ==
  \A w \in Workers :
    /\ pc[w] \notin {"idle", "claiming"} => hold[w] \in Jobs /\ starts[hold[w]] > 0
    /\ pc[w] \in {"marking", "completing"} => hold[w] \in returned

IInv == TypeOK /\ Counted /\ Leased /\ Held /\ DeadOnlyWhenSpent /\ DoneWasReturned

USE QueueAssumption DEF Statuses, Stages, Phases, AllKinds,
                        IngestKinds, table, process, history

\* The queue starts in the inductive invariant.
LEMMA InitInv == Init => IInv
  <1> SUFFICES ASSUME Init PROVE IInv
    OBVIOUS
  <1> USE DEF Init
  <1>1. TypeOK
    <2>1. crashes \in 0 .. MaxCrashes /\ service \in {"up", "boot", "down"}
      OBVIOUS
    <2>2. sweep \in BOOLEAN /\ announcing \subseteq Jobs
      OBVIOUS
    <2>3. /\ attempt \in [Jobs -> 0 .. MaxAttempts + 1]
          /\ starts \in [Jobs -> Nat]
          /\ returned \subseteq Jobs
      OBVIOUS
    <2>4. /\ pc \in [Workers -> Phases]
          /\ hold \in [Workers -> Jobs \cup {NoJob}]
          /\ seen \in [Workers -> Nat]
      OBVIOUS
    <2>5. /\ status \in [Jobs -> Statuses]
          /\ due \in [Jobs -> BOOLEAN]
          /\ aged \in [Jobs -> BOOLEAN]
          /\ stage \in [Jobs -> Stages]
      OBVIOUS
    <2> QED
      BY <2>1, <2>2, <2>3, <2>4, <2>5 DEF TypeOK
  <1>2. Counted
    BY DEF Counted
  <1>3. Leased /\ Held
    BY DEF Leased, Held
  <1>4. DeadOnlyWhenSpent /\ DoneWasReturned
    BY DEF DeadOnlyWhenSpent, DoneWasReturned
  <1> QED
    BY <1>1, <1>2, <1>3, <1>4 DEF IInv

-----------------------------------------------------------------------------
(* Requests and time. *)

\* Enqueue preserves the inductive invariant.
LEMMA EnqueueInv ==
  ASSUME IInv, NEW j \in Jobs, Enqueue(j) PROVE IInv'
  <1> USE DEF IInv, Enqueue, HasProgress
  <1>1. TypeOK'
    BY DEF TypeOK, Counted, Leased, Held
  <1>2. Counted'
    BY DEF TypeOK, Leased, Counted, Held
  <1>3. Leased'
    BY DEF TypeOK, Leased
  <1>4. Held'
    BY DEF TypeOK, Counted, Leased, Held
  <1>5. DeadOnlyWhenSpent'
    BY DEF TypeOK, Counted, DeadOnlyWhenSpent
  <1>6. DoneWasReturned'
    BY DEF TypeOK, Held, DoneWasReturned
  <1> QED
    BY <1>1, <1>2, <1>3, <1>4, <1>5, <1>6

\* Announce preserves the inductive invariant.
LEMMA AnnounceInv ==
  ASSUME IInv, NEW j \in Jobs, Announce(j) PROVE IInv'
  <1> USE DEF IInv, Announce, SetStage
  <1>1. TypeOK'
    BY DEF TypeOK, Counted, Leased, Held
  <1>2. Counted'
    BY DEF TypeOK, Leased, Counted, Held
  <1>3. Leased'
    BY DEF TypeOK, Leased
  <1>4. Held'
    BY DEF TypeOK, Counted, Leased, Held
  <1>5. DeadOnlyWhenSpent'
    BY DEF TypeOK, Counted, DeadOnlyWhenSpent
  <1>6. DoneWasReturned'
    BY DEF TypeOK, Held, DoneWasReturned
  <1> QED
    BY <1>1, <1>2, <1>3, <1>4, <1>5, <1>6

\* CancelPending preserves the inductive invariant.
LEMMA CancelPendingInv ==
  ASSUME IInv, NEW u \in Users, CancelPending(u) PROVE IInv'
  <1> USE DEF IInv, CancelPending, Cancelled, Locked
  <1>1. TypeOK'
    BY DEF TypeOK, Counted, Leased, Held
  <1>2. Counted'
    BY DEF TypeOK, Leased, Counted, Held
  <1>3. Leased'
    BY DEF TypeOK, Leased
  <1>4. Held'
    BY DEF TypeOK, Counted, Leased, Held
  <1>5. DeadOnlyWhenSpent'
    BY DEF TypeOK, Counted, DeadOnlyWhenSpent
  <1>6. DoneWasReturned'
    BY DEF TypeOK, Held, DoneWasReturned
  <1> QED
    BY <1>1, <1>2, <1>3, <1>4, <1>5, <1>6

\* Age preserves the inductive invariant.
LEMMA AgeInv ==
  ASSUME IInv, NEW j \in Jobs, Age(j) PROVE IInv'
  <1> USE DEF IInv, Age
  <1>1. TypeOK'
    BY DEF TypeOK, Counted, Leased, Held
  <1>2. Counted'
    BY DEF TypeOK, Leased, Counted, Held
  <1>3. Leased'
    BY DEF TypeOK, Leased
  <1>4. Held'
    BY DEF TypeOK, Counted, Leased, Held
  <1>5. DeadOnlyWhenSpent'
    BY DEF TypeOK, Counted, DeadOnlyWhenSpent
  <1>6. DoneWasReturned'
    BY DEF TypeOK, Held, DoneWasReturned
  <1> QED
    BY <1>1, <1>2, <1>3, <1>4, <1>5, <1>6

\* BackoffElapses preserves the inductive invariant.
LEMMA BackoffElapsesInv ==
  ASSUME IInv, NEW j \in Jobs, BackoffElapses(j) PROVE IInv'
  <1> USE DEF IInv, BackoffElapses
  <1>1. TypeOK'
    BY DEF TypeOK, Counted, Leased, Held
  <1>2. Counted'
    BY DEF TypeOK, Leased, Counted, Held
  <1>3. Leased'
    BY DEF TypeOK, Leased
  <1>4. Held'
    BY DEF TypeOK, Counted, Leased, Held
  <1>5. DeadOnlyWhenSpent'
    BY DEF TypeOK, Counted, DeadOnlyWhenSpent
  <1>6. DoneWasReturned'
    BY DEF TypeOK, Held, DoneWasReturned
  <1> QED
    BY <1>1, <1>2, <1>3, <1>4, <1>5, <1>6

-----------------------------------------------------------------------------
(* The sweeper and restarts. *)

\* SweepPending preserves the inductive invariant.
LEMMA SweepPendingInv ==
  ASSUME IInv, SweepPending PROVE IInv'
  <1> USE DEF IInv, SweepPending, ResetPending, AgedJobs
  <1>1. TypeOK'
    BY DEF TypeOK, Counted, Leased, Held
  <1>2. Counted'
    BY DEF TypeOK, Leased, Counted, Held
  <1>3. Leased'
    BY DEF TypeOK, Leased
  <1>4. Held'
    BY DEF TypeOK, Counted, Leased, Held
  <1>5. DeadOnlyWhenSpent'
    BY DEF TypeOK, Counted, DeadOnlyWhenSpent
  <1>6. DoneWasReturned'
    BY DEF TypeOK, Held, DoneWasReturned
  <1> QED
    BY <1>1, <1>2, <1>3, <1>4, <1>5, <1>6

\* SweepDead preserves the inductive invariant.
LEMMA SweepDeadInv ==
  ASSUME IInv, SweepDead PROVE IInv'
  <1> USE DEF IInv, SweepDead, ResetDead, AgedJobs
  <1>1. TypeOK'
    <2>1. status' \in [Jobs -> Statuses]
      BY DEF TypeOK
    <2>2. attempt' \in [Jobs -> 0 .. MaxAttempts + 1]
      BY DEF TypeOK, Counted, Held
    <2>3. due' \in [Jobs -> BOOLEAN] /\ aged' \in [Jobs -> BOOLEAN]
      BY DEF TypeOK
    <2>4. pc' \in [Workers -> Phases]
      BY DEF TypeOK
    <2>5. hold' \in [Workers -> Jobs \cup {NoJob}] /\ seen' \in [Workers -> Nat]
      BY DEF TypeOK
    <2>6. /\ service' \in {"up", "boot", "down"}
          /\ sweep' \in BOOLEAN
          /\ announcing' \subseteq Jobs
          /\ crashes' \in 0 .. MaxCrashes
      BY DEF TypeOK
    <2> QED
      BY <2>1, <2>2, <2>3, <2>4, <2>5, <2>6 DEF TypeOK
  <1>2. Counted'
    BY DEF TypeOK, Leased, Counted, Held
  <1>3. Leased'
    BY DEF TypeOK, Leased
  <1>4. Held'
    BY DEF TypeOK, Counted, Leased, Held
  <1>5. DeadOnlyWhenSpent'
    BY DEF TypeOK, Counted, DeadOnlyWhenSpent
  <1>6. DoneWasReturned'
    BY DEF TypeOK, Held, DoneWasReturned
  <1> QED
    BY <1>1, <1>2, <1>3, <1>4, <1>5, <1>6

\* BootPending preserves the inductive invariant.
LEMMA BootPendingInv ==
  ASSUME IInv, BootPending PROVE IInv'
  <1> USE DEF IInv, BootPending, ResetPending
  <1>1. TypeOK'
    <2>1. CASE ResetPending(Jobs)
      <3>1. attempt' \in [Jobs -> 0 .. MaxAttempts + 1]
        BY <2>1 DEF TypeOK
      <3> QED
        BY <2>1, <3>1 DEF TypeOK
    <2>2. CASE UNCHANGED table
      BY <2>2 DEF TypeOK
    <2> QED
      BY <2>1, <2>2
  <1>2. Counted'
    BY DEF TypeOK, Leased, Counted, Held
  <1>3. Leased'
    BY DEF TypeOK, Leased
  <1>4. Held'
    BY DEF TypeOK, Counted, Leased, Held
  <1>5. DeadOnlyWhenSpent'
    BY DEF TypeOK, Counted, DeadOnlyWhenSpent
  <1>6. DoneWasReturned'
    BY DEF TypeOK, Held, DoneWasReturned
  <1> QED
    BY <1>1, <1>2, <1>3, <1>4, <1>5, <1>6

\* BootDead preserves the inductive invariant.
LEMMA BootDeadInv ==
  ASSUME IInv, BootDead PROVE IInv'
  <1> USE DEF IInv, BootDead, ResetDead
  <1>1. TypeOK'
    BY DEF TypeOK, Counted, Leased, Held
  <1>2. Counted'
    BY DEF TypeOK, Leased, Counted, Held
  <1>3. Leased'
    BY DEF TypeOK, Leased
  <1>4. Held'
    BY DEF TypeOK, Counted, Leased, Held
  <1>5. DeadOnlyWhenSpent'
    BY DEF TypeOK, Counted, DeadOnlyWhenSpent
  <1>6. DoneWasReturned'
    BY DEF TypeOK, Held, DoneWasReturned
  <1> QED
    BY <1>1, <1>2, <1>3, <1>4, <1>5, <1>6

\* Crash preserves the inductive invariant.
LEMMA CrashInv ==
  ASSUME IInv, Crash PROVE IInv'
  <1> USE DEF IInv, Crash
  <1>1. TypeOK'
    <2>1. crashes' \in 0 .. MaxCrashes
      BY DEF TypeOK
    <2>2. service' \in {"up", "boot", "down"}
      BY DEF TypeOK
    <2>3. sweep' \in BOOLEAN
      BY DEF TypeOK
    <2>4. announcing' \subseteq Jobs
      BY DEF TypeOK
    <2>5. pc' \in [Workers -> Phases]
      BY DEF TypeOK
    <2>6. hold' \in [Workers -> Jobs \cup {NoJob}] /\ seen' \in [Workers -> Nat]
      BY DEF TypeOK
    <2> QED
      BY <2>1, <2>2, <2>3, <2>4, <2>5, <2>6 DEF TypeOK
  <1>2. Counted'
    BY DEF TypeOK, Leased, Counted, Held
  <1>3. Leased'
    BY DEF TypeOK, Leased
  <1>4. Held'
    BY DEF TypeOK, Counted, Leased, Held
  <1>5. DeadOnlyWhenSpent'
    BY DEF TypeOK, Counted, DeadOnlyWhenSpent
  <1>6. DoneWasReturned'
    BY DEF TypeOK, Held, DoneWasReturned
  <1> QED
    BY <1>1, <1>2, <1>3, <1>4, <1>5, <1>6

-----------------------------------------------------------------------------
(* The worker loop. *)

\* ClaimPick preserves the inductive invariant.
LEMMA ClaimPickInv ==
  ASSUME IInv, NEW w \in Workers, ClaimPick(w) PROVE IInv'
  <1> USE DEF IInv, ClaimPick, Eligible, Locked, Goto
  <1>1. TypeOK'
    BY DEF TypeOK, Counted, Leased, Held
  <1>2. Counted'
    BY DEF TypeOK, Leased, Counted, Held
  <1>3. Leased'
    BY DEF TypeOK, Leased
  <1>4. Held'
    BY DEF TypeOK, Counted, Leased, Held
  <1>5. DeadOnlyWhenSpent'
    BY DEF TypeOK, Counted, DeadOnlyWhenSpent
  <1>6. DoneWasReturned'
    BY DEF TypeOK, Held, DoneWasReturned
  <1> QED
    BY <1>1, <1>2, <1>3, <1>4, <1>5, <1>6

\* ClaimCommit preserves the inductive invariant.
LEMMA ClaimCommitInv ==
  ASSUME IInv, NEW w \in Workers, ClaimCommit(w) PROVE IInv'
  <1> USE DEF IInv, ClaimCommit, Goto
  <1>1. TypeOK'
    BY DEF TypeOK, Counted, Leased, Held
  <1>2. Counted'
    BY DEF TypeOK, Leased, Counted, Held
  <1>3. Leased'
    BY DEF TypeOK, Leased
  <1>4. Held'
    BY DEF TypeOK, Counted, Leased, Held
  <1>5. DeadOnlyWhenSpent'
    BY DEF TypeOK, Counted, DeadOnlyWhenSpent
  <1>6. DoneWasReturned'
    BY DEF TypeOK, Held, DoneWasReturned
  <1> QED
    BY <1>1, <1>2, <1>3, <1>4, <1>5, <1>6

\* HandlerReports preserves the inductive invariant.
LEMMA HandlerReportsInv ==
  ASSUME IInv, NEW w \in Workers, HandlerReports(w) PROVE IInv'
  <1> USE DEF IInv, HandlerReports, HandlerStages, SetStage
  <1>1. TypeOK'
    BY DEF TypeOK, Counted, Leased, Held
  <1>2. Counted'
    BY DEF TypeOK, Leased, Counted, Held
  <1>3. Leased'
    BY DEF TypeOK, Leased
  <1>4. Held'
    BY DEF TypeOK, Counted, Leased, Held
  <1>5. DeadOnlyWhenSpent'
    BY DEF TypeOK, Counted, DeadOnlyWhenSpent
  <1>6. DoneWasReturned'
    BY DEF TypeOK, Held, DoneWasReturned
  <1> QED
    BY <1>1, <1>2, <1>3, <1>4, <1>5, <1>6

\* HandlerReturns preserves the inductive invariant.
LEMMA HandlerReturnsInv ==
  ASSUME IInv, NEW w \in Workers, HandlerReturns(w) PROVE IInv'
  <1> USE DEF IInv, HandlerReturns, AfterHandler, Goto
  <1>1. TypeOK'
    BY DEF TypeOK, Counted, Leased, Held
  <1>2. Counted'
    BY DEF TypeOK, Leased, Counted, Held
  <1>3. Leased'
    BY DEF TypeOK, Leased
  <1>4. Held'
    BY DEF TypeOK, Counted, Leased, Held
  <1>5. DeadOnlyWhenSpent'
    BY DEF TypeOK, Counted, DeadOnlyWhenSpent
  <1>6. DoneWasReturned'
    BY DEF TypeOK, Held, DoneWasReturned
  <1> QED
    BY <1>1, <1>2, <1>3, <1>4, <1>5, <1>6

\* HandlerRaises preserves the inductive invariant.
LEMMA HandlerRaisesInv ==
  ASSUME IInv, NEW w \in Workers, HandlerRaises(w) PROVE IInv'
  <1> USE DEF IInv, HandlerRaises, Goto
  <1>1. TypeOK'
    BY DEF TypeOK, Counted, Leased, Held
  <1>2. Counted'
    BY DEF TypeOK, Leased, Counted, Held
  <1>3. Leased'
    BY DEF TypeOK, Leased
  <1>4. Held'
    BY DEF TypeOK, Counted, Leased, Held
  <1>5. DeadOnlyWhenSpent'
    BY DEF TypeOK, Counted, DeadOnlyWhenSpent
  <1>6. DoneWasReturned'
    BY DEF TypeOK, Held, DoneWasReturned
  <1> QED
    BY <1>1, <1>2, <1>3, <1>4, <1>5, <1>6

\* MarkDone preserves the inductive invariant.
LEMMA MarkDoneInv ==
  ASSUME IInv, NEW w \in Workers, MarkDone(w) PROVE IInv'
  <1> USE DEF IInv, MarkDone, SetStage, Goto
  <1>1. TypeOK'
    BY DEF TypeOK, Counted, Leased, Held
  <1>2. Counted'
    BY DEF TypeOK, Leased, Counted, Held
  <1>3. Leased'
    BY DEF TypeOK, Leased
  <1>4. Held'
    BY DEF TypeOK, Counted, Leased, Held
  <1>5. DeadOnlyWhenSpent'
    BY DEF TypeOK, Counted, DeadOnlyWhenSpent
  <1>6. DoneWasReturned'
    BY DEF TypeOK, Held, DoneWasReturned
  <1> QED
    BY <1>1, <1>2, <1>3, <1>4, <1>5, <1>6

\* Complete preserves the inductive invariant.
LEMMA CompleteInv ==
  ASSUME IInv, NEW w \in Workers, Complete(w) PROVE IInv'
  <1> USE DEF IInv, Complete, Release, Locked
  <1>1. TypeOK'
    BY DEF TypeOK, Counted, Leased, Held
  <1>2. Counted'
    BY DEF TypeOK, Leased, Counted, Held
  <1>3. Leased'
    BY DEF TypeOK, Leased
  <1>4. Held'
    BY DEF TypeOK, Counted, Leased, Held
  <1>5. DeadOnlyWhenSpent'
    BY DEF TypeOK, Counted, DeadOnlyWhenSpent
  <1>6. DoneWasReturned'
    BY DEF TypeOK, Held, DoneWasReturned
  <1> QED
    BY <1>1, <1>2, <1>3, <1>4, <1>5, <1>6

\* ReportingRaises preserves the inductive invariant.
LEMMA ReportingRaisesInv ==
  ASSUME IInv, NEW w \in Workers, ReportingRaises(w) PROVE IInv'
  <1> USE DEF IInv, ReportingRaises, Goto
  <1>1. TypeOK'
    BY DEF TypeOK, Counted, Leased, Held
  <1>2. Counted'
    BY DEF TypeOK, Leased, Counted, Held
  <1>3. Leased'
    BY DEF TypeOK, Leased
  <1>4. Held'
    BY DEF TypeOK, Counted, Leased, Held
  <1>5. DeadOnlyWhenSpent'
    BY DEF TypeOK, Counted, DeadOnlyWhenSpent
  <1>6. DoneWasReturned'
    BY DEF TypeOK, Held, DoneWasReturned
  <1> QED
    BY <1>1, <1>2, <1>3, <1>4, <1>5, <1>6

\* FailSelect preserves the inductive invariant.
LEMMA FailSelectInv ==
  ASSUME IInv, NEW w \in Workers, FailSelect(w) PROVE IInv'
  <1>1. hold[w] \in Jobs /\ starts[hold[w]] > 0
    BY DEF FailSelect, IInv, Held
  <1>a. attempt \in [Jobs -> Nat]
    BY DEF IInv, TypeOK
  <1>2. /\ UNCHANGED <<table, history, service, sweep, announcing, crashes>>
        /\ pc' \in [Workers -> Phases]
        /\ hold' \in [Workers -> Jobs \cup {NoJob}]
        /\ seen' \in [Workers -> Nat]
        /\ \A v \in Workers \ {w} : pc'[v] = pc[v] /\ hold'[v] = hold[v]
        /\ pc'[w] \in {"recording", "idle"}
        /\ pc'[w] = "recording" => hold'[w] = hold[w]
    <2>1. CASE status[hold[w]] = "running"
      BY <1>1, <1>a, <2>1 DEF FailSelect, Goto, IInv, TypeOK
    <2>2. CASE status[hold[w]] # "running"
      BY <2>2 DEF FailSelect, Release, IInv, TypeOK
    <2> QED
      BY <2>1, <2>2
  <1>3. TypeOK'
    BY <1>2 DEF IInv, TypeOK
  <1>4. Counted' /\ DeadOnlyWhenSpent' /\ DoneWasReturned'
    BY <1>2 DEF IInv, Counted, DeadOnlyWhenSpent, DoneWasReturned
  <1>5. Leased'
    BY <1>2 DEF IInv, Leased
  <1>6. Held'
    BY <1>1, <1>2 DEF IInv, Held
  <1> QED
    BY <1>3, <1>4, <1>5, <1>6 DEF IInv

\* FailUpdate preserves it: the worker and the row are settled separately.
LEMMA FailUpdateInv ==
  ASSUME IInv, NEW w \in Workers, FailUpdate(w) PROVE IInv'
  <1> DEFINE j == hold[w]
  <1>1. /\ j \in Jobs /\ starts[j] > 0
        /\ pc[w] = "recording"
        /\ UNCHANGED <<owner, kind, stage, history, service, sweep, announcing, crashes>>
    BY DEF FailUpdate, IInv, TypeOK, Held
  \* What happens to the worker ...
  <1>2. /\ pc' \in [Workers -> Phases]
        /\ hold' \in [Workers -> Jobs \cup {NoJob}]
        /\ seen' \in [Workers -> Nat]
        /\ \A v \in Workers \ {w} : pc'[v] = pc[v] /\ hold'[v] = hold[v]
        /\ pc'[w] \in {"reporting", "idle"}
        /\ pc'[w] = "reporting" => hold'[w] = hold[w]
    <2>1. CASE HasProgress(j)
      BY <1>1, <2>1 DEF FailUpdate, Goto, IInv, TypeOK
    <2>2. CASE ~HasProgress(j)
      BY <1>1, <2>2 DEF FailUpdate, Release, IInv, TypeOK
    <2> QED
      BY <2>1, <2>2
  \* ... and to the row.
  <1>3. /\ status' \in [Jobs -> Statuses]
        /\ attempt' \in [Jobs -> Nat]
        /\ due' \in [Jobs -> BOOLEAN] /\ aged' \in [Jobs -> BOOLEAN]
        /\ \A i \in Jobs \ {j} : status'[i] = status[i] /\ attempt'[i] = attempt[i]
        /\ status[j] = "running" =>
             /\ attempt'[j] = attempt[j] + 1
             /\ status'[j] = IF attempt[j] + 1 >= MaxAttempts THEN "dead" ELSE "pending"
        /\ status[j] # "running" => status'[j] = status[j] /\ attempt'[j] = attempt[j]
    <2>1. CASE status[j] = "running"
      <3>1. /\ status' = [status EXCEPT ![j] =
                            IF attempt[j] + 1 >= MaxAttempts THEN "dead" ELSE "pending"]
            /\ attempt' = [attempt EXCEPT ![j] = @ + 1]
            /\ due' = [due EXCEPT ![j] = attempt[j] + 1 >= MaxAttempts]
            /\ aged' = [aged EXCEPT ![j] = FALSE]
        BY <2>1 DEF FailUpdate, Spent, StillRunning
      <3>2. /\ status \in [Jobs -> Statuses] /\ attempt \in [Jobs -> Nat]
            /\ due \in [Jobs -> BOOLEAN] /\ aged \in [Jobs -> BOOLEAN]
        BY DEF IInv, TypeOK
      <3> QED
        BY <1>1, <2>1, <3>1, <3>2
    <2>2. CASE status[j] # "running"
      <3>1. UNCHANGED <<status, attempt, due, aged>>
        BY <2>2 DEF FailUpdate, StillRunning
      <3> QED
        BY <2>2, <3>1 DEF IInv, TypeOK
    <2> QED
      BY <2>1, <2>2
  <1>4. Counted'
    <2>1. starts' = starts
      BY <1>1 DEF history
    <2>2. /\ starts \in [Jobs -> Nat] /\ attempt \in [Jobs -> Nat]
          /\ MaxAttempts \in Nat
      BY DEF IInv, TypeOK
    <2> QED
      BY <1>1, <1>3, <2>1, <2>2 DEF IInv, Counted
  <1>5. TypeOK'
    <2>1. attempt' \in [Jobs -> 0 .. MaxAttempts + 1]
      BY <1>1, <1>3 DEF IInv, TypeOK, Counted
    <2> QED
      BY <1>1, <1>2, <1>3, <2>1 DEF IInv, TypeOK
  <1>6. DeadOnlyWhenSpent'
    BY <1>1, <1>3 DEF IInv, TypeOK, Counted, DeadOnlyWhenSpent
  <1>7. DoneWasReturned'
    BY <1>1, <1>3 DEF IInv, DoneWasReturned
  <1>8. Leased'
    BY <1>1, <1>2, <1>3 DEF IInv, Leased
  <1>9. Held'
    BY <1>1, <1>2 DEF IInv, Held
  <1> QED
    BY <1>4, <1>5, <1>6, <1>7, <1>8, <1>9 DEF IInv

\* FailReport preserves the inductive invariant.
LEMMA FailReportInv ==
  ASSUME IInv, NEW w \in Workers, FailReport(w) PROVE IInv'
  <1> USE DEF IInv, FailReport, Spent, SetStage, Release
  <1>1. TypeOK'
    BY DEF TypeOK, Counted, Leased, Held
  <1>2. Counted'
    BY DEF TypeOK, Leased, Counted, Held
  <1>3. Leased'
    BY DEF TypeOK, Leased
  <1>4. Held'
    BY DEF TypeOK, Counted, Leased, Held
  <1>5. DeadOnlyWhenSpent'
    BY DEF TypeOK, Counted, DeadOnlyWhenSpent
  <1>6. DoneWasReturned'
    BY DEF TypeOK, Held, DoneWasReturned
  <1> QED
    BY <1>1, <1>2, <1>3, <1>4, <1>5, <1>6

\* TickRaises preserves the inductive invariant.
LEMMA TickRaisesInv ==
  ASSUME IInv, NEW w \in Workers, TickRaises(w) PROVE IInv'
  <1> USE DEF IInv, TickRaises, Release
  <1>1. TypeOK'
    BY DEF TypeOK, Counted, Leased, Held
  <1>2. Counted'
    BY DEF TypeOK, Leased, Counted, Held
  <1>3. Leased'
    BY DEF TypeOK, Leased
  <1>4. Held'
    BY DEF TypeOK, Counted, Leased, Held
  <1>5. DeadOnlyWhenSpent'
    BY DEF TypeOK, Counted, DeadOnlyWhenSpent
  <1>6. DoneWasReturned'
    BY DEF TypeOK, Held, DoneWasReturned
  <1> QED
    BY <1>1, <1>2, <1>3, <1>4, <1>5, <1>6

\* Nothing changes, nothing breaks.
LEMMA StutterInv == ASSUME IInv, UNCHANGED vars PROVE IInv'
  BY DEF vars, IInv, TypeOK, Counted, Leased, Held, DeadOnlyWhenSpent,
         DoneWasReturned

\* Every step of the queue preserves the inductive invariant.
LEMMA NextInv == IInv /\ [Next]_vars => IInv'
  <1> SUFFICES ASSUME IInv, [Next]_vars PROVE IInv'
    OBVIOUS
  <1>1. CASE \E j \in Jobs : Enqueue(j) \/ Announce(j) \/ Age(j) \/ BackoffElapses(j)
    BY <1>1, EnqueueInv, AnnounceInv, AgeInv, BackoffElapsesInv
  <1>2. CASE \E u \in Users : CancelPending(u)
    BY <1>2, CancelPendingInv
  <1>3. CASE \E w \in Workers : Worker(w)
    BY <1>3, ClaimPickInv, ClaimCommitInv, HandlerReportsInv,
       HandlerReturnsInv, HandlerRaisesInv, MarkDoneInv, CompleteInv,
       ReportingRaisesInv, FailSelectInv, FailUpdateInv, FailReportInv,
       TickRaisesInv DEF Worker, HandlerEnds, FailStep
  <1>4. CASE SweepPending \/ SweepDead \/ BootPending \/ BootDead
    BY <1>4, SweepPendingInv, SweepDeadInv, BootPendingInv, BootDeadInv
  <1>5. CASE Crash
    BY <1>5, CrashInv
  <1>6. CASE UNCHANGED vars
    BY <1>6, StutterInv
  <1> QED
    BY <1>1, <1>2, <1>3, <1>4, <1>5, <1>6 DEF Next

\* The inductive invariant holds of every behaviour of the queue.
THEOREM Invariance == Spec => []IInv
  BY InitInv, NextInv, PTL DEF Spec

\* However many workers claim, fail, sweep, crash and complete late, a job is
\* claimed at most MaxAttempts + 1 times (_RESET_STUCK_PENDING_SQL, _FAIL_SQL).
THEOREM BoundedExecutions == Spec => []ExecutionsBounded
  <1>1. IInv => ExecutionsBounded
    BY DEF IInv, Counted, ExecutionsBounded
  <1> QED
    BY <1>1, Invariance, PTL

\* fail() and reset_stuck() never give up a job, other than a cancelled
\* session_end job, before MaxAttempts claims.
THEOREM NoEarlyDeath == Spec => []DeadOnlyWhenSpent
  BY Invariance, PTL DEF IInv

\* complete() has no guard, yet only an execution that returned completes.
THEOREM HonestDone == Spec => []DoneWasReturned
  BY Invariance, PTL DEF IInv

-----------------------------------------------------------------------------
(* Every step of the queue is a step of the ledger. *)

\* An empty table is an empty ledger.
LEMMA LedgerInit == Init => Ledger!Init
  BY DEF Init, Ledger!Init

\* A step that moves no job is a stutter of the ledger.
LEMMA LedgerStay ==
  ASSUME UNCHANGED <<status, starts, kind>> PROVE UNCHANGED Ledger!vars
  BY DEF Ledger!vars

\* Requests submit and cancel jobs of the ledger.
LEMMA LedgerRequests ==
  ASSUME IInv, \/ \E j \in Jobs : Enqueue(j)
               \/ \E u \in Users : CancelPending(u)
  PROVE  Ledger!Next
  <1> USE DEF Ledger!Next, Ledger!Submit, Ledger!Cancel, Ledger!Stay, Ledger!Moves
  <1>1. ASSUME NEW j \in Jobs, Enqueue(j) PROVE Ledger!Next
    BY <1>1 DEF Enqueue, IInv, TypeOK
  <1>2. ASSUME NEW u \in Users, CancelPending(u) PROVE Ledger!Next
    BY <1>2 DEF CancelPending, Cancelled
  <1> QED
    BY <1>1, <1>2

\* A claim starts a job within its budget.
LEMMA LedgerClaim ==
  ASSUME IInv, NEW w \in Workers, ClaimCommit(w) PROVE Ledger!Next
  BY DEF ClaimCommit, IInv, TypeOK, Counted, Leased, Ledger!Next, Ledger!Start,
         Ledger!Stay, Ledger!Moves, Ledger!Budget

\* complete() finishes a job that was started, whatever its status is now.
LEMMA LedgerComplete ==
  ASSUME IInv, NEW w \in Workers, Complete(w)
  PROVE  Ledger!Next \/ UNCHANGED Ledger!vars
  <1>1. hold[w] \in Jobs /\ starts[hold[w]] > 0
    BY DEF Complete, IInv, Held
  <1>2. status[hold[w]] # "absent"
    BY <1>1 DEF IInv, Counted
  <1>3. /\ status' = [status EXCEPT ![hold[w]] = "done"]
        /\ UNCHANGED <<starts, kind>>
    BY DEF Complete
  <1>4. status \in [Jobs -> Statuses]
    BY DEF IInv, TypeOK
  <1> QED
    BY <1>1, <1>2, <1>3, <1>4 DEF Ledger!Next, Ledger!Finish, Ledger!Stay,
       Ledger!Moves

\* fail() requeues a job or gives it up, and leaves a row it no longer runs.
LEMMA LedgerFail ==
  ASSUME IInv, NEW w \in Workers, FailUpdate(w)
  PROVE  Ledger!Next \/ UNCHANGED Ledger!vars
  <1> DEFINE j == hold[w]
  <1>1. CASE status[j] # "running"
    BY <1>1, LedgerStay DEF FailUpdate, StillRunning
  <1>2. CASE status[j] = "running"
    <2>1. j \in Jobs /\ starts[j] = attempt[j] + 1 /\ attempt[j] <= MaxAttempts
      BY <1>2 DEF FailUpdate, IInv, Held, Counted
    <2>2. /\ status' = [status EXCEPT ![j] =
                          IF attempt[j] + 1 >= MaxAttempts THEN "dead" ELSE "pending"]
          /\ UNCHANGED <<starts, kind>>
      BY <1>2 DEF FailUpdate, Spent, StillRunning
    <2>3. status \in [Jobs -> Statuses] /\ attempt[j] \in Nat
      BY <2>1 DEF IInv, TypeOK
    <2>4. Ledger!Requeue(j) \/ Ledger!GiveUp(j)
      BY <1>2, <2>1, <2>2, <2>3 DEF Ledger!Requeue, Ledger!GiveUp,
         Ledger!Moves, Ledger!Budget
    <2>5. \A i \in Jobs \ {j} : Ledger!Stay(i)
      BY <2>2, <2>3 DEF Ledger!Stay
    <2> QED
      BY <2>2, <2>4, <2>5 DEF Ledger!Next
  <1> QED
    BY <1>1, <1>2

\* The first statement of reset_stuck() requeues jobs.
LEMMA LedgerResetPending ==
  ASSUME IInv, NEW rows \in SUBSET Jobs, ResetPending(rows), starts' = starts
  PROVE  Ledger!Next
  BY DEF ResetPending, IInv, TypeOK, Counted, Ledger!Next, Ledger!Requeue,
         Ledger!Stay, Ledger!Moves, Ledger!Budget

\* The second statement of reset_stuck() gives jobs up.
LEMMA LedgerResetDead ==
  ASSUME IInv, NEW rows \in SUBSET Jobs, ResetDead(rows), starts' = starts
  PROVE  Ledger!Next
  BY DEF ResetDead, IInv, TypeOK, Counted, Ledger!Next, Ledger!GiveUp,
         Ledger!Stay, Ledger!Moves, Ledger!Budget

\* Every step of the queue is a step of the ledger or leaves it alone.
LEMMA LedgerStep ==
  ASSUME IInv, [Next]_vars PROVE [Ledger!Next]_(Ledger!vars)
  <1>1. ASSUME NEW j \in Jobs, Enqueue(j) \/ Announce(j) \/ Age(j) \/ BackoffElapses(j)
        PROVE  [Ledger!Next]_(Ledger!vars)
    BY <1>1, LedgerRequests, LedgerStay DEF Announce, Age, BackoffElapses, history
  <1>2. ASSUME NEW u \in Users, CancelPending(u) PROVE [Ledger!Next]_(Ledger!vars)
    BY <1>2, LedgerRequests
  <1>3. ASSUME NEW w \in Workers, Worker(w) PROVE [Ledger!Next]_(Ledger!vars)
    <2>1. CASE ClaimCommit(w) \/ Complete(w) \/ FailUpdate(w)
      BY <2>1, LedgerClaim, LedgerComplete, LedgerFail
    <2>2. CASE ClaimPick(w) \/ HandlerReports(w) \/ HandlerEnds(w) \/ MarkDone(w)
      BY <2>2, LedgerStay DEF ClaimPick, HandlerReports, HandlerEnds,
         HandlerReturns, HandlerRaises, MarkDone, table, history
    <2>3. CASE ReportingRaises(w) \/ FailSelect(w) \/ FailReport(w) \/ TickRaises(w)
      BY <2>3, LedgerStay DEF ReportingRaises, FailSelect, FailReport,
         TickRaises, table, history
    <2> QED
      BY <1>3, <2>1, <2>2, <2>3 DEF Worker, FailStep
  <1>4. CASE SweepPending
    BY <1>4, LedgerResetPending DEF SweepPending, AgedJobs, history
  <1>5. CASE SweepDead
    BY <1>5, LedgerResetDead DEF SweepDead, AgedJobs, history
  <1>6. CASE BootPending
    BY <1>6, LedgerResetPending, LedgerStay DEF BootPending, table, history
  <1>7. CASE BootDead
    BY <1>7, LedgerResetDead DEF BootDead, history
  <1>8. CASE Crash \/ UNCHANGED vars
    BY <1>8, LedgerStay DEF Crash, vars, table, history
  <1> QED
    BY <1>1, <1>2, <1>3, <1>4, <1>5, <1>6, <1>7, <1>8 DEF Next

\* The queue implements the ledger: the promise to the code that enqueues.
THEOREM QueueImplementsLedger == Spec => ImplementsLedger
  <1>1. IInv /\ [Next]_vars => [Ledger!Next]_(Ledger!vars)
    BY LedgerStep
  <1> QED
    BY LedgerInit, Invariance, <1>1, PTL DEF Spec, ImplementsLedger, Ledger!Spec

\* A done row stays done, and a settled job is never claimed again: complete(),
\* fail(), cancel and the sweeps only ever move a row the ledger lets them.
THEOREM SettledForGood == Spec => SettledIsFinal
  <1>1. ASSUME IInv, [Next]_vars
        PROVE  \A j \in Jobs :
                 /\ status[j] = "done" => status'[j] = "done"
                 /\ status[j] \in {"done", "dead"} => starts'[j] = starts[j]
    <2>1. [Ledger!Next]_(Ledger!vars)
      BY <1>1, LedgerStep
    <2> QED
      BY <2>1 DEF Ledger!Next, Ledger!vars, Ledger!Submit, Ledger!Start,
         Ledger!Requeue, Ledger!Finish, Ledger!GiveUp, Ledger!Cancel,
         Ledger!Stay, Ledger!Moves
  <1> QED
    BY Invariance, <1>1, PTL DEF Spec, SettledIsFinal

-----------------------------------------------------------------------------
(* The stage that a done row shows. *)

SingleWorker == \A v, w \in Workers : v = w

Shows(j) == stage[j] \in {"done", "queued"}

\* The job at hand is not done, for nobody else could have completed it; and
\* what is about to be completed has been marked.
Marked ==
  \A w \in Workers :
    /\ pc[w] # "idle" => status[hold[w]] # "done"
    /\ pc[w] = "completing" /\ kind[hold[w]] \in IngestKinds => Shows(hold[w])

Shown == Marked /\ CompletedShowsDone

\* Requests and time write no stage but "queued" and complete nothing.
LEMMA ShownRequests ==
  ASSUME IInv, Shown, NEW j \in Jobs,
         Enqueue(j) \/ Announce(j) \/ Age(j) \/ BackoffElapses(j)
  PROVE  Shown'
  <1> USE DEF IInv, TypeOK, Shown, Marked, CompletedShowsDone, Shows
  <1>1. CASE Enqueue(j)
    BY <1>1 DEF Enqueue, Leased, Held
  <1>2. CASE Announce(j)
    BY <1>2 DEF Announce, SetStage, Leased, Held
  <1>3. CASE Age(j) \/ BackoffElapses(j)
    BY <1>3 DEF Age, BackoffElapses
  <1> QED
    BY <1>1, <1>2, <1>3

\* Nor do the cancelling of jobs, the sweep, a crash and start-up.
LEMMA ShownSweeps ==
  ASSUME IInv, Shown,
         \/ \E u \in Users : CancelPending(u)
         \/ SweepPending \/ SweepDead \/ Crash \/ BootPending \/ BootDead
  PROVE  Shown'
  <1> USE DEF IInv, TypeOK, Shown, Marked, CompletedShowsDone, Shows
  <1>1. /\ \A j \in Jobs : status'[j] = "done" => status[j] = "done"
        /\ UNCHANGED <<stage, kind>>
    BY DEF CancelPending, SweepPending, SweepDead, Crash, BootPending, BootDead,
           ResetPending, ResetDead
  <1>2. \A w \in Workers : pc'[w] = "idle" \/ (pc'[w] = pc[w] /\ hold'[w] = hold[w])
    BY DEF CancelPending, SweepPending, SweepDead, Crash, BootPending, BootDead
  <1>3. \A w \in Workers : pc[w] # "idle" => hold[w] \in Jobs
    BY DEF Leased, Held
  <1> QED
    BY <1>1, <1>2, <1>3

\* The worker marks before it completes, and touches the stage of no other row.
LEMMA ShownWorker ==
  ASSUME SingleWorker, IInv, Shown, NEW w \in Workers, Worker(w)
  PROVE  Shown'
  <1> USE DEF IInv, TypeOK, Shown, Marked, CompletedShowsDone, Shows, SingleWorker, Goto
  <1>1. \A v \in Workers : v = w
    OBVIOUS
  <1>2. pc[w] # "idle" => hold[w] \in Jobs
    BY DEF Leased, Held
  <1>3. CASE ClaimPick(w)
    BY <1>1, <1>3 DEF ClaimPick, Eligible
  <1>4. CASE ClaimCommit(w)
    BY <1>1, <1>2, <1>4 DEF ClaimCommit
  <1>5. CASE HandlerReports(w)
    BY <1>1, <1>2, <1>5 DEF HandlerReports, SetStage
  <1>6. CASE HandlerEnds(w)
    BY <1>1, <1>2, <1>6 DEF HandlerEnds, HandlerReturns, HandlerRaises, AfterHandler
  <1>7. CASE MarkDone(w)
    BY <1>1, <1>2, <1>7 DEF MarkDone, SetStage
  <1>8. CASE Complete(w)
    BY <1>1, <1>2, <1>8 DEF Complete, Release
  <1>9. CASE ReportingRaises(w)
    BY <1>1, <1>2, <1>9 DEF ReportingRaises
  <1>10. CASE FailSelect(w)
    BY <1>1, <1>2, <1>10 DEF FailSelect, Release
  <1>11. CASE FailUpdate(w)
    BY <1>1, <1>2, <1>11 DEF FailUpdate, Release, StillRunning
  <1>12. CASE FailReport(w)
    BY <1>1, <1>2, <1>12 DEF FailReport, Release, SetStage
  <1>13. CASE TickRaises(w)
    BY <1>1, <1>2, <1>13 DEF TickRaises, Release
  <1> QED
    BY <1>3, <1>4, <1>5, <1>6, <1>7, <1>8, <1>9, <1>10, <1>11, <1>12, <1>13
       DEF Worker, FailStep

\* With one worker loop, as deployed (main.py), a done ingest job shows no stage of
\* work and no failure: mark_ingest_job_done() comes before complete().
THEOREM DoneShowsDone == ASSUME SingleWorker PROVE Spec => []CompletedShowsDone
  <1>1. Init => Shown
    BY DEF Init, Shown, Marked, CompletedShowsDone
  <1>2. IInv /\ Shown /\ [Next]_vars => Shown'
    <2> SUFFICES ASSUME IInv, Shown, [Next]_vars PROVE Shown'
      OBVIOUS
    <2>1. CASE UNCHANGED vars
      BY <2>1 DEF vars, Shown, Marked, CompletedShowsDone, Shows
    <2> QED
      BY <2>1, ShownRequests, ShownSweeps, ShownWorker DEF Next
  <1>3. Shown => CompletedShowsDone
    BY DEF Shown
  <1> QED
    BY <1>1, <1>2, <1>3, Invariance, PTL DEF Spec
=============================================================================
