------------------------------ MODULE Leadership ------------------------------
(***************************************************************************)
(* cmd/controller/main.go: main and runLeaderElection.  Each replica       *)
(* starts its controller loop when it is elected, and exits when it is not *)
(* any more.                                                               *)
(* The lease is client-go's (external): a candidate takes it over once it  *)
(* has seen the same record for LeaseDuration, a leader whose renewals     *)
(* fail gives up RenewDeadline after it began to try.  What it then does,  *)
(* the release of the lease, is another call, and its loop goes on until   *)
(* that has ended.  Time is discrete.                                      *)
(***************************************************************************)
EXTENDS Integers, FiniteSets

CONSTANTS
  Replicas,
  Nobody,        \* nobody holds the lease
  LeaseDuration, RenewDeadline, RetryPeriod,
  Latency        \* an answer of the API server comes this late at most

ASSUME ReplicasAssumption == IsFiniteSet(Replicas) /\ Nobody \notin Replicas
ASSUME DurationsAssumption ==
  /\ LeaseDuration \in Nat /\ RenewDeadline \in Nat /\ RetryPeriod \in Nat /\ Latency \in Nat

\* What the durations must satisfy: 2 + 10 + Latency < 15.
ASSUME DeadlineAssumption == RetryPeriod + RenewDeadline + Latency < LeaseDuration

\* How long a leader goes on after its last renewal, and what then is left of its lease.
LeadTime == RetryPeriod + RenewDeadline + Latency
Margin == LeaseDuration - LeadTime

VARIABLES
  holder,        \* the replica in the lease record, or Nobody
  role,          \* replica -> "out", "candidate", "leader", "releasing" or, the lease
                 \* given up, "leaving"
  looping,       \* replicas whose controller loop runs
  seen,          \* candidates that have read the lease record as it is now
  waited,        \* candidate -> how long it has seen the same record
  left,          \* leader -> when its renewals end at the latest; negative: how long ago
  cancelled      \* replicas whose context a signal has cancelled

leaseVars == <<holder, seen, waited, left>>
leadVars == <<leaseVars, role, looping, cancelled>>

Up(r) == role[r] # "out"

-----------------------------------------------------------------------------
\* A new record is one that nobody else has seen.
Write(r, new) == holder' = new /\ seen' = {} /\ UNCHANGED waited

\* The last renewal may be answered late, the next is due a RetryPeriod after
\* that, and may be tried for RenewDeadline.
Renewed(r) == \E late \in 0..Latency :
  left' = [left EXCEPT ![r] = late + RetryPeriod + RenewDeadline]

\* main, up to the election.
Start(r) ==
  /\ role[r] = "out"
  /\ role' = [role EXCEPT ![r] = "candidate"]
  /\ UNCHANGED <<leaseVars, looping, cancelled>>

Observe(r) ==
  /\ role[r] = "candidate" /\ r \notin seen
  /\ seen' = seen \cup {r} /\ waited' = [waited EXCEPT ![r] = 0]
  /\ UNCHANGED <<holder, left, role, looping, cancelled>>

\* OnStartedLeading: runFn.  A replica that restarted finds its own name.
Acquire(r) ==
  /\ role[r] = "candidate" /\ r \notin cancelled
  /\ r \in seen /\ (holder \in {Nobody, r} \/ waited[r] >= LeaseDuration)
  /\ Write(r, r) /\ Renewed(r)
  /\ role' = [role EXCEPT ![r] = "leader"]
  /\ looping' = looping \cup {r}
  /\ UNCHANGED cancelled

Renew(r) ==
  /\ role[r] = "leader" /\ holder = r /\ r \notin cancelled
  /\ Write(r, r) /\ Renewed(r)
  /\ UNCHANGED <<role, looping, cancelled>>

\* The process is gone, and with it the loop.
Exit(r) ==
  /\ role' = [role EXCEPT ![r] = "out"]
  /\ looping' = looping \ {r} /\ seen' = seen \ {r} /\ cancelled' = cancelled \ {r}
  /\ UNCHANGED <<holder, waited, left>>

\* A signal, or RenewDeadline without an answer, ends the renewals.
EndRenewals(r) ==
  /\ role[r] = "leader" /\ (r \in cancelled \/ left[r] = 0)
  /\ role' = [role EXCEPT ![r] = "releasing"]
  /\ UNCHANGED <<leaseVars, looping, cancelled>>

\* ReleaseOnCancel: the lease is given up if it still is the replica's own.
Release(r) ==
  /\ role[r] = "releasing" /\ holder = r
  /\ Write(r, Nobody)
  /\ role' = [role EXCEPT ![r] = "leaving"]
  /\ UNCHANGED <<left, looping, cancelled>>

StopLeading(r) ==
  /\ role[r] = "releasing"
  /\ role' = [role EXCEPT ![r] = "candidate"]
  /\ UNCHANGED <<leaseVars, looping, cancelled>>
Linger(r) ==
  /\ role[r] \in {"releasing", "leaving"} /\ r \in looping
  /\ looping' = looping \ {r}
  /\ UNCHANGED <<leaseVars, role, cancelled>>
\* OnStoppedLeading: os.Exit, after the release or its failure.
LoseLease(r) == role[r] \in {"releasing", "leaving"} /\ Exit(r)

Crash(r) == Up(r) /\ Exit(r)

\* SIGTERM cancels the context of everything.
Terminate(r) ==
  /\ Up(r) /\ r \notin cancelled
  /\ cancelled' = cancelled \cup {r}
  /\ UNCHANGED <<leaseVars, role, looping>>

\* Both the main loop and the periodic goroutine have ended what they were doing.
LoopReturns(r) ==
  /\ r \in cancelled \cap looping
  /\ looping' = looping \ {r}
  /\ UNCHANGED <<leaseVars, role, cancelled>>

TickLate ==
  /\ waited' = [r \in Replicas |-> waited[r] + 1]
  /\ left' = [r \in Replicas |-> left[r] - 1]
  /\ UNCHANGED <<holder, seen, role, looping, cancelled>>
\* Nobody renews past the time by which it gives up; a release takes as long as it takes.
Tick ==
  /\ \A r \in Replicas : role[r] = "leader" => left[r] > 0
  /\ waited' = [r \in Replicas |-> IF waited[r] < LeaseDuration THEN waited[r] + 1 ELSE waited[r]]
  /\ left' = [r \in Replicas |-> IF left[r] > -Margin THEN left[r] - 1 ELSE left[r]]
  /\ UNCHANGED <<holder, seen, role, looping, cancelled>>

Replica(r) ==
  \/ Start(r) \/ Observe(r) \/ Acquire(r) \/ Renew(r) \/ LoseLease(r) \/ Crash(r)
  \/ Terminate(r) \/ EndRenewals(r) \/ Release(r) \/ LoopReturns(r)

LeadInit ==
  /\ holder = Nobody /\ looping = {} /\ seen = {} /\ cancelled = {}
  /\ role = [r \in Replicas |-> "out"]
  /\ waited = [r \in Replicas |-> 0] /\ left = [r \in Replicas |-> 0]

LeadNext == Tick \/ \E r \in Replicas : Replica(r)

LeadSafety == LeadInit /\ [][LeadNext]_leadVars

\* Time passes, Kubernetes restarts what has exited, a replica that is up asks
\* for the lease every RetryPeriod, and the API server answers now and then; the call
\* that releases it ends.
LeadSpec ==
  /\ LeadSafety /\ WF_leadVars(Tick)
  /\ \A r \in Replicas :
       /\ WF_leadVars(Start(r)) /\ WF_leadVars(EndRenewals(r)) /\ WF_leadVars(LoseLease(r))
       /\ WF_leadVars(r \in cancelled /\ role[r] # "leader" /\ Crash(r))
       /\ SF_leadVars(Observe(r)) /\ SF_leadVars(Acquire(r))

-----------------------------------------------------------------------------
(* Properties.                                                             *)

LeadTypeOK ==
  /\ holder \in Replicas \cup {Nobody}
  /\ role \in [Replicas -> {"out", "candidate", "leader", "releasing", "leaving"}]
  /\ looping \subseteq Replicas /\ seen \subseteq Replicas /\ cancelled \subseteq Replicas
  /\ waited \in [Replicas -> 0..LeaseDuration] /\ left \in [Replicas -> -Margin..LeadTime]

\* A replica that has released its lease is about to exit; one whose release hangs has
\* the Margin of its lease to do so.
Overdue(r) == role[r] = "leaving" \/ (role[r] = "releasing" /\ left[r] = -Margin)

\* "Only the leader runs the controller loop" (main.go:159-160): no two replicas
\* run it at the same time, except for one that is overdue: a successor may meet the
\* loop of a replica that has just released the lease, and of one that has been trying
\* to for as long as LeaseDuration exceeds RetryPeriod, RenewDeadline and a late answer.
OneLoop == \A r, s \in {x \in looping : ~Overdue(x)} : r = s

\* "When leadership is lost, the process exits so that Kubernetes restarts it and
\* it can rejoin the election" (main.go:160-161): while some replica stays up, there
\* is a leader again and again, whatever the others do.
LeaderAgain ==
  \A r \in Replicas : <>[](Up(r) /\ r \notin cancelled) => []<>(looping # {})
=============================================================================
