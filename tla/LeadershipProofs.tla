----------------------------- MODULE LeadershipProofs -----------------------------
(* Theorems about Leadership for every set of replicas and all durations that   *)
(* satisfy DeadlineAssumption.                                                  *)
EXTENDS Leadership, TLAPS

\* A lease outlasts the leader's last renewal.
LEMMA Times == LeadTime \in Nat /\ Margin \in Nat \ {0} /\ LeadTime + Margin = LeaseDuration
BY DurationsAssumption, DeadlineAssumption DEF LeadTime, Margin

LEMMA LeadTypeInit == LeadInit => LeadTypeOK
BY DurationsAssumption, Times DEF LeadInit, LeadTypeOK

\* What an exit leaves.
LEMMA ExitTypes == ASSUME LeadTypeOK, NEW r \in Replicas, Exit(r) PROVE LeadTypeOK'
BY DEF LeadTypeOK, Exit

LEMMA LeadTypeStep == LeadTypeOK /\ [LeadNext]_leadVars => LeadTypeOK'
<1> SUFFICES ASSUME LeadTypeOK, [LeadNext]_leadVars PROVE LeadTypeOK'
  OBVIOUS
<1> USE DEF LeadTypeOK, leaseVars
<1>1. ASSUME NEW r \in Replicas, Start(r) \/ EndRenewals(r) \/ Terminate(r) \/ LoopReturns(r)
      PROVE  LeadTypeOK'
  BY <1>1 DEF Start, EndRenewals, Terminate, LoopReturns
<1>2. ASSUME NEW r \in Replicas, Observe(r) PROVE LeadTypeOK'
  BY <1>2, DurationsAssumption DEF Observe
<1>3. ASSUME NEW r \in Replicas, Renewed(r) PROVE left' \in [Replicas -> -Margin..LeadTime]
  <2>1. PICK late \in 0..Latency : left' = [left EXCEPT ![r] = late + RetryPeriod + RenewDeadline]
    BY <1>3 DEF Renewed
  <2>2. late + RetryPeriod + RenewDeadline \in -Margin..LeadTime
    BY DurationsAssumption, Times DEF LeadTime
  <2>3. QED BY <2>1, <2>2
<1>4. ASSUME NEW r \in Replicas, Acquire(r) PROVE LeadTypeOK'
  BY <1>3, <1>4 DEF Acquire, Write
<1>5. ASSUME NEW r \in Replicas, Renew(r) PROVE LeadTypeOK'
  BY <1>3, <1>5 DEF Renew, Write
<1>6. ASSUME NEW r \in Replicas, Release(r) PROVE LeadTypeOK'
  BY <1>6 DEF Release, Write
<1>7. ASSUME NEW r \in Replicas, LoseLease(r) \/ Crash(r) PROVE LeadTypeOK'
  BY <1>7, ExitTypes DEF LoseLease, Crash
<1>8. ASSUME Tick PROVE LeadTypeOK'
  <2>1. waited' \in [Replicas -> 0..LeaseDuration]
    BY <1>8, DurationsAssumption DEF Tick
  <2>2. left' \in [Replicas -> -Margin..LeadTime]
    BY <1>8, Times DEF Tick
  <2>3. QED BY <1>8, <2>1, <2>2 DEF Tick
<1>9. ASSUME UNCHANGED leadVars PROVE LeadTypeOK'
  BY <1>9 DEF leadVars
<1>10. QED BY <1>1, <1>2, <1>4, <1>5, <1>6, <1>7, <1>8, <1>9 DEF LeadNext, Replica

\* The lease record, the roles and the clocks stay what they are.
THEOREM LeadTypeCorrect == LeadSafety => []LeadTypeOK
<1>1. QED BY LeadTypeInit, LeadTypeStep, PTL DEF LeadSafety

-----------------------------------------------------------------------------
(* Why there is one loop: whoever has seen the record of a leader has      *)
(* waited for less than LeaseDuration when the leader's renewals end, and   *)
(* for Margin after that.                                                  *)

InTime(r) == role[r] = "leader" \/ (role[r] = "releasing" /\ left[r] > -Margin)

LeaderInv ==
  \A r \in Replicas :
    /\ role[r] = "leader" => left[r] >= 0
    /\ InTime(r) => holder = r /\ \A c \in seen : waited[c] + left[r] <= LeadTime

LoopInv == looping \subseteq {r \in Replicas : role[r] \in {"leader", "releasing", "leaving"}}

LeadInv == LeadTypeOK /\ LeaderInv /\ LoopInv

LEMMA LeadInvInit == LeadInit => LeadInv
BY LeadTypeInit DEF LeadInit, LeadInv, LeaderInv, InTime, LoopInv

\* The clocks are integers.
LEMMA Clocks ==
  ASSUME LeadTypeOK, NEW r \in Replicas
  PROVE  waited[r] \in Nat /\ left[r] \in Int /\ left[r] >= -Margin /\ left[r] <= LeadTime
BY DurationsAssumption, Times DEF LeadTypeOK

\* A new leader finds no other: nobody has waited for LeaseDuration while one leads,
\* nor before its Margin is over.
LEMMA AcquireAlone ==
  ASSUME LeadInv, NEW r \in Replicas, Acquire(r)
  PROVE  \A s \in Replicas : ~InTime(s)
<1> SUFFICES ASSUME NEW s \in Replicas, InTime(s) PROVE FALSE
  OBVIOUS
<1>1. holder = s /\ waited[r] + left[s] <= LeadTime
  BY DEF LeadInv, LeaderInv, Acquire
<1>2. s # r /\ s # Nobody
  BY ReplicasAssumption DEF Acquire, InTime
<1>3. waited[r] >= LeaseDuration
  BY <1>1, <1>2 DEF Acquire
<1>4. left[s] \in Int /\ waited[r] \in Nat /\ left[s] > -Margin
  BY Clocks, Times DEF LeadInv, LeaderInv, InTime
<1>5. QED BY <1>1, <1>3, <1>4, Times, DurationsAssumption

\* A write starts everybody's wait afresh.
LEMMA WriteLead ==
  ASSUME LeadInv, NEW r \in Replicas, Write(r, r), Renewed(r), role'[r] = "leader",
         \A s \in Replicas \ {r} : ~InTime(s) /\ role'[s] = role[s]
  PROVE  LeaderInv'
<1>1. holder' = r /\ seen' = {}
  BY DEF Write
<1>2. left'[r] >= 0 /\ \A s \in Replicas \ {r} : left'[s] = left[s]
  BY DurationsAssumption DEF LeadInv, LeadTypeOK, Renewed
<1>3. QED BY <1>1, <1>2 DEF LeaderInv, InTime

LEMMA ExitLead == ASSUME LeadInv, NEW r \in Replicas, Exit(r) PROVE LeaderInv' /\ LoopInv'
<1>1. LeaderInv'
  BY DEF LeadInv, LeadTypeOK, LeaderInv, InTime, Exit
<1>2. LoopInv'
  BY DEF LeadInv, LeadTypeOK, LoopInv, Exit
<1>3. QED BY <1>1, <1>2

LEMMA TickLead == ASSUME LeadInv, Tick PROVE LeaderInv'
<1> SUFFICES ASSUME NEW s \in Replicas
             PROVE  /\ role'[s] = "leader" => left'[s] >= 0
                    /\ InTime(s)' => holder' = s /\ \A c \in seen' : waited'[c] + left'[s] <= LeadTime
  BY DEF LeaderInv
<1>1. UNCHANGED <<holder, seen, role>>
  BY DEF Tick
<1>2. left[s] \in Int /\ left[s] >= -Margin /\ left[s] <= LeadTime
  BY Clocks DEF LeadInv
<1>3. left'[s] = IF left[s] > -Margin THEN left[s] - 1 ELSE left[s]
  BY DEF Tick
<1>4. role[s] = "leader" => left[s] > 0
  BY DEF Tick
<1>5. role'[s] = "leader" => left'[s] >= 0
  BY <1>1, <1>2, <1>3, <1>4, Times
<1>6. ASSUME InTime(s)' PROVE holder' = s /\ \A c \in seen' : waited'[c] + left'[s] <= LeadTime
  <2>1. InTime(s) /\ left[s] > -Margin
    BY <1>1, <1>2, <1>3, <1>4, <1>6, Times DEF InTime
  <2>2. holder = s
    BY <2>1 DEF LeadInv, LeaderInv
  <2>3. ASSUME NEW c \in seen PROVE waited'[c] + left'[s] <= LeadTime
    <3>1. c \in Replicas
      BY DEF LeadInv, LeadTypeOK
    <3>2. waited[c] \in Nat /\ waited[c] + left[s] <= LeadTime
      BY <2>1, <3>1, Clocks DEF LeadInv, LeaderInv
    <3>3. waited'[c] = waited[c] + 1 \/ waited'[c] = waited[c]
      BY <3>1 DEF Tick
    <3>4. QED BY <1>2, <1>3, <2>1, <3>2, <3>3, Times
  <2>4. QED BY <1>1, <2>2, <2>3
<1>7. QED BY <1>5, <1>6

LEMMA LeadStep == LeadInv /\ [LeadNext]_leadVars => LeadInv'
<1> SUFFICES ASSUME LeadInv, [LeadNext]_leadVars PROVE LeaderInv' /\ LoopInv'
  BY LeadTypeStep DEF LeadInv
<1> USE DEF LeadInv, LeadTypeOK, leaseVars
<1>1. ASSUME NEW r \in Replicas, Start(r) PROVE LeaderInv' /\ LoopInv'
  BY <1>1 DEF Start, LeaderInv, InTime, LoopInv
<1>2. ASSUME NEW r \in Replicas, Terminate(r) \/ LoopReturns(r) PROVE LeaderInv' /\ LoopInv'
  BY <1>2 DEF Terminate, LoopReturns, LeaderInv, InTime, LoopInv
<1>3. ASSUME NEW r \in Replicas, Observe(r) PROVE LeaderInv' /\ LoopInv'
  <2>1. UNCHANGED <<holder, left, role, looping>> /\ seen' = seen \cup {r}
          /\ waited' = [waited EXCEPT ![r] = 0]
    BY <1>3 DEF Observe
  <2>2. ASSUME NEW s \in Replicas, InTime(s), NEW c \in seen'
        PROVE  waited'[c] + left[s] <= LeadTime
    <3>1. CASE c = r
      BY <2>1, <3>1, Clocks
    <3>2. CASE c # r
      BY <2>1, <2>2, <3>2 DEF LeaderInv
    <3>3. QED BY <3>1, <3>2
  <2>3. LeaderInv'
    BY <2>1, <2>2 DEF LeaderInv, InTime
  <2>4. QED BY <2>1, <2>3 DEF LoopInv
<1>4. ASSUME NEW r \in Replicas, Acquire(r) PROVE LeaderInv' /\ LoopInv'
  <2>1. \A s \in Replicas \ {r} : ~InTime(s) /\ role'[s] = role[s]
    BY <1>4, AcquireAlone DEF Acquire
  <2>2. LeaderInv'
    BY <1>4, <2>1, WriteLead DEF Acquire
  <2>3. QED BY <1>4, <2>2 DEF Acquire, LoopInv
<1>5. ASSUME NEW r \in Replicas, Renew(r) PROVE LeaderInv' /\ LoopInv'
  <2>1. \A s \in Replicas \ {r} : ~InTime(s) /\ role'[s] = role[s]
    BY <1>5 DEF Renew, LeaderInv
  <2>2. LeaderInv'
    BY <1>5, <2>1, WriteLead DEF Renew
  <2>3. QED BY <1>5, <2>2 DEF Renew, LoopInv
<1>6. ASSUME NEW r \in Replicas, EndRenewals(r) PROVE LeaderInv' /\ LoopInv'
  <2>1. \A s \in Replicas : InTime(s)' => InTime(s)
    BY <1>6 DEF EndRenewals, InTime
  <2>2. LeaderInv'
    BY <1>6, <2>1 DEF EndRenewals, LeaderInv
  <2>3. QED BY <1>6, <2>2 DEF EndRenewals, LoopInv
<1>7. ASSUME NEW r \in Replicas, Release(r) PROVE LeaderInv' /\ LoopInv'
  <2>1. \A s \in Replicas : ~InTime(s)'
    BY <1>7 DEF Release, LeaderInv, InTime
  <2>2. \A s \in Replicas : role'[s] # "leader"
    BY <2>1 DEF InTime
  <2>3. QED BY <1>7, <2>1, <2>2 DEF Release, LeaderInv, LoopInv
<1>8. ASSUME NEW r \in Replicas, LoseLease(r) \/ Crash(r) PROVE LeaderInv' /\ LoopInv'
  BY <1>8, ExitLead DEF LoseLease, Crash
<1>9. ASSUME Tick PROVE LeaderInv' /\ LoopInv'
  BY <1>9, TickLead DEF Tick, LoopInv
<1>10. ASSUME UNCHANGED leadVars PROVE LeaderInv' /\ LoopInv'
  BY <1>10 DEF leadVars, LeaderInv, InTime, LoopInv
<1>11. QED BY <1>1, <1>2, <1>3, <1>4, <1>5, <1>6, <1>7, <1>8, <1>9, <1>10 DEF LeadNext, Replica

\* "Only the leader runs the controller loop" (main.go:159-160): no two replicas do,
\* except for one that has released the lease, or has been releasing it for as long as
\* LeaseDuration exceeds RetryPeriod + RenewDeadline + Latency (15 > 2 + 10 + Latency,
\* main.go:182-184), however long the release takes and whether or not it succeeds.
THEOREM SingleLoop == LeadSafety => []OneLoop
<1>1. LeadInv => OneLoop
  <2> SUFFICES ASSUME LeadInv, NEW r \in looping, ~Overdue(r) PROVE holder = r
    BY DEF OneLoop
  <2>1. r \in Replicas /\ role[r] \in {"leader", "releasing"}
    BY DEF LeadInv, LoopInv, Overdue
  <2>2. role[r] = "releasing" => left[r] > -Margin
    BY <2>1, Clocks, Times DEF LeadInv, Overdue
  <2>3. QED BY <2>1, <2>2 DEF LeadInv, LeaderInv, InTime
<1>2. QED BY LeadInvInit, LeadStep, <1>1, PTL DEF LeadSafety
===============================================================================
