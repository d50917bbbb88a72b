\* Two replicas, short durations with the relation of the real ones; replicas crash
\* and are told to terminate.
SPECIFICATION LeadSpec
CONSTANTS
  Replicas = {r1, r2}
  Nobody = Nobody
  LeaseDuration = 6
  RenewDeadline = 2
  RetryPeriod = 1
  Latency = 1
INVARIANTS LeadTypeOK OneLoop
PROPERTY LeaderAgain
