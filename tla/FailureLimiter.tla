--------------------------- MODULE FailureLimiter ---------------------------
(***************************************************************************)
(* The limiter of failed sign-ins (app/services/rate_limit.py).  Failures  *)
(* of one scope and key are the sequence of the times they were written    *)
(* at; a caller is refused while a limit's worth of them is in the window. *)
(* The rows are read in the order of their times, so that those later than *)
(* a time are the last ones.                                               *)
(***************************************************************************)
EXTENDS Integers, Sequences, FiniteSets

CONSTANTS
  Window,    \* WINDOW_SECONDS
  Retention, \* RETENTION_HOURS, in the same unit
  Limit      \* LIMITS of each scope

ASSUME LimiterAssumption ==
  /\ Window \in Nat \ {0} /\ Retention \in Nat
  /\ Window <= Retention
  /\ \A scope \in DOMAIN Limit : Limit[scope] \in Nat \ {0}

\* The last n failures.
Latest(failed, n) == SubSeq(failed, Len(failed) - n + 1, Len(failed))

\* The failures that count at a time, in the order they were written.
InWindow(failed, time) ==
  Latest(failed, Cardinality({i \in DOMAIN failed : failed[i] > time - Window}))

\* Wrong variant: refused from the failure after the limit on.
LimitExceeded(failed, scope, time) == Len(InWindow(failed, time)) > Limit[scope]

\* check: the caller is refused.
LimitReached(failed, scope, time) == Len(InWindow(failed, time)) >= Limit[scope]

\* Wrong variant: released with the oldest failure, however many there are.
RetryAfterOldest(failed, scope, time) ==
  LET remaining == Window - (time - InWindow(failed, time)[1])
  IN  IF remaining > 1 THEN remaining ELSE 1

\* The Retry-After of a refusal.
RetryAfter(failed, scope, time) ==
  LET counted == InWindow(failed, time)
      releasing == counted[Len(counted) - Limit[scope] + 1]
      remaining == Window - (time - releasing)
  IN  IF remaining > 1 THEN remaining ELSE 1

\* One more failure; those past retention are purged, of any key.
Purged(failed, time) ==
  Latest(failed, Cardinality({i \in DOMAIN failed : failed[i] >= time - Retention}))

Recorded(failures, key, time) ==
  [k \in DOMAIN failures |->
     Purged(IF k = key THEN Append(failures[k], time) ELSE failures[k], time)]
=============================================================================
