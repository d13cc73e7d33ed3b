--------------------------- MODULE MCSyncPipeline ---------------------------
(* SyncPipeline for TLC: the batches are interchangeable.                  *)
EXTENDS SyncPipeline, TLC

Symmetry == Permutations(Batches)

\* ADMIN_SYNC_REFERENCE.md:53 calls FAILED "retryable, < 3 attempts" and :98
\* promises "3 attempts max -> DLQ": an event that failed fewer than
\* MAX_RETRIES times would be taken up again, and so leave FAILED.
FailedIsRetried ==
  \A e \in Events :
    status[e] = "FAILED" /\ retry[e] < MaxRetries ~> status[e] # "FAILED"
=============================================================================
