--------------------------- MODULE ProgressProofs ----------------------------
(***************************************************************************)
(* The counters of a publication job, for any number of links and retries. *)
(***************************************************************************)
EXTENDS PublicationProgress, TLAPS

(* What each of the two copies satisfies on its own. *)
Sound(c) ==
    /\ c \in Counters
    /\ c.applied + c.attempt_failed <= c.total
    /\ c.applied + c.failed <= c.total

(* The strengthening: both copies are sound; the running one is never      *)
(* behind the stored one, still has room for what is left of the batch,    *)
(* and has counted every committed link since the attempt began; and a run *)
(* that its task or its handler failed is over.                            *)
Inv ==
    /\ ProgressTypeOK
    /\ Sound(stored) /\ Sound(progress)
    /\ AppliedIsExact
    /\ TerminalAddsUp
    /\ status = "failed" /\ error = "task" => attempt = "over"
    /\ attempt = "going" =>
          /\ progress.failed = progress.attempt_failed
          /\ stored.applied <= progress.applied /\ stored.total <= progress.total
          /\ progress.applied <= written
          /\ ~missed => progress = stored
          /\ progress.applied + progress.attempt_failed + left <= progress.total
          /\ left <= approved

(* What a dashboard may have seen does not shrink in a step. *)
Grows == stored'.applied >= stored.applied /\ stored'.total >= stored.total

(* mark_publication_failure keeps a copy sound and keeps what a dashboard  *)
(* has seen; when it is terminal the counters add up to the total.         *)
LEMMA MarkFailureFact ==
    ASSUME NEW c, Sound(c), NEW terminal \in BOOLEAN
    PROVE  /\ Sound(mark_publication_failure(c, terminal))
           /\ mark_publication_failure(c, terminal).applied = c.applied
           /\ mark_publication_failure(c, terminal).total = c.total
           /\ terminal => mark_publication_failure(c, terminal).failed
                             + mark_publication_failure(c, terminal).skipped
                             = c.total - c.applied
  <1> DEFINE rest == c.total - c.applied - c.skipped
             failed == Larger(Larger(rest, c.attempt_failed), 0)
             skipped == Larger(c.total - c.applied - failed, 0)
  <1>0. c \in Counters /\ c.applied + c.attempt_failed <= c.total
    BY DEF Sound
  <1>1. /\ c.total \in Nat /\ c.applied \in Nat /\ c.skipped \in Nat
        /\ c.attempt_failed \in Nat
    BY <1>0 DEF Counters
  <1>2. failed \in Nat /\ failed <= c.total - c.applied
    <2>1. rest \in Int /\ rest <= c.total - c.applied
      BY <1>1
    <2>2. /\ Larger(rest, c.attempt_failed) \in Int
          /\ Larger(rest, c.attempt_failed) <= c.total - c.applied
      BY <2>1, <1>0, <1>1 DEF Larger
    <2>. QED BY <2>2, <1>0, <1>1 DEF Larger
  <1>3. skipped = c.total - c.applied - failed /\ skipped \in Nat
    BY <1>1, <1>2 DEF Larger
  <1>. HIDE DEF failed, skipped
  <1>4. CASE terminal
    <2> DEFINE d == [c EXCEPT !.failed = failed, !.failure_state = "terminal",
                              !.skipped = skipped]
    <2>1. mark_publication_failure(c, terminal) = d
      BY <1>4 DEF mark_publication_failure, failed, skipped
    <2>2. /\ d \in Counters
          /\ d.applied = c.applied /\ d.total = c.total /\ d.attempt_failed = c.attempt_failed
          /\ d.failed = failed /\ d.skipped = skipped
      BY <1>0, <1>2, <1>3 DEF Counters, FailureStates
    <2>. HIDE DEF d
    <2>3. d.failed + d.skipped = c.total - c.applied /\ d.applied + d.failed <= d.total
      BY <2>2, <1>1, <1>2, <1>3
    <2>. QED BY <2>1, <2>2, <2>3, <1>0 DEF Sound
  <1>5. CASE ~terminal
    <2> DEFINE d == [c EXCEPT !.failed = c.attempt_failed, !.failure_state = "retrying"]
    <2>1. mark_publication_failure(c, terminal) = d
      BY <1>5 DEF mark_publication_failure
    <2>2. /\ d \in Counters
          /\ d.applied = c.applied /\ d.total = c.total /\ d.attempt_failed = c.attempt_failed
          /\ d.failed = c.attempt_failed
      BY <1>0, <1>1 DEF Counters, FailureStates
    <2>. QED BY <2>1, <2>2, <1>0, <1>5 DEF Sound
  <1>. QED BY <1>4, <1>5

(* The other operations on the counters: each keeps a copy sound.          *)
LEMMA BeginFact ==
    ASSUME NEW c, Sound(c), NEW batch \in Nat
    PROVE  /\ Sound(begin_publication_attempt(c, batch))
           /\ begin_publication_attempt(c, batch).applied = c.applied
           /\ begin_publication_attempt(c, batch).attempt_failed = 0
           /\ begin_publication_attempt(c, batch).failed = 0
           /\ begin_publication_attempt(c, batch).total >= c.total
           /\ begin_publication_attempt(c, batch).total >= c.applied + batch
  <1> DEFINE total == Larger(c.total, c.applied + batch)
             d == [c EXCEPT !.failed = 0, !.total = total, !.attempt_skipped = 0,
                            !.attempt_failed = 0, !.failure_state = "none"]
  <1>1. c \in Counters /\ c.total \in Nat /\ c.applied \in Nat
    BY DEF Sound, Counters
  <1>2. total \in Nat /\ total >= c.total /\ total >= c.applied + batch
    BY <1>1 DEF Larger
  <1>3. begin_publication_attempt(c, batch) = d
    BY DEF begin_publication_attempt
  <1>. HIDE DEF total
  <1>4. /\ d \in Counters
        /\ d.applied = c.applied /\ d.attempt_failed = 0 /\ d.failed = 0 /\ d.total = total
    BY <1>1, <1>2 DEF Counters, FailureStates
  <1>. HIDE DEF d
  <1>. QED BY <1>1, <1>2, <1>3, <1>4 DEF Sound

LEMMA AppliedFact ==
    ASSUME NEW c, Sound(c), NEW n \in Nat
    PROVE  /\ record_publication_applied(c, n) \in Counters
           /\ record_publication_applied(c, n).applied = c.applied + n
           /\ record_publication_applied(c, n).total = c.total
           /\ record_publication_applied(c, n).attempt_failed = c.attempt_failed
           /\ record_publication_applied(c, n).failed = c.failed
BY DEF Sound, Counters, record_publication_applied

LEMMA SkipFact ==
    ASSUME NEW c, Sound(c), NEW n \in Nat
    PROVE  /\ Sound(record_publication_skip(c, n))
           /\ record_publication_skip(c, n).applied = c.applied
           /\ record_publication_skip(c, n).total = c.total
           /\ record_publication_skip(c, n).attempt_failed = c.attempt_failed
           /\ record_publication_skip(c, n).failed = c.failed
  <1> DEFINE skipped == Larger(c.skipped, c.attempt_skipped + n)
             more == c.attempt_skipped + n
             d == [c EXCEPT !.skipped = skipped, !.attempt_skipped = more]
  <1>1. /\ c \in Counters
        /\ c.skipped \in Nat /\ c.attempt_skipped \in Nat
    BY DEF Sound, Counters
  <1>2. skipped \in Nat /\ more \in Nat
    BY <1>1 DEF Larger
  <1>3. record_publication_skip(c, n) = d
    BY DEF record_publication_skip
  <1>. HIDE DEF skipped, more
  <1>4. /\ d \in Counters /\ d.applied = c.applied /\ d.total = c.total
        /\ d.attempt_failed = c.attempt_failed /\ d.failed = c.failed
    BY <1>1, <1>2 DEF Counters
  <1>. HIDE DEF d
  <1>. QED BY <1>3, <1>4 DEF Sound

LEMMA FailureFact ==
    ASSUME NEW c, Sound(c), NEW n \in Nat
    PROVE  /\ record_publication_failure(c, n) \in Counters
           /\ record_publication_failure(c, n).applied = c.applied
           /\ record_publication_failure(c, n).total = c.total
           /\ record_publication_failure(c, n).attempt_failed = c.attempt_failed + n
           /\ record_publication_failure(c, n).failed = c.attempt_failed + n
  <1> DEFINE failed == c.attempt_failed + n
             failures == c.attempt_failures + n
             d == [c EXCEPT !.failed = failed, !.attempt_failed = failed,
                            !.attempt_failures = failures]
  <1>1. c \in Counters /\ failed \in Nat /\ failures \in Nat
    BY DEF Sound, Counters
  <1>2. record_publication_failure(c, n) = d
    BY DEF record_publication_failure
  <1>3. failed = c.attempt_failed + n
    OBVIOUS
  <1>. HIDE DEF failed, failures
  <1>4. /\ d \in Counters /\ d.applied = c.applied /\ d.total = c.total
        /\ d.attempt_failed = failed /\ d.failed = failed
    BY <1>1 DEF Counters
  <1>. HIDE DEF d
  <1>. QED BY <1>2, <1>3, <1>4

LEMMA CompleteFact ==
    ASSUME NEW c, Sound(c)
    PROVE  /\ Sound(complete_publication_success(c))
           /\ complete_publication_success(c).applied = c.applied
           /\ complete_publication_success(c).total = c.total
  <1> DEFINE d == [c EXCEPT !.failed = 0, !.skipped = c.total - c.applied, !.total = c.total,
                            !.attempt_failed = 0, !.failure_state = "none"]
  <1>1. /\ c \in Counters /\ c.total \in Nat /\ c.applied \in Nat /\ c.attempt_failed \in Nat
        /\ c.applied + c.attempt_failed <= c.total
    BY DEF Sound, Counters
  <1>2. Larger(c.total, c.applied) = c.total /\ c.total - c.applied \in Nat
    BY <1>1 DEF Larger
  <1>3. complete_publication_success(c) = d
    BY <1>2 DEF complete_publication_success
  <1>4. /\ d \in Counters /\ d.applied = c.applied /\ d.total = c.total
        /\ d.attempt_failed = 0 /\ d.failed = 0
    BY <1>1, <1>2 DEF Counters, FailureStates
  <1>. HIDE DEF d
  <1>. QED BY <1>1, <1>3, <1>4 DEF Sound

LEMMA InitInv == ProgressInit => Inv
  <1> SUFFICES ASSUME ProgressInit PROVE Inv
    OBVIOUS
  <1>1. Sound(NoProgress)
    BY DEF Sound, NoProgress, Counters, FailureStates
  <1>2. NoProgress.applied = 0 /\ NoProgress.total = 0
    BY DEF NoProgress
  <1>3. progress \in Counters /\ stored \in Counters
    BY <1>1 DEF ProgressInit, Sound
  <1>4. left \in Nat /\ approved \in Nat /\ written \in Nat /\ ever \in 0..MaxLinks
    BY ProgressAssumption DEF ProgressInit
  <1>5. retries \in 0..PublishRetries
    BY ProgressAssumption DEF ProgressInit
  <1>6. ProgressTypeOK
    BY <1>3, <1>4, <1>5 DEF ProgressInit, ProgressTypeOK
  <1>. QED BY <1>1, <1>2, <1>6 DEF ProgressInit, Inv, AppliedIsExact, TerminalAddsUp

(* An attempt ends in failure, and its row is told. *)
LEMMA GiveUpInv ==
    ASSUME Inv, NEW final \in BOOLEAN, retries = 0 => final,
           MarkFailed(final), GiveUpOrRetry(final)
    PROVE  Inv' /\ Grows
  <1>1. /\ Sound(stored')
        /\ stored'.applied = stored.applied /\ stored'.total = stored.total
        /\ final => stored'.failed + stored'.skipped = stored'.total - stored'.applied
    BY MarkFailureFact DEF Inv, MarkFailed
  <1>2. /\ status' = (IF final THEN "failed" ELSE "queued") /\ error' = "task"
        /\ attempt' = (IF final THEN "over" ELSE "waiting")
    BY DEF MarkFailed, GiveUpOrRetry
  <1>3. /\ left' = 0 /\ progress' = progress /\ approved' = approved /\ ever' = ever
        /\ written' = written /\ missed' = missed /\ retryable' = retryable
        /\ retries' = IF final THEN retries ELSE retries - 1
    BY DEF GiveUpOrRetry
  <1>4. retries' \in 0..PublishRetries
    BY <1>3, ProgressAssumption DEF Inv, ProgressTypeOK
  <1>5. stored' \in Counters
    BY <1>1 DEF Sound
  <1>6. ProgressTypeOK'
    BY <1>2, <1>3, <1>4, <1>5 DEF Inv, ProgressTypeOK
  <1>7. AppliedIsExact'
    BY <1>1, <1>3 DEF Inv, AppliedIsExact
  <1>8. TerminalAddsUp'
    <2>1. stored'.applied \in Nat /\ stored'.failed \in Nat /\ stored'.skipped \in Nat
          /\ stored'.total \in Nat
      BY <1>5 DEF Counters
    <2>2. CASE final
      BY <1>1, <2>1, <2>2 DEF TerminalAddsUp, Sound
    <2>3. CASE ~final
      BY <1>2, <2>3 DEF TerminalAddsUp
    <2>. QED BY <2>2, <2>3
  <1>9. attempt' # "going" /\ (status' = "failed" => attempt' = "over")
    BY <1>2
  <1>. QED
    BY <1>1, <1>3, <1>5, <1>6, <1>7, <1>8, <1>9 DEF Inv, Grows, Counters

(* The row keeps its counters and its status, or becomes failed without its *)
(* task or its handler.                                                     *)
LEMMA UntoldInv ==
    ASSUME Inv, UNCHANGED <<progress, stored, approved, ever, written, missed, retryable>>,
           left' \in Nat, retries' \in 0..PublishRetries,
           attempt' \in {"waiting", "going", "done", "over"},
           \/ UNCHANGED <<status, error>> /\ (attempt = "over" => attempt' = "over")
           \/ status' = "failed" /\ error' = "lost",
           attempt' = "going" => attempt = "going" /\ UNCHANGED left
    PROVE  Inv' /\ Grows
  <1>1. /\ stored \in Counters /\ stored.applied + stored.failed <= stored.total
        /\ stored.applied \in Nat /\ stored.total \in Nat
    BY DEF Inv, Sound, Counters
  <1>2. ProgressTypeOK'
    BY DEF Inv, ProgressTypeOK
  <1>3. AppliedIsExact'
    BY DEF Inv, AppliedIsExact
  <1>4. TerminalAddsUp'
    BY <1>1 DEF Inv, TerminalAddsUp
  <1>5. Sound(stored)' /\ Sound(progress)'
    BY DEF Inv, Sound
  <1>6. status' = "failed" /\ error' = "task" => attempt' = "over"
    BY DEF Inv
  <1>. QED BY <1>1, <1>2, <1>3, <1>4, <1>5, <1>6 DEF Inv, Grows

(* A step of a running attempt: the new counters may or may not be stored. *)
LEMMA CheckpointInv ==
    ASSUME Inv, Checkpoint, Sound(progress'),
           left' \in Nat, approved' \in Nat, ever' \in 0..MaxLinks, written' \in Nat,
           retryable' \in BOOLEAN, retries' \in 0..PublishRetries,
           status' \in {"queued", "running", "succeeded", "failed"},
           error' \in {"none", "task", "lost"}, attempt' \in {"going", "done"},
           status' = "failed" => error' # "task",
           written <= written',
           stored.applied <= progress'.applied, stored.total <= progress'.total,
           progress'.applied <= written',
           ~missed => progress'.applied = written',
           attempt' = "going" =>
               /\ progress'.failed = progress'.attempt_failed
               /\ progress'.applied + progress'.attempt_failed + left' <= progress'.total
               /\ left' <= approved'
    PROVE  Inv' /\ Grows
  <1>1. progress' \in Counters /\ progress'.applied \in Nat /\ progress'.attempt_failed \in Nat
        /\ progress'.total \in Nat /\ progress'.applied + progress'.attempt_failed <= progress'.total
        /\ progress'.applied + progress'.failed <= progress'.total
    BY DEF Sound, Counters
  <1>2. stored \in Counters /\ stored.applied \in Nat /\ stored.total \in Nat /\ Sound(stored)
        /\ written \in Nat /\ stored.applied <= written /\ stored.applied <= stored.total
        /\ stored.applied + stored.failed <= stored.total
    BY DEF Inv, ProgressTypeOK, Counters, AppliedIsExact, Sound
  <1>3. CASE stored' = progress' /\ missed' = missed
    <2>1. ProgressTypeOK'
      BY <1>1, <1>3 DEF Inv, ProgressTypeOK
    <2>2. AppliedIsExact'
      BY <1>1, <1>3 DEF AppliedIsExact
    <2>3. TerminalAddsUp'
      BY <1>1, <1>3 DEF TerminalAddsUp
    <2>. QED BY <1>1, <1>2, <1>3, <2>1, <2>2, <2>3 DEF Inv, Grows
  <1>4. CASE stored' = stored /\ missed' = TRUE
    <2>1. ProgressTypeOK'
      BY <1>1, <1>2, <1>4 DEF ProgressTypeOK
    <2>2. AppliedIsExact'
      BY <1>2, <1>4 DEF AppliedIsExact
    <2>3. Sound(stored')
      BY <1>2, <1>4
    <2>4. TerminalAddsUp'
      BY <1>2, <1>4 DEF TerminalAddsUp
    <2>. QED BY <1>1, <1>2, <1>4, <2>1, <2>2, <2>3, <2>4 DEF Inv, Grows
  <1>. QED BY <1>3, <1>4 DEF Checkpoint

LEMMA NextInv == Inv /\ [ProgressNext]_progressVars => Inv' /\ Grows
  <1> SUFFICES ASSUME Inv, [ProgressNext]_progressVars PROVE Inv' /\ Grows
    OBVIOUS
  <1>0. /\ Sound(stored) /\ Sound(progress) /\ left \in Nat /\ approved \in Nat
        /\ ever \in 0..MaxLinks /\ written \in Nat /\ missed \in BOOLEAN
        /\ retryable \in BOOLEAN /\ retries \in 0..PublishRetries
        /\ stored.applied \in Nat /\ stored.total \in Nat
        /\ progress.applied \in Nat /\ progress.total \in Nat /\ progress.attempt_failed \in Nat
        /\ stored.applied <= written /\ (~missed => stored.applied = written)
        /\ progress.applied + progress.attempt_failed <= progress.total
        /\ status \in {"queued", "running", "succeeded", "failed"} /\ error \in {"none", "task", "lost"}
        /\ attempt \in {"waiting", "going", "done", "over"}
        /\ (status = "failed" /\ error = "task" => attempt = "over")
    BY DEF Inv, ProgressTypeOK, Sound, Counters, AppliedIsExact
  <1>r. ASSUME attempt = "going"
        PROVE  /\ progress.failed = progress.attempt_failed
               /\ stored.applied <= progress.applied /\ stored.total <= progress.total
               /\ progress.applied <= written
               /\ ~missed => progress = stored
               /\ progress.applied + progress.attempt_failed + left <= progress.total
               /\ left <= approved
    BY <1>r DEF Inv
  <1>1. CASE Begin
    <2>1. progress' = begin_publication_attempt(stored, approved) /\ Checkpoint
      BY <1>1 DEF Begin
    <2>2. /\ left' = approved /\ retryable' = FALSE /\ status' = "running"
          /\ attempt' = "going" /\ error' = error
          /\ approved' = approved /\ ever' = ever /\ written' = written /\ retries' = retries
      BY <1>1 DEF Begin
    <2>3. /\ Sound(progress') /\ progress'.applied = stored.applied
          /\ progress'.attempt_failed = 0 /\ progress'.failed = 0 /\ progress'.total >= stored.total
          /\ progress'.total >= stored.applied + approved
      BY <1>0, <2>1, BeginFact
    <2>4. progress'.total \in Nat
      BY <2>3 DEF Sound, Counters
    <2>5. retryable' \in BOOLEAN
      BY <2>2
    <2>6. /\ progress'.applied + progress'.attempt_failed + left' <= progress'.total
          /\ left' <= approved'
      BY <1>0, <2>2, <2>3, <2>4
    <2>. QED BY <1>0, <2>1, <2>2, <2>3, <2>4, <2>5, <2>6, CheckpointInv
  <1>2. ASSUME NEW n \in 1..MaxLinks, LinkApplied(n) PROVE Inv' /\ Grows
    <2>1. /\ progress' = record_publication_applied(progress, n) /\ Checkpoint
          /\ attempt = "going" /\ n \in 1..left /\ n \in Nat
      BY <1>0, <1>2 DEF LinkApplied, Reach
    <2>2. /\ left' = left - n /\ written' = written + n /\ approved' = approved - n
          /\ ever' = ever /\ retryable' = retryable /\ status' = status /\ retries' = retries
          /\ attempt' = attempt /\ error' = error
      BY <1>2 DEF LinkApplied, Reach
    <2>3. /\ progress' \in Counters /\ progress'.applied = progress.applied + n
          /\ progress'.total = progress.total
          /\ progress'.attempt_failed = progress.attempt_failed
          /\ progress'.failed = progress.failed
      BY <1>0, <2>1, AppliedFact
    <2>4. Sound(progress')
      BY <1>0, <1>r, <2>1, <2>3 DEF Sound
    <2>. QED BY <1>0, <1>r, <2>1, <2>2, <2>3, <2>4, CheckpointInv
  <1>3. ASSUME NEW n \in 1..MaxLinks, Skipped(n) PROVE Inv' /\ Grows
    <2>1. /\ progress' = record_publication_skip(progress, n) /\ Checkpoint
          /\ attempt = "going" /\ n \in 1..left /\ n \in Nat
      BY <1>0, <1>3 DEF Skipped, Reach
    <2>2. /\ left' = left - n /\ written' = written /\ approved' = approved - n
          /\ ever' = ever /\ retryable' = retryable /\ status' = status /\ retries' = retries
          /\ attempt' = attempt /\ error' = error
      BY <1>3 DEF Skipped, Reach
    <2>3. /\ Sound(progress') /\ progress'.applied = progress.applied
          /\ progress'.total = progress.total
          /\ progress'.attempt_failed = progress.attempt_failed
          /\ progress'.failed = progress.failed
      BY <1>0, <2>1, SkipFact
    <2>. QED BY <1>0, <1>r, <2>1, <2>2, <2>3, CheckpointInv
  <1>4. ASSUME NEW n \in 1..MaxLinks, NEW retired \in BOOLEAN, Failed(n, retired) PROVE Inv' /\ Grows
    <2>1. /\ progress' = record_publication_failure(progress, n) /\ Checkpoint
          /\ attempt = "going" /\ n \in 1..left /\ n \in Nat
      BY <1>0, <1>4 DEF Failed, Reach
    <2>2. /\ left' = left - n /\ written' = written
          /\ approved' = IF retired THEN approved - n ELSE approved
          /\ ever' = ever /\ status' = status /\ retries' = retries
          /\ attempt' = attempt /\ error' = error
      BY <1>4 DEF Failed, Reach
    <2>3. /\ progress' \in Counters /\ progress'.applied = progress.applied
          /\ progress'.total = progress.total
          /\ progress'.attempt_failed = progress.attempt_failed + n
          /\ progress'.failed = progress.attempt_failed + n
      BY <1>0, <2>1, FailureFact
    <2>4. Sound(progress')
      BY <1>0, <1>r, <2>1, <2>3 DEF Sound
    <2>5. retryable' \in BOOLEAN
      BY <1>4 DEF Failed
    <2>6. left' \in Nat /\ approved' \in Nat /\ left' <= approved'
      BY <1>0, <1>r, <2>1, <2>2
    <2>. QED BY <1>0, <1>r, <2>1, <2>2, <2>3, <2>4, <2>5, <2>6, CheckpointInv
  <1>5. CASE EndFailed
    <2> DEFINE final == ~retryable \/ retries = 0
    <2>1. MarkFailed(final) /\ GiveUpOrRetry(final) /\ final \in BOOLEAN /\ (retries = 0 => final)
      BY <1>5 DEF EndFailed
    <2>. HIDE DEF final
    <2>. QED BY <2>1, GiveUpInv
  <1>6. ASSUME NEW stopped \in BOOLEAN, Killed(stopped) PROVE Inv' /\ Grows
    <2> DEFINE final == stopped \/ retries = 0
    <2>1. /\ GiveUpOrRetry(final) /\ final \in BOOLEAN /\ (retries = 0 => final)
          /\ MarkFailed(final) \/ UNCHANGED <<stored, status, error>>
          /\ attempt \in {"going", "done"}
      BY <1>6 DEF Killed
    <2>. HIDE DEF final
    <2>2. CASE MarkFailed(final)
      BY <2>1, <2>2, GiveUpInv
    <2>3. CASE UNCHANGED <<stored, status, error>>
      <3>1. /\ UNCHANGED <<progress, approved, ever, written, missed, retryable>>
            /\ left' \in Nat /\ attempt' \in {"waiting", "over"}
            /\ retries' = IF final THEN retries ELSE retries - 1
        BY <2>1 DEF GiveUpOrRetry
      <3>2. retries' \in 0..PublishRetries
        BY <1>0, <2>1, <3>1, ProgressAssumption
      <3>. QED BY <2>1, <2>3, <3>1, <3>2, UntoldInv
    <2>. QED BY <2>1, <2>2, <2>3
  <1>7. CASE EndSucceeded
    <2>1. /\ progress' = complete_publication_success(progress) /\ Checkpoint
          /\ attempt = "going"
      BY <1>7 DEF EndSucceeded
    <2>2. /\ left' = left /\ approved' = approved /\ ever' = ever /\ written' = written
          /\ retryable' = retryable /\ retries' = retries /\ status' = "succeeded"
          /\ attempt' = "done" /\ error' = "none"
      BY <1>7 DEF EndSucceeded
    <2>3. Sound(progress') /\ progress'.applied = progress.applied /\ progress'.total = progress.total
      BY <1>0, <2>1, CompleteFact
    <2>. QED BY <1>0, <1>r, <2>1, <2>2, <2>3, CheckpointInv
  <1>10. CASE DeclaredLost
    <2>1. /\ UNCHANGED <<progress, stored, left, approved, ever, written, missed, retryable, retries>>
          /\ status' = "failed" /\ error' = "lost" /\ attempt' \in {attempt, "over"}
      BY <1>10 DEF DeclaredLost
    <2>. QED BY <1>0, <2>1, UntoldInv
  <1>8. ASSUME NEW n \in 1..MaxLinks, ApproveMore(n) PROVE Inv' /\ Grows
    <2>1. /\ ever' \in 0..MaxLinks /\ approved' \in Nat /\ approved' >= approved
      BY <1>0, <1>8, ProgressAssumption DEF ApproveMore
    <2>2. UNCHANGED <<progress, stored, left, written, missed, retryable, status, error, attempt,
                      retries>>
      BY <1>8 DEF ApproveMore
    <2>3. ProgressTypeOK'
      BY <2>1, <2>2 DEF Inv, ProgressTypeOK
    <2>. QED BY <1>0, <2>1, <2>2, <2>3 DEF Inv, AppliedIsExact, TerminalAddsUp, Grows
  <1>9. CASE UNCHANGED progressVars
    BY <1>0, <1>9 DEF progressVars, Inv, ProgressTypeOK, AppliedIsExact, TerminalAddsUp, Sound, Grows
  <1>. QED
    BY <1>1, <1>2, <1>3, <1>4, <1>5, <1>6, <1>7, <1>8, <1>9, <1>10 DEF ProgressNext

(* Both copies of the counters, and everything beside them, keep their     *)
(* types: no counter of publication_progress.py goes below zero.           *)
THEOREM ProgressTypeCorrect == ProgressSpec => []ProgressTypeOK
  <1>1. Inv => ProgressTypeOK BY DEF Inv
  <1>. QED BY InitInv, NextInv, <1>1, PTL DEF ProgressSpec

(* The applied count a job reports is never more than the links it         *)
(* committed, and exactly those unless storing a counter failed.           *)
THEOREM AppliedCountExact == ProgressSpec => []AppliedIsExact
  <1>1. Inv => AppliedIsExact BY DEF Inv
  <1>. QED BY InitInv, NextInv, <1>1, PTL DEF ProgressSpec

(* A job that its task or its handler failed accounts for every link of    *)
(* its total once, and one that was declared lost (_mark_run_lost) never   *)
(* claims more links than there were, for any number of links and retries. *)
THEOREM TerminalCountersAddUp == ProgressSpec => []TerminalAddsUp
  <1>1. Inv => TerminalAddsUp BY DEF Inv
  <1>. QED BY InitInv, NextInv, <1>1, PTL DEF ProgressSpec

(* No total and no applied count a dashboard has shown ever goes down,     *)
(* over every retry, kill and lost progress write.                         *)
THEOREM CountersNeverGoBack == ProgressSpec => NeverGoesBack
  <1>1. Inv /\ [ProgressNext]_progressVars
            => [stored'.applied >= stored.applied /\ stored'.total >= stored.total]_progressVars
    BY NextInv DEF Grows
  <1>. QED BY InitInv, NextInv, <1>1, PTL DEF ProgressSpec, NeverGoesBack
==============================================================================
