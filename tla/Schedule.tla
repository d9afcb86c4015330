------------------------------ MODULE Schedule ------------------------------
(***************************************************************************)
(* Bucket arithmetic and retry backoff (crates/stowq-math), on words of    *)
(* WordBits bits instead of 64.  Checked operations that would overflow,   *)
(* and zero bucket widths, give None.                                      *)
(***************************************************************************)
EXTENDS Integers, FiniteSets, FiniteSetsExt

CONSTANTS
  WordBits,     \* 64 in the code
  NsPerMs,      \* 1_000_000 in the code
  Rejections    \* samples drawn before the midpoint is taken: 64 in the code

None == -1
MaxWord == 2^WordBits - 1               \* u64::MAX
MaxSigned == 2^(WordBits - 1) - 1       \* i64::MAX
Words == 0..MaxWord
Checked(n) == IF n > MaxWord THEN None ELSE n

-----------------------------------------------------------------------------
(* Buckets. *)

BucketNumber(t, width) == IF width = 0 THEN None ELSE t \div width

\* Deviation: rounded down.
CeilingBucketDown(t, width) == BucketNumber(t, width)

CeilingBucket(t, width) ==
  IF width = 0 THEN None
  ELSE IF t % width # 0 THEN Checked(t \div width + 1) ELSE t \div width

BucketStart(bucket, width) == Checked(bucket * width)

BucketEnd(bucket, width) ==
  IF BucketStart(bucket, width) = None THEN None ELSE Checked(BucketStart(bucket, width) + width)

\* eligibility_bucket_and_ns, as the record of the two.
Eligibility(t, width) ==
  LET bucket == CeilingBucket(t, width)
      ns == IF bucket = None THEN None ELSE Checked(bucket * width)
  IN  [bucket |-> IF ns = None THEN None ELSE bucket, ns |-> ns]

\* The watermark raises a floor.
EffectiveFloor(floor, bucket, width) ==
  IF width = 0 \/ Checked(bucket * width) = None THEN None
  ELSE Max({floor, bucket * width})

-----------------------------------------------------------------------------
(* Retry backoff.  A policy has a base, a cap, jitter or not, and a largest
   delay that may be None. *)

Policies == [base : Words, cap : Words, jitter : BOOLEAN, max : Words \cup {None}]

EffectiveCap(p) == IF p.max = None THEN p.cap ELSE Min({p.cap, p.max})
Valid(p) == p.base > 0 /\ EffectiveCap(p) >= p.base

\* Deviation: the overflow is not looked for.
SaturatingDoubleWraps(base, exp) ==
  IF exp = 0 \/ base = 0 THEN base ELSE (base * 2^(exp - 1)) % (MaxWord + 1)

SaturatingDouble(base, exp) ==
  IF exp = 0 \/ base = 0 THEN base
  ELSE IF exp > WordBits \/ base > MaxWord \div 2^(exp - 1) THEN MaxWord
  ELSE base * 2^(exp - 1)

\* Samples below the threshold are rejected, for they are the surplus that would
\* favour small offsets; draws has the samples in order.
Threshold(span) == (MaxWord + 1 - span) % span

SampleOffset(span, draws) ==
  LET accepted == {i \in 1..Rejections : draws[i] >= Threshold(span)}
  IN  IF accepted = {} THEN span \div 2 ELSE draws[Min(accepted)] % span

RetryCeiling(p, attempt) == Min({EffectiveCap(p), SaturatingDouble(p.base, attempt)})

RetryDelay(p, attempt, draws) ==
  LET ceiling == RetryCeiling(p, attempt)
      lower == (ceiling + 1) \div 2
  IN  IF attempt = 0 THEN 0
      ELSE IF ~p.jitter THEN ceiling
      ELSE lower + SampleOffset(ceiling - lower + 1, draws)

RetryNotBefore(floor, delay) ==
  IF Checked(floor + delay) = None \/ floor + delay > MaxSigned THEN None ELSE floor + delay

\* The deadline of a nack: its delay, in milliseconds, is scaled without a check.
NackDeadline(floor, delay) == RetryNotBefore(floor, (delay * NsPerMs) % (MaxWord + 1))

-----------------------------------------------------------------------------
(* What the arithmetic has to guarantee. *)

\* The sweep of an index at floor f takes an entry filed under time t.
Swept(f, t, width) == BucketNumber(t, width) <= BucketNumber(f, width)

\* An entry is not missed, and not taken a whole bucket early; a time rounded up
\* to its eligibility is not early and less than a bucket late, or out of range;
\* buckets partition time; and the bucket of a past time raises no floor beyond
\* the present.
BucketSound(t, width) ==
  LET b == BucketNumber(t, width)
      e == Eligibility(t, width)
  IN  /\ \A f \in Words : (f >= t => Swept(f, t, width)) /\ (Swept(f, t, width) => f + width > t)
      /\ IF e.ns = None THEN t + width > MaxWord
         ELSE e.ns - t \in 0..(width - 1) /\ BucketNumber(e.ns, width) = e.bucket
      /\ BucketStart(b, width) \in 0..t
      /\ BucketEnd(b, width) > t \/ (BucketEnd(b, width) = None /\ t + width > MaxWord)
      /\ \A f \in Words : EffectiveFloor(f, b, width) \in {f, t - (t % width)}
                          /\ EffectiveFloor(f, b, width) >= f

\* The delay of attempt n is the doubled base, up to the cap, less at most half of
\* it; and it is added to the floor exactly, or refused, if the cap is one whose
\* nanoseconds fit a word.
BackoffSound(p, attempt, draws) ==
  LET exact == Min({EffectiveCap(p), p.base * 2^(attempt - 1)})
      delay == RetryDelay(p, attempt, draws)
  IN  /\ delay <= exact /\ exact <= 2 * delay
      /\ p.jitter \/ delay = exact
      /\ EffectiveCap(p) * NsPerMs <= MaxWord =>
           \A floor \in Words :
             NackDeadline(floor, delay) = LET d == floor + delay * NsPerMs
                                          IN  IF d > MaxSigned THEN None ELSE d

\* Every offset has the same number of samples that lead to it.
SamplingFair(span) ==
  LET leading(offset) == {x \in Threshold(span)..MaxWord : x % span = offset}
  IN  \A offset \in 0..(span - 1) :
        Cardinality(leading(offset)) * span = MaxWord + 1 - Threshold(span)
=============================================================================
