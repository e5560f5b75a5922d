------------------------------- MODULE Config -------------------------------
(***************************************************************************)
(* The arithmetic of config.go: durations in nanoseconds become whole      *)
(* seconds on the wire, and the version of envd decides how a request says *)
(* who its user is.  Durations are signed integers of a fixed width.       *)
(***************************************************************************)
EXTENDS Integers

CONSTANTS Second,         \* time.Second, in units of time.Duration
          MaxDuration,    \* the largest time.Duration; the smallest is -MaxDuration - 1
          DefaultConnect  \* defaultConnectTimeout

ASSUME ConfigAssumption ==
  /\ Second \in Nat \ {0}
  /\ MaxDuration \in Nat
  /\ Second <= MaxDuration
  /\ DefaultConnect \in 1..(MaxDuration - Second + 1)

Durations == -(MaxDuration + 1)..MaxDuration

(* What Go computes for a sum of two durations that are not negative, and for
   a quotient, which it truncates towards zero. *)
Wrapped(n) == IF n > MaxDuration THEN n - 2 * (MaxDuration + 1) ELSE n

Quotient(n, d) == IF n >= 0 THEN n \div d ELSE -((-n) \div d)

(* Mutated: rounded down. *)
durationToWholeSeconds_Floor(value) == IF value <= 0 THEN 0 ELSE value \div Second

durationToWholeSeconds(value) ==
  IF value <= 0 THEN 0 ELSE Quotient(Wrapped(value + (Second - 1)), Second)

connectTimeoutSeconds(value) ==
  durationToWholeSeconds(IF value <= 0 THEN DefaultConnect ELSE value)

(* The durations whose rounding stays within the width. *)
Roundable == 1..(MaxDuration - Second + 1)

-----------------------------------------------------------------------------
(* A version is a triple of numbers, or one that parseVersionTriple refuses. *)
Unparsable == <<>>

Versions == Nat \X Nat \X Nat

(* The loop over the parts: the first that differs decides. *)
Older(left, right) ==
  \E i \in 1..3 : left[i] < right[i] /\ \A j \in 1..(i - 1) : left[j] = right[j]

compareVersionTriples(left, right) ==
  IF left = Unparsable \/ right = Unparsable \/ Older(left, right) THEN -1
  ELSE IF Older(right, left) THEN 1 ELSE 0

EnvdDefaultUserVersion == <<0, 4, 0>>

usesLegacySandboxUser(version) == compareVersionTriples(version, EnvdDefaultUserVersion) < 0
=============================================================================
