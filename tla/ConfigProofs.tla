---------------------------- MODULE ConfigProofs ----------------------------
(***************************************************************************)
(* What the arithmetic of config.go computes, for every width, every       *)
(* length of a second and every version.                                   *)
(***************************************************************************)
EXTENDS Config, TLAPS

(* Integer division. *)
LEMMA Division ==
  ASSUME NEW n \in Nat, NEW d \in Nat \ {0}
  PROVE  /\ n \div d \in Nat
         /\ (n \div d) * d <= n
         /\ n < (n \div d) * d + d
  OBVIOUS

(* A duration whose sum with a second fits its type becomes the smallest number
   of whole seconds that is not shorter: config.go rounds up. *)
THEOREM RoundsUp ==
  ASSUME NEW value \in Roundable
  PROVE  /\ durationToWholeSeconds(value) \in Nat \ {0}
         /\ durationToWholeSeconds(value) * Second \in value..(value + Second - 1)
<1> DEFINE n == value + (Second - 1)
           q == n \div Second
<1>1. value \in Nat \ {0} /\ n \in Nat /\ n <= MaxDuration
  BY ConfigAssumption DEF Roundable
<1>2. durationToWholeSeconds(value) = q
  BY <1>1, ConfigAssumption DEF durationToWholeSeconds, Wrapped, Quotient
<1>3. q \in Nat /\ q * Second <= n /\ n < q * Second + Second
  BY <1>1, Division, ConfigAssumption
<1> HIDE DEF q
<1>4. q # 0
  BY <1>1, <1>3, ConfigAssumption
<1>5. q * Second \in Int
  BY <1>3, ConfigAssumption
<1>6. q * Second \in value..(value + Second - 1)
  BY <1>1, <1>3, <1>5, ConfigAssumption
<1> QED BY <1>2, <1>3, <1>4, <1>6

(* No duration, whatever it overflows to, becomes anything but a number of
   seconds. *)
LEMMA SecondsAreInt ==
  ASSUME NEW value \in Durations
  PROVE  durationToWholeSeconds(value) \in Int /\ connectTimeoutSeconds(value) \in Int
<1>1. ASSUME NEW v \in Durations PROVE durationToWholeSeconds(v) \in Int
  BY ConfigAssumption DEF Durations, durationToWholeSeconds, Quotient, Wrapped
<1>2. DefaultConnect \in Durations
  BY ConfigAssumption DEF Durations
<1> QED BY <1>1, <1>2 DEF connectTimeoutSeconds

(* The overflow: a positive duration within a second of the largest one, which
   is what a caller who wants no limit may pass, asks for no lifetime at all or
   for a negative one. *)
THEOREM OverflowAsksForNothing ==
  ASSUME NEW value \in Durations, value > 0, value \notin Roundable
  PROVE  durationToWholeSeconds(value) <= 0
<1> DEFINE n == value + (Second - 1)
           w == n - 2 * (MaxDuration + 1)
<1>1. value \in Nat \ {0} /\ n \in Nat /\ n > MaxDuration /\ w \in Int /\ w < 0 /\ -w \in Nat
  BY ConfigAssumption DEF Roundable, Durations
<1>2. durationToWholeSeconds(value) = -((-w) \div Second)
  BY <1>1, ConfigAssumption DEF durationToWholeSeconds, Wrapped, Quotient
<1> HIDE DEF w
<1>3. (-w) \div Second \in Nat
  BY <1>1, Division, ConfigAssumption
<1> QED BY <1>2, <1>3

(* Connect without a timeout asks for the default, never for no lifetime. *)
THEOREM ConnectAsksForDefault ==
  ASSUME NEW value \in Durations, value <= 0
  PROVE  connectTimeoutSeconds(value) * Second >= DefaultConnect
<1>1. DefaultConnect \in Roundable
  BY ConfigAssumption DEF Roundable
<1>2. connectTimeoutSeconds(value) = durationToWholeSeconds(DefaultConnect)
  BY DEF connectTimeoutSeconds
<1>3. durationToWholeSeconds(DefaultConnect) * Second 
        \in DefaultConnect..(DefaultConnect + Second - 1)
  BY <1>1, RoundsUp
<1> QED BY <1>2, <1>3, ConfigAssumption

-----------------------------------------------------------------------------
(* What it is for a version that parses to be older than another. *)
LEMMA Lexicographic ==
  ASSUME NEW left \in Versions, NEW right \in Versions
  PROVE  /\ left # Unparsable
         /\ left[1] \in Nat /\ left[2] \in Nat /\ left[3] \in Nat
         /\ left = right <=> left[1] = right[1] /\ left[2] = right[2] /\ left[3] = right[3]
         /\ Older(left, right) <=> 
              \/ left[1] < right[1]
              \/ left[1] = right[1] /\ left[2] < right[2]
              \/ left[1] = right[1] /\ left[2] = right[2] /\ left[3] < right[3]
<1>1. left = <<left[1], left[2], left[3]>> /\ right = <<right[1], right[2], right[3]>>
  BY DEF Versions
<1>2. \A i \in 1..3 : left[i] \in Nat /\ right[i] \in Nat
  BY DEF Versions
<1>3. left # Unparsable
  BY <1>1 DEF Unparsable
<1>4. Older(left, right) <=> \/ left[1] < right[1]
                             \/ left[1] = right[1] /\ left[2] < right[2]
                             \/ left[1] = right[1] /\ left[2] = right[2] /\ left[3] < right[3]
  BY <1>2 DEF Older
<1> QED BY <1>1, <1>2, <1>3, <1>4

(* Being older is transitive. *)
LEMMA OlderIsTransitive ==
  ASSUME NEW left \in Versions, NEW middle \in Versions, NEW right \in Versions,
         Older(left, middle), Older(middle, right)
  PROVE  Older(left, right)
<1>1. /\ left[1] \in Nat /\ left[2] \in Nat /\ left[3] \in Nat
      /\ middle[1] \in Nat /\ middle[2] \in Nat /\ middle[3] \in Nat
      /\ right[1] \in Nat /\ right[2] \in Nat /\ right[3] \in Nat
  BY Lexicographic
<1>2. \A v, w \in Versions : Older(v, w) <=>
        \/ v[1] < w[1]
        \/ v[1] = w[1] /\ v[2] < w[2]
        \/ v[1] = w[1] /\ v[2] = w[2] /\ v[3] < w[3]
  BY Lexicographic
<1> QED BY <1>1, <1>2

(* compareVersionTriples is the comparison of a total order of the versions that
   parse: 0 for the same version only, the opposite the other way round, and
   transitive. *)
THEOREM VersionsAreOrdered ==
  ASSUME NEW left \in Versions, NEW middle \in Versions, NEW right \in Versions
  PROVE  /\ compareVersionTriples(left, right) = 0 <=> left = right
         /\ compareVersionTriples(left, right) = -compareVersionTriples(right, left)
         /\ compareVersionTriples(left, middle) <= 0 /\ compareVersionTriples(middle, right) <= 0
              => compareVersionTriples(left, right) <= 0
<1>1. ASSUME NEW v \in Versions, NEW w \in Versions
      PROVE  /\ compareVersionTriples(v, w) = 0 <=> v = w
             /\ compareVersionTriples(v, w) = -compareVersionTriples(w, v)
             /\ compareVersionTriples(v, w) <= 0 <=> Older(v, w) \/ v = w
  <2>1. /\ v # Unparsable /\ w # Unparsable
        /\ v[1] \in Nat /\ v[2] \in Nat /\ v[3] \in Nat
        /\ w[1] \in Nat /\ w[2] \in Nat /\ w[3] \in Nat
    BY Lexicographic
  <2>2. /\ ~(Older(v, w) /\ Older(w, v))
        /\ v = w <=> ~Older(v, w) /\ ~Older(w, v)
    BY <2>1, Lexicographic
  <2> QED BY <2>1, <2>2 DEF compareVersionTriples
<1>2. ASSUME compareVersionTriples(left, middle) <= 0, compareVersionTriples(middle, right) <= 0
      PROVE  Older(left, right) \/ left = right
  <2>1. Older(left, middle) \/ left = middle
    BY <1>1, <1>2
  <2>2. Older(middle, right) \/ middle = right
    BY <1>1, <1>2
  <2> QED BY <2>1, <2>2, OlderIsTransitive
<1> QED BY <1>1, <1>2

(* The order is that of time: everything older than a version that needs the
   legacy user needs it too, and a version that does not parse always does. *)
THEOREM LegacyIsDownwardClosed ==
  /\ usesLegacySandboxUser(Unparsable)
  /\ \A left, right \in Versions :
       usesLegacySandboxUser(right) /\ compareVersionTriples(left, right) <= 0 
         => usesLegacySandboxUser(left)
<1>1. usesLegacySandboxUser(Unparsable)
  BY DEF usesLegacySandboxUser, compareVersionTriples
<1>2. ASSUME NEW left \in Versions, NEW right \in Versions,
             usesLegacySandboxUser(right), compareVersionTriples(left, right) <= 0
      PROVE  usesLegacySandboxUser(left)
  <2>1. EnvdDefaultUserVersion \in Versions
    BY DEF Versions, EnvdDefaultUserVersion
  <2>2. left # Unparsable /\ right # Unparsable /\ EnvdDefaultUserVersion # Unparsable
    BY <2>1, Lexicographic
  <2>3. Older(right, EnvdDefaultUserVersion)
    BY <1>2, <2>2 DEF usesLegacySandboxUser, compareVersionTriples
  <2>4. Older(left, right) \/ left = right
    BY <1>2, <2>2, VersionsAreOrdered DEF compareVersionTriples
  <2>5. Older(left, EnvdDefaultUserVersion)
    BY <2>1, <2>3, <2>4, OlderIsTransitive
  <2> QED BY <2>2, <2>5 DEF usesLegacySandboxUser, compareVersionTriples
<1> QED BY <1>1, <1>2
=============================================================================
