------------------------- MODULE HealthWatchProofs -------------------------
(***************************************************************************)
(* Proofs about HealthWatch and the settings reader it extends, for every  *)
(* file, every library the reader is built with and every message.         *)
(***************************************************************************)
EXTENDS HealthWatch, FiniteSetTheorems, SequenceTheorems, TLAPS

(* A set of natural numbers has a least one: the intervals that end in its  *)
(* members are finite sets, and strict inclusion is well founded on these.  *)
LEMMA LeastNatural ==
  ASSUME NEW S \in SUBSET Nat, S # {}
  PROVE  \E n \in S : \A m \in S : n <= m
<1> DEFINE R == StrictSubsetOrdering(Nat)
           T == {1..n : n \in S}
<1>1. IsWellFoundedOn(R, FiniteSubsetsOf(Nat))
  BY FS_StrictSubsetOrderingWellFounded
<1>2. T \subseteq FiniteSubsetsOf(Nat)
  <2>1. ASSUME NEW n \in S PROVE IsFiniteSet(1..n) /\ 1..n \in SUBSET Nat
    <3>1. 1 \in Int /\ n \in Int
      OBVIOUS
    <3> QED
      BY <3>1, FS_Interval
  <2> QED
    BY <2>1 DEF FiniteSubsetsOf
<1>3. T # {}
  OBVIOUS
<1> HIDE DEF T, R
<1>4. PICK x \in T : \A y \in T : <<y, x>> \notin R
  BY <1>1, <1>2, <1>3, WFMin
<1>5. PICK n \in S : x = 1..n
  BY <1>4 DEF T
<1>6. ASSUME NEW m \in S, ~(n <= m) PROVE FALSE
  <2>1. 1..m \in T
    BY DEF T
  <2>2. m < n /\ m \in Nat /\ n \in Nat
    BY <1>6
  <2>3. 1..m \subseteq 1..n /\ n \in 1..n /\ n \notin 1..m
    BY <2>2
  <2>4. <<1..m, 1..n>> \in R
    BY <2>3, <2>2 DEF R, StrictSubsetOrdering
  <2> QED
    BY <1>4, <1>5, <2>1, <2>4
<1> QED
  BY <1>6

(* Induction, over a set instead of a predicate.                            *)
LEMMA Induction ==
  ASSUME NEW S, 0 \in S, \A n \in Nat : n \in S => n + 1 \in S
  PROVE  \A n \in Nat : n \in S
<1> DEFINE T == Nat \ S
<1>1. SUFFICES ASSUME T # {} PROVE FALSE
  OBVIOUS
<1>2. PICK n \in T : \A m \in T : n <= m
  BY <1>1, LeastNatural
<1>3. n \in Nat /\ n # 0 /\ n - 1 \in Nat /\ n - 1 + 1 = n
  OBVIOUS
<1>4. n - 1 \in S
  BY <1>2, <1>3
<1> QED
  BY <1>3, <1>4

-----------------------------------------------------------------------------
(* What reading one key after the other comes to, from the limits so far.   *)
LoadFrom(start, reads) == FoldLeft(ReadInto, start, reads)

(* The function the fold computes, on all sets of positions up to n.        *)
Folded(start, reads, n, g) ==
  g = [s \in SUBSET (1..n) |->
         IF s = {} THEN start ELSE ReadInto(g[s \ {Max(s)}], reads[Max(s)])]

(* The greatest of a set of positions that contains the last is that.       *)
LEMMA LastIsMax ==
  ASSUME NEW n \in Nat, NEW s \in SUBSET (1..n), n \in s PROVE Max(s) = n
<1>1. \A y \in s : n >= y
  OBVIOUS
<1>2. \A x \in s : (\A y \in s : x >= y) => x = n
  <2> TAKE x \in s
  <2>1. x \in 1..n
    OBVIOUS
  <2> QED
    BY <2>1
<1>3. \E x \in s : \A y \in s : x >= y
  BY <1>1
<1> DEFINE m == CHOOSE x \in s : \A y \in s : x >= y
<1>4. m \in s /\ \A y \in s : m >= y
  BY <1>3
<1>5. Max(s) = m
  BY DEF Max
<1> HIDE DEF m
<1> QED
  BY <1>2, <1>4, <1>5

(* There is such a function for every length.                               *)
LEMMA FoldExists ==
  ASSUME NEW start, NEW reads
  PROVE  \A n \in Nat : \E g : Folded(start, reads, n, g)
<1> DEFINE S == {n \in Nat : \E g : Folded(start, reads, n, g)}
<1>1. 0 \in S
  <2> DEFINE g == [s \in SUBSET (1..0) |-> start]
  <2>1. \A s \in SUBSET (1..0) : s = {}
    OBVIOUS
  <2>2. Folded(start, reads, 0, g)
    BY <2>1 DEF Folded
  <2> QED
    BY <2>2
<1>2. ASSUME NEW n \in Nat, n \in S PROVE n + 1 \in S
  <2>1. PICK g : Folded(start, reads, n, g)
    BY <1>2
  <2> DEFINE h == [s \in SUBSET (1..(n + 1)) |->
                     IF n + 1 \in s THEN ReadInto(g[s \ {n + 1}], reads[n + 1])
                     ELSE g[s]]
  <2>2. \A s \in SUBSET (1..n) : h[s] = g[s]
    <3> TAKE s \in SUBSET (1..n)
    <3>1. s \in SUBSET (1..(n + 1)) /\ n + 1 \notin s
      OBVIOUS
    <3> QED
      BY <3>1
  <2>3. ASSUME NEW s \in SUBSET (1..(n + 1))
        PROVE  h[s] = IF s = {} THEN start
                      ELSE ReadInto(h[s \ {Max(s)}], reads[Max(s)])
    <3>1. CASE n + 1 \in s
      <4>1. Max(s) = n + 1
        <5>1. n + 1 \in Nat
          OBVIOUS
        <5> QED
          BY <3>1, <5>1, LastIsMax
      <4>2. s \ {n + 1} \in SUBSET (1..n)
        OBVIOUS
      <4>3. h[s] = ReadInto(g[s \ {n + 1}], reads[n + 1])
        BY <3>1
      <4>4. h[s \ {n + 1}] = g[s \ {n + 1}]
        BY <2>2, <4>2
      <4> HIDE DEF h
      <4> QED
        BY <3>1, <4>1, <4>3, <4>4
    <3>2. CASE n + 1 \notin s
      <4>1. s \in SUBSET (1..n) /\ s \ {Max(s)} \in SUBSET (1..n)
        <5>1. \A i \in 1..(n + 1) : i # n + 1 => i \in 1..n
          OBVIOUS
        <5>2. s \in SUBSET (1..n)
          BY <3>2, <5>1
        <5> QED
          BY <5>2
      <4>2. h[s] = g[s] /\ h[s \ {Max(s)}] = g[s \ {Max(s)}]
        BY <2>2, <4>1
      <4>3. g[s] = IF s = {} THEN start
                   ELSE ReadInto(g[s \ {Max(s)}], reads[Max(s)])
        BY <2>1, <4>1 DEF Folded
      <4> HIDE DEF h
      <4> QED
        BY <4>2, <4>3
    <3> QED
      BY <3>1, <3>2
  <2>4. h = [s \in SUBSET (1..(n + 1)) |->
               IF s = {} THEN start
               ELSE ReadInto(h[s \ {Max(s)}], reads[Max(s)])]
    BY <2>3
  <2>5. Folded(start, reads, n + 1, h)
    BY <2>4 DEF Folded
  <2> QED
    BY <2>5
<1> HIDE DEF S
<1>3. \A n \in Nat : n \in S
  BY <1>1, <1>2, Induction
<1> QED
  BY <1>3 DEF S

(* Loading, one read after the other. *)
Loads(start, reads, f) ==
  /\ f[0] = start
  /\ \A m \in 1..Len(reads) : f[m] = ReadInto(f[m - 1], reads[m])

(* The fold is where the reads, one after the other, arrive.                *)
LEMMA LoadsOneByOne ==
  ASSUME NEW start, NEW T, NEW reads \in Seq(T)
  PROVE  \E f : Loads(start, reads, f) /\ LoadFrom(start, reads) = f[Len(reads)]
<1>1. Len(reads) \in Nat /\ DOMAIN reads = 1..Len(reads)
  OBVIOUS
<1> DEFINE g == CHOOSE h : Folded(start, reads, Len(reads), h)
<1>2. Folded(start, reads, Len(reads), g)
  BY <1>1, FoldExists
<1>3. LoadFrom(start, reads) = g[1..Len(reads)]
  BY <1>1 DEF LoadFrom, FoldLeft, MapThenFoldSet, Folded
<1> HIDE DEF g
<1> DEFINE f == [m \in 0..Len(reads) |-> g[1..m]]
<1>4. f[0] = start
  <2>1. 1..0 = {} /\ 0 \in 0..Len(reads) /\ {} \in SUBSET (1..Len(reads))
    BY <1>1
  <2> QED
    BY <1>2, <2>1 DEF Folded
<1>5. ASSUME NEW m \in 1..Len(reads) PROVE f[m] = ReadInto(f[m - 1], reads[m])
  <2>1. /\ m \in Nat /\ m \in 0..Len(reads) /\ m - 1 \in 0..Len(reads)
        /\ 1..m \in SUBSET (1..Len(reads)) /\ m \in 1..m /\ 1..m # {}
        /\ (1..m) \ {m} = 1..(m - 1)
    <3>1. m \in Nat /\ m \in 0..Len(reads) /\ m - 1 \in 0..Len(reads)
      BY <1>1
    <3>2. 1..m \in SUBSET (1..Len(reads)) /\ m \in 1..m
      BY <1>1
    <3>3. (1..m) \ {m} = 1..(m - 1)
      <4>1. \A i \in Int : i \in 1..m /\ i # m <=> i \in 1..(m - 1)
        BY <3>1
      <4> QED
        BY <4>1
    <3> QED
      BY <3>1, <3>2, <3>3
  <2>2. Max(1..m) = m
    BY <2>1, LastIsMax
  <2>3. g[1..m] = ReadInto(g[(1..m) \ {Max(1..m)}], reads[Max(1..m)])
    BY <1>2, <2>1 DEF Folded
  <2> QED
    BY <2>1, <2>2, <2>3
<1>6. f[Len(reads)] = g[1..Len(reads)]
  BY <1>1
<1> HIDE DEF f
<1> QED
  BY <1>3, <1>4, <1>5, <1>6 DEF Loads

(* Reading the first part and then the second is reading both.              *)
LEMMA LoadsInParts ==
  ASSUME NEW start, NEW T, NEW first \in Seq(T), NEW second \in Seq(T)
  PROVE  LoadFrom(start, first \o second) = LoadFrom(LoadFrom(start, first), second)
<1> DEFINE both == first \o second
           middle == LoadFrom(start, first)
<1>1. /\ both \in Seq(T) /\ Len(both) = Len(first) + Len(second)
      /\ Len(first) \in Nat /\ Len(second) \in Nat
      /\ \A i \in 1..Len(first) : both[i] = first[i]
      /\ \A i \in 1..Len(second) : both[Len(first) + i] = second[i]
  OBVIOUS
<1> HIDE DEF both
<1>2. PICK f : Loads(start, both, f) /\ LoadFrom(start, both) = f[Len(both)]
  BY <1>1, LoadsOneByOne
<1>3. PICK g : Loads(start, first, g) /\ middle = g[Len(first)]
  BY LoadsOneByOne
<1> HIDE DEF middle
<1>4. PICK h : Loads(middle, second, h) /\ LoadFrom(middle, second) = h[Len(second)]
  BY LoadsOneByOne
<1>5. \A n \in Nat : n <= Len(first) => f[n] = g[n]
  <2> DEFINE S == {n \in Nat : n <= Len(first) => f[n] = g[n]}
  <2>1. 0 \in S
    BY <1>2, <1>3 DEF Loads
  <2>2. ASSUME NEW n \in Nat, n \in S PROVE n + 1 \in S
    <3>1. SUFFICES ASSUME n + 1 <= Len(first) PROVE f[n + 1] = g[n + 1]
      OBVIOUS
    <3>2. n + 1 \in 1..Len(first) /\ n + 1 \in 1..Len(both) /\ n + 1 - 1 = n
      BY <1>1, <3>1
    <3>3. f[n] = g[n] /\ both[n + 1] = first[n + 1]
      BY <1>1, <2>2, <3>1, <3>2
    <3>4. /\ f[n + 1] = ReadInto(f[n + 1 - 1], both[n + 1])
          /\ g[n + 1] = ReadInto(g[n + 1 - 1], first[n + 1])
      BY <1>2, <1>3, <3>2 DEF Loads
    <3> QED
      BY <3>2, <3>3, <3>4
  <2> HIDE DEF S
  <2>3. \A n \in Nat : n \in S
    BY <2>1, <2>2, Induction
  <2> QED
    BY <2>3 DEF S
<1>6. \A n \in Nat : n <= Len(second) => f[Len(first) + n] = h[n]
  <2> DEFINE S == {n \in Nat : n <= Len(second) => f[Len(first) + n] = h[n]}
  <2>1. 0 \in S
    <3>1. f[Len(first)] = g[Len(first)] /\ Len(first) + 0 = Len(first)
      BY <1>1, <1>5
    <3> QED
      BY <1>3, <1>4, <3>1 DEF Loads
  <2>2. ASSUME NEW n \in Nat, n \in S PROVE n + 1 \in S
    <3>1. SUFFICES ASSUME n + 1 <= Len(second)
                   PROVE  f[Len(first) + (n + 1)] = h[n + 1]
      OBVIOUS
    <3>2. /\ n + 1 \in 1..Len(second) /\ Len(first) + (n + 1) \in 1..Len(both)
          /\ n + 1 - 1 = n /\ Len(first) + (n + 1) - 1 = Len(first) + n
      BY <1>1, <3>1
    <3>3. /\ f[Len(first) + n] = h[n]
          /\ both[Len(first) + (n + 1)] = second[n + 1]
      BY <1>1, <2>2, <3>1, <3>2
    <3>4. /\ f[Len(first) + (n + 1)] =
               ReadInto(f[Len(first) + (n + 1) - 1], both[Len(first) + (n + 1)])
          /\ h[n + 1] = ReadInto(h[n + 1 - 1], second[n + 1])
      BY <1>2, <1>4, <3>2 DEF Loads
    <3> QED
      BY <3>2, <3>3, <3>4
  <2> HIDE DEF S
  <2>3. \A n \in Nat : n \in S
    BY <2>1, <2>2, Induction
  <2> QED
    BY <2>3 DEF S
<1>7. f[Len(both)] = h[Len(second)]
  BY <1>1, <1>6
<1> QED
  BY <1>2, <1>4, <1>7 DEF both, middle

-----------------------------------------------------------------------------
(* The limits that the checks of both programs use.                         *)
CheckedNumbers ==
  {"max_gap_sec", "min_percent", "min_voltage_v", "min_fix_type",
   "min_satellites", "pos_horiz_variance_max", "velocity_variance_max"}
Checked == CheckedNumbers \cup Requirements

NumberKeys == DOMAIN Defaults \ Requirements

(* The reads there are: of a section, of a number and of a yes or no.       *)
Sections == {"altitude_limit", "battery_limit", "heartbeat_limit", "gps_limit",
             "vehicle_health_limit", "ekf_limit"}
Words == Sections \cup DOMAIN Defaults

ReadKinds ==
  {r \in [kind : {"section", "number", "boolean"}, path : Seq(Words)] :
     /\ r.kind = "number" => Last(r.path) \in NumberKeys
     /\ r.kind = "boolean" => Last(r.path) \in Requirements}

Limits ==
  {l \in [DOMAIN Defaults -> Int \cup BOOLEAN] : \A k \in NumberKeys : l[k] \in Int}
Loading == [thrown : BOOLEAN, limits : Limits]

(* The built-in limits are limits, and what the checks use is among them.   *)
LEMMA DefaultLimits ==
  /\ Defaults \in Limits
  /\ CheckedNumbers \subseteq NumberKeys /\ Requirements \subseteq DOMAIN Defaults
<1>1. DOMAIN Defaults =
        {"soft_limit_m", "hard_limit_m", "descent_speed_mps", "recovery_margin_m",
         "poll_rate_hz", "min_percent", "min_voltage_v", "max_gap_sec",
         "land_gap_sec", "min_fix_type", "min_satellites",
         "require_prearm_healthy", "require_normal_state",
         "pos_horiz_variance_max", "velocity_variance_max"}
  BY DEF Defaults
<1>2. CheckedNumbers \subseteq NumberKeys /\ Requirements \subseteq DOMAIN Defaults
  BY <1>1 DEF CheckedNumbers, NumberKeys, Requirements
<1>3. \A k \in Requirements : Defaults[k] \in BOOLEAN
  <2>1. /\ Defaults.require_prearm_healthy = TRUE
        /\ Defaults.require_normal_state = TRUE
    BY DEF Defaults
  <2> QED
    BY <2>1 DEF Requirements
<1>4. \A k \in NumberKeys : Defaults[k] \in Int
  BY DEF Defaults, NumberKeys, Requirements
<1>5. Defaults \in [DOMAIN Defaults -> Int \cup BOOLEAN]
  <2>1. Defaults = [k \in DOMAIN Defaults |-> Defaults[k]]
    BY DEF Defaults
  <2>2. \A k \in DOMAIN Defaults : Defaults[k] \in Int \cup BOOLEAN
    BY <1>3, <1>4 DEF NumberKeys
  <2> QED
    BY <2>1, <2>2
<1> QED
  BY <1>2, <1>4, <1>5 DEF Limits

(* Two programs that have loaded alike: both go on or neither does, and     *)
(* what the checks use is the same.                                         *)
Alike(c, e) ==
  /\ c \in Loading /\ e \in Loading
  /\ c.thrown = e.thrown
  /\ \A k \in Checked : c.limits[k] = e.limits[k]

(* A limit is stored beside the others.                                     *)
LEMMA Stored ==
  ASSUME NEW c \in Loading, NEW key \in DOMAIN Defaults, NEW v \in Int \cup BOOLEAN,
         key \in NumberKeys => v \in Int,
         NEW d, d = [c EXCEPT !.limits = [c.limits EXCEPT ![key] = v]]
  PROVE  /\ d \in Loading /\ d.thrown = c.thrown /\ d.limits[key] = v
         /\ \A k \in DOMAIN Defaults : k # key => d.limits[k] = c.limits[k]
<1> DEFINE old == c.limits
           new == [old EXCEPT ![key] = v]
<1>1. /\ old \in [DOMAIN Defaults -> Int \cup BOOLEAN]
      /\ \A k \in NumberKeys : old[k] \in Int
  BY DEF Loading, Limits
<1>2. d.thrown = c.thrown /\ d.limits = new /\ d = [thrown |-> d.thrown, limits |-> new]
  BY DEF Loading
<1> HIDE DEF old
<1>3. new \in [DOMAIN Defaults -> Int \cup BOOLEAN] /\ new[key] = v
  BY <1>1
<1>4. \A k \in DOMAIN Defaults : k # key => new[k] = old[k]
  BY <1>1
<1>5. \A k \in NumberKeys : new[k] \in Int
  <2> TAKE k \in NumberKeys
  <2>1. k \in DOMAIN Defaults
    BY DEF NumberKeys
  <2> QED
    BY <1>1, <1>3, <1>4, <2>1
<1> HIDE DEF new
<1>6. new \in Limits /\ c.thrown \in BOOLEAN
  BY <1>3, <1>5 DEF Limits, Loading
<1>7. d \in Loading
  BY <1>2, <1>6 DEF Loading
<1> QED
  BY <1>2, <1>3, <1>4, <1>7 DEF old

(* What one read makes of the limits.                                       *)
LEMMA ReadOne ==
  ASSUME NEW c \in Loading, NEW r \in ReadKinds
  PROVE  /\ ReadInto(c, r) \in Loading
         /\ ReadInto(c, r).thrown = (c.thrown \/ Throws(r))
         /\ c.thrown \/ Throws(r) \/ r.kind = "section" =>
              ReadInto(c, r).limits = c.limits
         /\ \A k \in DOMAIN Defaults : k # Last(r.path) =>
              ReadInto(c, r).limits[k] = c.limits[k]
         /\ ~c.thrown /\ ~Throws(r) /\ r.kind = "number" =>
              ReadInto(c, r).limits[Last(r.path)] =
                GetNumberOr(r.path, c.limits[Last(r.path)])
         /\ ~c.thrown /\ ~Throws(r) /\ r.kind = "boolean" =>
              ReadInto(c, r).limits[Last(r.path)] =
                GetBoolOr(r.path, c.limits[Last(r.path)])
<1> DEFINE key == Last(r.path)
<1>1. c.thrown \in BOOLEAN /\ c.limits \in Limits
  BY DEF Loading
<1>2. r.kind \in {"section", "number", "boolean"}
  BY DEF ReadKinds
<1>3. Throws(r) \in BOOLEAN
  BY DEF Throws, Written, GetNumberThrows
<1>4. CASE c.thrown
  <2>1. ReadInto(c, r) = c
    BY <1>4 DEF ReadInto
  <2> QED
    BY <1>1, <1>3, <1>4, <2>1
<1>5. CASE ~c.thrown /\ Throws(r)
  <2>1. ReadInto(c, r) = [c EXCEPT !.thrown = TRUE]
    BY <1>5 DEF ReadInto
  <2>2. ReadInto(c, r).thrown = TRUE /\ ReadInto(c, r).limits = c.limits
    BY <2>1 DEF Loading
  <2>3. ReadInto(c, r) \in Loading
    BY <2>1 DEF Loading
  <2> QED
    BY <1>1, <1>5, <2>2, <2>3
<1>6. CASE ~c.thrown /\ ~Throws(r) /\ r.kind = "section"
  <2>1. ReadInto(c, r) = c
    BY <1>6 DEF ReadInto
  <2> QED
    BY <1>1, <1>6, <2>1
<1>7. CASE ~c.thrown /\ ~Throws(r) /\ r.kind = "number"
  <2> DEFINE v == GetNumberOr(r.path, c.limits[key])
  <2>1. ReadInto(c, r) = [c EXCEPT !.limits = [c.limits EXCEPT ![key] = v]]
    BY <1>7 DEF ReadInto
  <2>2. key \in NumberKeys /\ key \in DOMAIN Defaults
    BY <1>7 DEF ReadKinds, NumberKeys
  <2>3. v \in Int
    <3>1. CASE Written(r.path)
      <4>1. tree[r.path].text \in DOMAIN Number
        BY <1>7, <3>1 DEF Throws, GetNumberThrows, IsNumber
      <4> QED
        BY <3>1, <4>1, SettingsAssumption DEF GetNumberOr
    <3>2. CASE ~Written(r.path)
      BY <1>1, <2>2, <3>2 DEF GetNumberOr, Limits
    <3> QED
      BY <3>1, <3>2
  <2> DEFINE d == ReadInto(c, r)
  <2>3a. d = [c EXCEPT !.limits = [c.limits EXCEPT ![key] = v]]
    BY <2>1
  <2> HIDE DEF v, d, key
  <2>4. /\ d \in Loading /\ d.thrown = c.thrown /\ d.limits[key] = v
        /\ \A k \in DOMAIN Defaults : k # key => d.limits[k] = c.limits[k]
    BY <2>2, <2>3, <2>3a, Stored
  <2>5. d.thrown = (c.thrown \/ Throws(r))
    BY <1>1, <1>3, <1>7, <2>4
  <2> USE <2>4, <2>5 DEF d, v, key
  <2>6. r.kind # "boolean" /\ r.kind # "section"
    BY <1>7
  <2> QED
    BY <1>7, <2>6
<1>8. CASE ~c.thrown /\ ~Throws(r) /\ r.kind = "boolean"
  <2> DEFINE v == GetBoolOr(r.path, c.limits[key])
  <2>1. ReadInto(c, r) = [c EXCEPT !.limits = [c.limits EXCEPT ![key] = v]]
    BY <1>8 DEF ReadInto
  <2>2. key \in Requirements /\ key \in DOMAIN Defaults /\ key \notin NumberKeys
    BY <1>8, DefaultLimits DEF ReadKinds, NumberKeys
  <2>3. v \in Int \cup BOOLEAN
    <3>1. c.limits[key] \in Int \cup BOOLEAN
      BY <1>1, <2>2 DEF Limits
    <3>2. v = c.limits[key] \/ v \in BOOLEAN
      BY DEF GetBoolOr
    <3> QED
      BY <3>1, <3>2
  <2> DEFINE d == ReadInto(c, r)
  <2>3a. d = [c EXCEPT !.limits = [c.limits EXCEPT ![key] = v]]
    BY <2>1
  <2> HIDE DEF v, d, key
  <2>4. /\ d \in Loading /\ d.thrown = c.thrown /\ d.limits[key] = v
        /\ \A k \in DOMAIN Defaults : k # key => d.limits[k] = c.limits[k]
    BY <2>2, <2>3, <2>3a, Stored
  <2>5. d.thrown = (c.thrown \/ Throws(r))
    BY <1>1, <1>3, <1>8, <2>4
  <2> USE <2>4, <2>5 DEF d, v, key
  <2>6. r.kind # "number" /\ r.kind # "section"
    BY <1>8
  <2> QED
    BY <1>8, <2>6
<1> QED
  BY <1>1, <1>2, <1>3, <1>4, <1>5, <1>6, <1>7, <1>8

(* What both read keeps them alike.                                         *)
LEMMA ReadAlike ==
  ASSUME NEW c, NEW e, Alike(c, e), NEW r \in ReadKinds
  PROVE  Alike(ReadInto(c, r), ReadInto(e, r))
<1> DEFINE key == Last(r.path)
<1>1. /\ c \in Loading /\ e \in Loading /\ c.thrown = e.thrown
      /\ \A k \in Checked : c.limits[k] = e.limits[k]
  BY DEF Alike
<1>2. /\ ReadInto(c, r) \in Loading /\ ReadInto(e, r) \in Loading
      /\ ReadInto(c, r).thrown = ReadInto(e, r).thrown
  BY <1>1, ReadOne
<1>3. ASSUME NEW k \in Checked
      PROVE  ReadInto(c, r).limits[k] = ReadInto(e, r).limits[k]
  <2>1. k \in DOMAIN Defaults
    BY DefaultLimits DEF Checked, NumberKeys
  <2>2. CASE k # key
    BY <1>1, <2>1, <2>2, ReadOne
  <2>3. CASE c.thrown \/ Throws(r) \/ r.kind = "section"
    BY <1>1, <2>3, ReadOne
  <2>4. CASE k = key /\ ~c.thrown /\ ~Throws(r) /\ r.kind = "number"
    BY <1>1, <2>4, ReadOne
  <2>5. CASE k = key /\ ~c.thrown /\ ~Throws(r) /\ r.kind = "boolean"
    BY <1>1, <2>5, ReadOne
  <2>6. r.kind \in {"section", "number", "boolean"}
    BY DEF ReadKinds
  <2> QED
    BY <2>2, <2>3, <2>4, <2>5, <2>6
<1> QED
  BY <1>2, <1>3 DEF Alike

(* A block that both read keeps them alike,                                 *)
LEMMA BlockAlike ==
  ASSUME NEW c, NEW e, Alike(c, e), NEW reads \in Seq(ReadKinds)
  PROVE  Alike(LoadFrom(c, reads), LoadFrom(e, reads))
<1>1. Len(reads) \in Nat /\ \A i \in 1..Len(reads) : reads[i] \in ReadKinds
  OBVIOUS
<1>2. PICK f : Loads(c, reads, f) /\ LoadFrom(c, reads) = f[Len(reads)]
  BY LoadsOneByOne
<1>3. PICK g : Loads(e, reads, g) /\ LoadFrom(e, reads) = g[Len(reads)]
  BY LoadsOneByOne
<1> DEFINE S == {n \in Nat : n <= Len(reads) => Alike(f[n], g[n])}
<1>4. 0 \in S
  BY <1>2, <1>3 DEF Loads
<1>5. ASSUME NEW n \in Nat, n \in S PROVE n + 1 \in S
  <2>1. SUFFICES ASSUME n + 1 <= Len(reads) PROVE Alike(f[n + 1], g[n + 1])
    OBVIOUS
  <2>2. n + 1 \in 1..Len(reads) /\ n + 1 - 1 = n
    BY <1>1, <2>1
  <2>3. /\ f[n + 1] = ReadInto(f[n + 1 - 1], reads[n + 1])
        /\ g[n + 1] = ReadInto(g[n + 1 - 1], reads[n + 1])
    BY <1>2, <1>3, <2>2 DEF Loads
  <2>4. Alike(f[n], g[n])
    BY <1>1, <1>5, <2>1
  <2> QED
    BY <1>1, <2>2, <2>3, <2>4, ReadAlike
<1> HIDE DEF S
<1>6. Len(reads) \in S
  BY <1>1, <1>4, <1>5, Induction
<1> QED
  BY <1>1, <1>2, <1>3, <1>6 DEF S

(* A read of nothing that the checks use.                                   *)
Aside(r) == r.kind = "section" \/ Last(r.path) \notin Checked

(* and one that reads nothing the checks use leaves what they use alone.    *)
LEMMA BlockAside ==
  ASSUME NEW c \in Loading, NEW reads \in Seq(ReadKinds),
         \A r \in ToSet(reads) : Aside(r)
  PROVE  /\ LoadFrom(c, reads) \in Loading
         /\ LoadFrom(c, reads).thrown =
              (c.thrown \/ \E r \in ToSet(reads) : Throws(r))
         /\ \A k \in Checked : LoadFrom(c, reads).limits[k] = c.limits[k]
<1>1. /\ Len(reads) \in Nat /\ DOMAIN reads = 1..Len(reads)
      /\ \A i \in 1..Len(reads) : reads[i] \in ReadKinds /\ reads[i] \in ToSet(reads)
      /\ ToSet(reads) = {reads[i] : i \in 1..Len(reads)}
  BY DEF ToSet
<1>2. PICK f : Loads(c, reads, f) /\ LoadFrom(c, reads) = f[Len(reads)]
  BY LoadsOneByOne
<1> DEFINE Kept(n) ==
             /\ f[n] \in Loading
             /\ f[n].thrown = (c.thrown \/ \E i \in 1..n : Throws(reads[i]))
             /\ \A k \in Checked : f[n].limits[k] = c.limits[k]
           S == {n \in Nat : n <= Len(reads) => Kept(n)}
<1>3. 0 \in S
  <2>1. f[0] = c /\ c.thrown \in BOOLEAN /\ 1..0 = {}
    BY <1>2 DEF Loads, Loading
  <2>2. c.thrown = (c.thrown \/ \E i \in 1..0 : Throws(reads[i]))
    BY <2>1
  <2> QED
    BY <2>1, <2>2
<1>4. ASSUME NEW n \in Nat, n \in S PROVE n + 1 \in S
  <2>1. SUFFICES ASSUME n + 1 <= Len(reads) PROVE Kept(n + 1)
    OBVIOUS
  <2>2. n + 1 \in 1..Len(reads) /\ n + 1 - 1 = n
    BY <1>1, <2>1
  <2> DEFINE r == reads[n + 1]
  <2>3. f[n + 1] = ReadInto(f[n + 1 - 1], r)
    BY <1>2, <2>2 DEF Loads
  <2>4. Kept(n)
    BY <1>1, <1>4, <2>1
  <2>5. r \in ReadKinds /\ Aside(r)
    BY <1>1, <2>2
  <2>6. f[n + 1] = ReadInto(f[n], r)
    BY <2>2, <2>3
  <2>6a. f[n] \in Loading
    BY <2>4
  <2> HIDE DEF r
  <2>7. f[n + 1] \in Loading /\ f[n + 1].thrown = (f[n].thrown \/ Throws(r))
    BY <2>5, <2>6, <2>6a, ReadOne
  <2>8. ASSUME NEW k \in Checked PROVE f[n + 1].limits[k] = f[n].limits[k]
    <3>1. k \in DOMAIN Defaults
      BY DefaultLimits DEF Checked, NumberKeys
    <3>2. CASE r.kind = "section"
      BY <2>5, <2>6, <2>6a, <3>2, ReadOne
    <3>3. CASE Last(r.path) \notin Checked
      <4>1. k # Last(r.path)
        BY <3>3
      <4>2. \A j \in DOMAIN Defaults : j # Last(r.path) =>
              f[n + 1].limits[j] = f[n].limits[j]
        BY <2>5, <2>6, <2>6a, ReadOne
      <4> QED
        BY <3>1, <4>1, <4>2
    <3> QED
      BY <2>5, <3>2, <3>3 DEF Aside
  <2>9. (\E i \in 1..(n + 1) : Throws(reads[i])) <=>
          (\E i \in 1..n : Throws(reads[i])) \/ Throws(r)
    <3>1. \A i : i \in 1..(n + 1) <=> i \in 1..n \/ i = n + 1
      OBVIOUS
    <3> QED
      BY <3>1 DEF r
  <2>10. f[n + 1].thrown = (c.thrown \/ \E i \in 1..(n + 1) : Throws(reads[i]))
    <3>1. f[n].thrown = (c.thrown \/ \E i \in 1..n : Throws(reads[i]))
      BY <2>4
    <3> QED
      BY <2>7, <2>9, <3>1
  <2> QED
    BY <2>4, <2>7, <2>8, <2>10
<1> HIDE DEF S
<1>5. Len(reads) \in S
  BY <1>1, <1>3, <1>4, Induction
<1>6. Kept(Len(reads))
  BY <1>1, <1>5 DEF S
<1>7. (\E i \in 1..Len(reads) : Throws(reads[i])) <=>
        (\E r \in ToSet(reads) : Throws(r))
  BY <1>1
<1> QED
  BY <1>2, <1>6, <1>7

-----------------------------------------------------------------------------
(* The members of the lists the two programs read by.                       *)
LEMMA ToSetOfConcat ==
  ASSUME NEW T, NEW s \in Seq(T), NEW t \in Seq(T)
  PROVE  ToSet(s \o t) = ToSet(s) \cup ToSet(t)
<1>1. /\ s \o t \in Seq(T) /\ Len(s \o t) = Len(s) + Len(t)
      /\ Len(s) \in Nat /\ Len(t) \in Nat
      /\ DOMAIN s = 1..Len(s) /\ DOMAIN t = 1..Len(t)
      /\ DOMAIN (s \o t) = 1..(Len(s) + Len(t))
      /\ \A i \in 1..Len(s) : (s \o t)[i] = s[i]
      /\ \A i \in 1..Len(t) : (s \o t)[Len(s) + i] = t[i]
  OBVIOUS
<1>2. ASSUME NEW i \in DOMAIN (s \o t) PROVE (s \o t)[i] \in ToSet(s) \cup ToSet(t)
  <2>1. CASE i \in 1..Len(s)
    BY <1>1, <2>1 DEF ToSet
  <2>2. CASE i \notin 1..Len(s)
    <3>1. i - Len(s) \in 1..Len(t) /\ i = Len(s) + (i - Len(s))
      BY <1>1, <2>2
    <3>2. (s \o t)[i] = t[i - Len(s)]
      BY <1>1, <3>1
    <3> QED
      BY <1>1, <3>1, <3>2 DEF ToSet
  <2> QED
    BY <2>1, <2>2
<1>3. ASSUME NEW i \in DOMAIN s PROVE s[i] \in ToSet(s \o t)
  <2>1. i \in DOMAIN (s \o t) /\ (s \o t)[i] = s[i]
    BY <1>1
  <2> QED
    BY <2>1 DEF ToSet
<1>4. ASSUME NEW i \in DOMAIN t PROVE t[i] \in ToSet(s \o t)
  <2>1. Len(s) + i \in DOMAIN (s \o t) /\ (s \o t)[Len(s) + i] = t[i]
    BY <1>1
  <2> QED
    BY <2>1 DEF ToSet
<1> QED
  BY <1>2, <1>3, <1>4 DEF ToSet

(* The read of a section,                                                   *)
LEMMA SectionRead ==
  ASSUME NEW s \in Sections
  PROVE  /\ <<Section(s)>> \in Seq(ReadKinds)
         /\ ToSet(<<Section(s)>>) = {Section(s)}
<1>1. Section(s) \in ReadKinds
  BY DEF Section, ReadKinds, Words
<1>2. DOMAIN <<Section(s)>> = {1} /\ <<Section(s)>>[1] = Section(s)
  OBVIOUS
<1> QED
  BY <1>1, <1>2 DEF ToSet

(* The reads of the numbers of a section,                                   *)
LEMMA NumberReads ==
  ASSUME NEW s \in Sections, NEW keys \in Seq(NumberKeys)
  PROVE  /\ Numbers(s, keys) \in Seq(ReadKinds)
         /\ Len(Numbers(s, keys)) = Len(keys)
         /\ ToSet(Numbers(s, keys)) = {NumberAt(s, k) : k \in ToSet(keys)}
<1>1. Len(keys) \in Nat /\ DOMAIN keys = 1..Len(keys)
      /\ \A i \in DOMAIN keys : keys[i] \in NumberKeys
  OBVIOUS
<1>2. \A k \in NumberKeys : NumberAt(s, k) \in ReadKinds
  <2> TAKE k \in NumberKeys
  <2>1. k \in Words /\ s \in Words
    BY DEF NumberKeys, Words
  <2>2. <<s, k>> \in Seq(Words) /\ Last(<<s, k>>) = k
    BY <2>1 DEF Last
  <2> QED
    BY <2>2 DEF NumberAt, ReadKinds
<1>3. Numbers(s, keys) = [i \in 1..Len(keys) |-> NumberAt(s, keys[i])]
  BY <1>1 DEF Numbers
<1> QED
  BY <1>1, <1>2, <1>3 DEF ToSet

(* and of its requirements.                                                 *)
LEMMA BooleanReads ==
  ASSUME NEW s \in Sections, NEW keys \in Seq(Requirements)
  PROVE  /\ Booleans(s, keys) \in Seq(ReadKinds)
         /\ ToSet(Booleans(s, keys)) = {BooleanAt(s, k) : k \in ToSet(keys)}
<1>1. Len(keys) \in Nat /\ DOMAIN keys = 1..Len(keys)
      /\ \A i \in DOMAIN keys : keys[i] \in Requirements
  OBVIOUS
<1>2. \A k \in Requirements : BooleanAt(s, k) \in ReadKinds
  <2> TAKE k \in Requirements
  <2>1. k \in Words /\ s \in Words
    BY DefaultLimits DEF Words
  <2>2. <<s, k>> \in Seq(Words) /\ Last(<<s, k>>) = k
    BY <2>1 DEF Last
  <2> QED
    BY <2>2 DEF BooleanAt, ReadKinds
<1>3. Booleans(s, keys) = [i \in 1..Len(keys) |-> BooleanAt(s, keys[i])]
  BY <1>1 DEF Booleans
<1> QED
  BY <1>1, <1>2, <1>3 DEF ToSet

(* The parts of control's list and of emergency's, and what control alone   *)
(* reads.                                                                   *)
CeilingReads(keys) ==
  <<Section("altitude_limit")>> \o Numbers("altitude_limit", keys)
GapSection == <<Section("heartbeat_limit")>>
GapRead == Numbers("heartbeat_limit", <<"max_gap_sec">>)
LandGapRead == Numbers("heartbeat_limit", <<"land_gap_sec">>)

CeilingKeys == <<"soft_limit_m", "hard_limit_m", "descent_speed_mps",
                 "recovery_margin_m", "poll_rate_hz">>
RateKey == <<"poll_rate_hz">>

CeilingsOwn == {"soft_limit_m", "hard_limit_m", "descent_speed_mps",
                "recovery_margin_m"}
OwnReads ==
  {NumberAt("altitude_limit", k) : k \in CeilingsOwn}
    \cup {NumberAt("heartbeat_limit", "land_gap_sec")}

(* The keys in these lists are keys of the limits.                          *)
LEMMA NumberKeysAre ==
  /\ CeilingKeys \in Seq(NumberKeys) /\ RateKey \in Seq(NumberKeys)
  /\ <<"max_gap_sec">> \in Seq(NumberKeys) /\ <<"land_gap_sec">> \in Seq(NumberKeys)
  /\ <<"min_percent", "min_voltage_v">> \in Seq(NumberKeys)
  /\ <<"min_fix_type", "min_satellites">> \in Seq(NumberKeys)
  /\ <<"pos_horiz_variance_max", "velocity_variance_max">> \in Seq(NumberKeys)
  /\ <<"require_prearm_healthy", "require_normal_state">> \in Seq(Requirements)
<1>1. {"soft_limit_m", "hard_limit_m", "descent_speed_mps", "recovery_margin_m",
       "poll_rate_hz", "max_gap_sec", "land_gap_sec", "min_percent",
       "min_voltage_v", "min_fix_type", "min_satellites",
       "pos_horiz_variance_max", "velocity_variance_max"} \subseteq NumberKeys
  BY DEF NumberKeys, Defaults, Requirements
<1>2. CeilingKeys \in Seq(NumberKeys) /\ RateKey \in Seq(NumberKeys)
  BY <1>1 DEF CeilingKeys, RateKey
<1>3. <<"max_gap_sec">> \in Seq(NumberKeys) /\ <<"land_gap_sec">> \in Seq(NumberKeys)
  BY <1>1
<1>4. /\ <<"min_percent", "min_voltage_v">> \in Seq(NumberKeys)
      /\ <<"min_fix_type", "min_satellites">> \in Seq(NumberKeys)
      /\ <<"pos_horiz_variance_max", "velocity_variance_max">> \in Seq(NumberKeys)
  BY <1>1
<1>5. <<"require_prearm_healthy", "require_normal_state">> \in Seq(Requirements)
  BY DEF Requirements
<1> QED
  BY <1>2, <1>3, <1>4, <1>5

(* Besides the gap, what both read is neither the ceiling nor the gap.      *)
LEMMA SharedReads ==
  /\ BatteryReads \in Seq(ReadKinds) /\ GpsHealthEkfReads \in Seq(ReadKinds)
  /\ GapSection \in Seq(ReadKinds)
  /\ GapRead \in Seq(ReadKinds) /\ LandGapRead \in Seq(ReadKinds)
  /\ \A r \in ToSet(BatteryReads) \cup ToSet(GpsHealthEkfReads) :
       r.kind # "number" \/ r.path[1] \notin {"altitude_limit", "heartbeat_limit"}
  /\ ToSet(GapSection) = {Section("heartbeat_limit")}
  /\ ToSet(GapRead) = {NumberAt("heartbeat_limit", "max_gap_sec")}
  /\ ToSet(LandGapRead) = {NumberAt("heartbeat_limit", "land_gap_sec")}
<1> DEFINE Other(r) ==
      r.kind # "number" \/ r.path[1] \notin {"altitude_limit", "heartbeat_limit"}
<1>1. \A s \in Sections : Other(Section(s))
  BY DEF Section
<1>2. \A s \in Sections \ {"altitude_limit", "heartbeat_limit"} :
        \A k \in NumberKeys : Other(NumberAt(s, k))
  BY DEF NumberAt
<1>3. \A s \in Sections : \A k \in Requirements : Other(BooleanAt(s, k))
  BY DEF BooleanAt
<1> HIDE DEF Other
<1>4. \A s \in Sections \ {"altitude_limit", "heartbeat_limit"} :
        \A keys \in Seq(NumberKeys) :
          /\ Numbers(s, keys) \in Seq(ReadKinds)
          /\ \A r \in ToSet(Numbers(s, keys)) : Other(r)
  <2> TAKE s \in Sections \ {"altitude_limit", "heartbeat_limit"}
  <2> TAKE keys \in Seq(NumberKeys)
  <2>1. \A k \in ToSet(keys) : k \in NumberKeys
    BY DEF ToSet
  <2>2. /\ Numbers(s, keys) \in Seq(ReadKinds)
        /\ ToSet(Numbers(s, keys)) = {NumberAt(s, k) : k \in ToSet(keys)}
    BY NumberReads
  <2> QED
    BY <1>2, <2>1, <2>2
<1>5. /\ Booleans("vehicle_health_limit",
                  <<"require_prearm_healthy", "require_normal_state">>)
           \in Seq(ReadKinds)
      /\ \A r \in ToSet(Booleans("vehicle_health_limit",
                  <<"require_prearm_healthy", "require_normal_state">>)) : Other(r)
  <2> DEFINE keys == <<"require_prearm_healthy", "require_normal_state">>
  <2>1. "vehicle_health_limit" \in Sections
    BY DEF Sections
  <2>2. keys \in Seq(Requirements)
    BY NumberKeysAre
  <2> HIDE DEF keys
  <2>3. \A k \in ToSet(keys) : k \in Requirements
    BY <2>2 DEF ToSet
  <2>4. /\ Booleans("vehicle_health_limit", keys) \in Seq(ReadKinds)
        /\ ToSet(Booleans("vehicle_health_limit", keys)) =
             {BooleanAt("vehicle_health_limit", k) : k \in ToSet(keys)}
    BY <2>1, <2>2, BooleanReads
  <2>5. \A r \in ToSet(Booleans("vehicle_health_limit", keys)) : Other(r)
    BY <1>3, <2>1, <2>3, <2>4
  <2> QED
    BY <2>4, <2>5 DEF keys
<1> DEFINE Good(s) == s \in Seq(ReadKinds) /\ \A r \in ToSet(s) : Other(r)
<1>6. \A s, t : Good(s) /\ Good(t) => Good(s \o t)
  <2> TAKE s, t
  <2>1. SUFFICES ASSUME Good(s), Good(t) PROVE Good(s \o t)
    OBVIOUS
  <2>2. s \o t \in Seq(ReadKinds)
    BY <2>1
  <2>3. ToSet(s \o t) = ToSet(s) \cup ToSet(t)
    BY <2>1, ToSetOfConcat
  <2> QED
    BY <2>1, <2>2, <2>3
<1>7. \A s \in Sections : Good(<<Section(s)>>)
  BY <1>1, SectionRead
<1>8. {"battery_limit", "gps_limit", "ekf_limit"}
        \subseteq Sections \ {"altitude_limit", "heartbeat_limit"}
  BY DEF Sections
<1>9. /\ Good(Numbers("battery_limit", <<"min_percent", "min_voltage_v">>))
      /\ Good(Numbers("gps_limit", <<"min_fix_type", "min_satellites">>))
      /\ Good(Numbers("ekf_limit",
                      <<"pos_horiz_variance_max", "velocity_variance_max">>))
  BY <1>4, <1>8, NumberKeysAre
<1>10. /\ Good(<<Section("battery_limit")>>) /\ Good(<<Section("gps_limit")>>)
       /\ Good(<<Section("vehicle_health_limit")>>) /\ Good(<<Section("ekf_limit")>>)
  BY <1>7 DEF Sections
<1>11. Good(Booleans("vehicle_health_limit",
                     <<"require_prearm_healthy", "require_normal_state">>))
  BY <1>5
<1> HIDE DEF Good
<1>12. Good(BatteryReads)
  BY <1>6, <1>9, <1>10 DEF BatteryReads
<1>13. Good(GpsHealthEkfReads)
  <2> DEFINE a == <<Section("gps_limit")>>
             b == Numbers("gps_limit", <<"min_fix_type", "min_satellites">>)
             c == <<Section("vehicle_health_limit")>>
             d == Booleans("vehicle_health_limit",
                           <<"require_prearm_healthy", "require_normal_state">>)
             e == <<Section("ekf_limit")>>
             f == Numbers("ekf_limit",
                          <<"pos_horiz_variance_max", "velocity_variance_max">>)
  <2>1. Good(a) /\ Good(b) /\ Good(c) /\ Good(d) /\ Good(e) /\ Good(f)
    BY <1>9, <1>10, <1>11
  <2>2. GpsHealthEkfReads = a \o b \o c \o d \o e \o f
    BY DEF GpsHealthEkfReads
  <2> HIDE DEF a, b, c, d, e, f
  <2>3. Good(a \o b)
    BY <1>6, <2>1
  <2>4. Good(a \o b \o c)
    BY <1>6, <2>1, <2>3
  <2>5. Good(a \o b \o c \o d)
    BY <1>6, <2>1, <2>4
  <2>6. Good(a \o b \o c \o d \o e)
    BY <1>6, <2>1, <2>5
  <2> QED
    BY <1>6, <2>1, <2>2, <2>6
<1>14. "heartbeat_limit" \in Sections
  BY DEF Sections
<1>15. \A keys \in Seq(NumberKeys) : \A k : ToSet(keys) = {k} =>
         /\ Numbers("heartbeat_limit", keys) \in Seq(ReadKinds)
         /\ ToSet(Numbers("heartbeat_limit", keys)) = {NumberAt("heartbeat_limit", k)}
  BY <1>14, NumberReads
<1>16. /\ GapRead \in Seq(ReadKinds)
       /\ ToSet(GapRead) = {NumberAt("heartbeat_limit", "max_gap_sec")}
  <2>1. ToSet(<<"max_gap_sec">>) = {"max_gap_sec"}
    BY DEF ToSet
  <2> QED
    BY <1>15, <2>1, NumberKeysAre DEF GapRead
<1>17. /\ LandGapRead \in Seq(ReadKinds)
       /\ ToSet(LandGapRead) = {NumberAt("heartbeat_limit", "land_gap_sec")}
  <2>1. ToSet(<<"land_gap_sec">>) = {"land_gap_sec"}
    BY DEF ToSet
  <2> QED
    BY <1>15, <2>1, NumberKeysAre DEF LandGapRead
<1>18. /\ GapSection \in Seq(ReadKinds)
       /\ ToSet(GapSection) = {Section("heartbeat_limit")}
  BY <1>14, SectionRead DEF GapSection
<1> QED
  BY <1>12, <1>13, <1>16, <1>17, <1>18 DEF Good, Other

(* Of the ceiling's section the checks use nothing.                         *)
LEMMA CeilingAside ==
  ASSUME NEW keys \in Seq(NumberKeys), ToSet(keys) \cap Checked = {}
  PROVE  /\ CeilingReads(keys) \in Seq(ReadKinds)
         /\ ToSet(CeilingReads(keys)) =
              {Section("altitude_limit")}
                \cup {NumberAt("altitude_limit", k) : k \in ToSet(keys)}
         /\ \A r \in ToSet(CeilingReads(keys)) : Aside(r)
<1> DEFINE section == <<Section("altitude_limit")>>
           numbers == Numbers("altitude_limit", keys)
<1>1. "altitude_limit" \in Sections
  BY DEF Sections
<1>2. /\ section \in Seq(ReadKinds) /\ numbers \in Seq(ReadKinds)
      /\ ToSet(section) = {Section("altitude_limit")}
      /\ ToSet(numbers) = {NumberAt("altitude_limit", k) : k \in ToSet(keys)}
  BY <1>1, SectionRead, NumberReads
<1>3. CeilingReads(keys) = section \o numbers
  BY DEF CeilingReads
<1> HIDE DEF section, numbers
<1>4. CeilingReads(keys) \in Seq(ReadKinds)
  BY <1>2, <1>3
<1>5. ToSet(CeilingReads(keys)) = ToSet(section) \cup ToSet(numbers)
  BY <1>2, <1>3, ToSetOfConcat
<1>6. Aside(Section("altitude_limit"))
  BY DEF Aside, Section
<1>7. \A k \in ToSet(keys) : Aside(NumberAt("altitude_limit", k))
  BY DEF Aside, NumberAt, Last
<1> QED
  BY <1>2, <1>4, <1>5, <1>6, <1>7

(* The two lists in their parts.                                            *)
LEMMA ListsInParts ==
  /\ ControlReads =
       CeilingReads(CeilingKeys) \o BatteryReads \o GapSection
         \o (GapRead \o LandGapRead) \o GpsHealthEkfReads
  /\ EmergencyReads =
       CeilingReads(RateKey) \o BatteryReads \o GapSection
         \o GapRead \o GpsHealthEkfReads
<1>1. Numbers("heartbeat_limit", <<"max_gap_sec", "land_gap_sec">>) =
        GapRead \o LandGapRead
  <2>1. \A s, k : Numbers(s, <<k>>) = <<NumberAt(s, k)>>
    BY DEF Numbers
  <2>2. \A s, k, m : Numbers(s, <<k, m>>) = <<NumberAt(s, k), NumberAt(s, m)>>
    <3> TAKE s, k, m
    <3> DEFINE keys == <<k, m>>
               reads == <<NumberAt(s, k), NumberAt(s, m)>>
    <3>1. DOMAIN keys = 1..2 /\ keys[1] = k /\ keys[2] = m
      OBVIOUS
    <3>2. reads = [i \in 1..2 |-> reads[i]]
      OBVIOUS
    <3>3. reads[1] = NumberAt(s, k) /\ reads[2] = NumberAt(s, m)
      OBVIOUS
    <3>4. Numbers(s, keys) = [i \in 1..2 |-> NumberAt(s, keys[i])]
      BY <3>1 DEF Numbers
    <3> HIDE DEF keys, reads
    <3>5. \A i \in 1..2 : NumberAt(s, keys[i]) = reads[i]
      <4>1. \A i \in 1..2 : i = 1 \/ i = 2
        OBVIOUS
      <4> QED
        BY <3>1, <3>3, <4>1
    <3>6. Numbers(s, keys) = reads
      BY <3>2, <3>4, <3>5
    <3> QED
      BY <3>6 DEF keys, reads
  <2>3. \A a, b : <<a, b>> = <<a>> \o <<b>>
    <3> TAKE a, b
    <3> DEFINE T == {a, b}
               joined == <<a>> \o <<b>>
               pair == <<a, b>>
    <3>1. /\ <<a>> \in Seq(T) /\ <<b>> \in Seq(T)
          /\ Len(<<a>>) = 1 /\ Len(<<b>>) = 1
          /\ <<a>>[1] = a /\ <<b>>[1] = b
      OBVIOUS
    <3>2. /\ joined \in Seq(T) /\ Len(joined) = 2
          /\ joined[1] = a /\ joined[2] = b
      BY <3>1
    <3>3. pair \in Seq(T) /\ Len(pair) = 2 /\ pair[1] = a /\ pair[2] = b
      OBVIOUS
    <3> HIDE DEF T, joined, pair
    <3>4. \A i \in 1..2 : joined[i] = pair[i]
      <4>1. \A i \in 1..2 : i = 1 \/ i = 2
        OBVIOUS
      <4> QED
        BY <3>2, <3>3, <4>1
    <3>5. joined = pair
      BY <3>2, <3>3, <3>4, SeqEqual
    <3> QED
      BY <3>5 DEF joined, pair
  <2> QED
    BY <2>1, <2>2, <2>3 DEF GapRead, LandGapRead
<1>2. EmergencyReads =
       CeilingReads(RateKey) \o BatteryReads \o GapSection
         \o GapRead \o GpsHealthEkfReads
  BY DEF EmergencyReads, CeilingReads, RateKey, GapSection, GapRead
<1> DEFINE gaps == Numbers("heartbeat_limit", <<"max_gap_sec", "land_gap_sec">>)
<1>3. ControlReads =
       CeilingReads(CeilingKeys) \o BatteryReads \o GapSection
         \o gaps \o GpsHealthEkfReads
  BY DEF ControlReads, CeilingReads, CeilingKeys, GapSection
<1> QED
  BY <1>1, <1>2, <1>3

(* The members of both lists: control alone reads OwnReads.                 *)
LEMMA MembersOfLists ==
  /\ CeilingReads(CeilingKeys) \in Seq(ReadKinds)
  /\ CeilingReads(RateKey) \in Seq(ReadKinds)
  /\ \A r \in ToSet(CeilingReads(CeilingKeys)) \cup ToSet(CeilingReads(RateKey)) :
       Aside(r)
  /\ \A r \in ToSet(LandGapRead) : Aside(r)
  /\ ToSet(CeilingReads(CeilingKeys)) \subseteq
       ToSet(CeilingReads(RateKey)) \cup OwnReads
  /\ ToSet(CeilingReads(RateKey)) \subseteq ToSet(CeilingReads(CeilingKeys))
  /\ ToSet(LandGapRead) \subseteq OwnReads
  /\ OwnReads \subseteq ToSet(ControlReads)
  /\ OwnReads \cap ToSet(EmergencyReads) = {}
<1>1. /\ ToSet(CeilingKeys) = CeilingsOwn \cup {"poll_rate_hz"}
      /\ ToSet(RateKey) = {"poll_rate_hz"}
  <2>1. DOMAIN CeilingKeys = 1..5 /\ DOMAIN RateKey = {1}
    BY DEF CeilingKeys, RateKey
  <2>2. /\ CeilingKeys[1] = "soft_limit_m" /\ CeilingKeys[2] = "hard_limit_m"
        /\ CeilingKeys[3] = "descent_speed_mps"
        /\ CeilingKeys[4] = "recovery_margin_m" /\ CeilingKeys[5] = "poll_rate_hz"
        /\ RateKey[1] = "poll_rate_hz"
    BY DEF CeilingKeys, RateKey
  <2>3. \A i \in 1..5 : i = 1 \/ i = 2 \/ i = 3 \/ i = 4 \/ i = 5
    OBVIOUS
  <2>4. ToSet(RateKey) = {"poll_rate_hz"}
    BY <2>1, <2>2 DEF ToSet
  <2>5. \A k \in ToSet(CeilingKeys) : k \in CeilingsOwn \cup {"poll_rate_hz"}
    BY <2>1, <2>2, <2>3 DEF ToSet, CeilingsOwn
  <2>6. \A k \in CeilingsOwn \cup {"poll_rate_hz"} : k \in ToSet(CeilingKeys)
    <3>1. 1 \in 1..5 /\ 2 \in 1..5 /\ 3 \in 1..5 /\ 4 \in 1..5 /\ 5 \in 1..5
      OBVIOUS
    <3> QED
      BY <2>1, <2>2, <3>1 DEF ToSet, CeilingsOwn
  <2> QED
    BY <2>4, <2>5, <2>6
<1>2. (CeilingsOwn \cup {"poll_rate_hz"}) \cap Checked = {}
  BY DEF CeilingsOwn, Checked, CheckedNumbers, Requirements
<1>3. /\ CeilingReads(CeilingKeys) \in Seq(ReadKinds)
      /\ ToSet(CeilingReads(CeilingKeys)) =
           {Section("altitude_limit")}
             \cup {NumberAt("altitude_limit", k) : k \in ToSet(CeilingKeys)}
      /\ \A r \in ToSet(CeilingReads(CeilingKeys)) : Aside(r)
  BY <1>1, <1>2, CeilingAside, NumberKeysAre
<1>4. /\ CeilingReads(RateKey) \in Seq(ReadKinds)
      /\ ToSet(CeilingReads(RateKey)) =
           {Section("altitude_limit")}
             \cup {NumberAt("altitude_limit", k) : k \in ToSet(RateKey)}
      /\ \A r \in ToSet(CeilingReads(RateKey)) : Aside(r)
  BY <1>1, <1>2, CeilingAside, NumberKeysAre
<1>5. \A r \in ToSet(LandGapRead) : Aside(r)
  <2>1. Aside(NumberAt("heartbeat_limit", "land_gap_sec"))
    BY DEF Aside, NumberAt, Last, Checked, CheckedNumbers, Requirements
  <2> QED
    BY <2>1, SharedReads
<1>6. ToSet(CeilingReads(CeilingKeys)) \subseteq
        ToSet(CeilingReads(RateKey)) \cup OwnReads
  BY <1>1, <1>3, <1>4 DEF OwnReads
<1>7. ToSet(CeilingReads(RateKey)) \subseteq ToSet(CeilingReads(CeilingKeys))
  BY <1>1, <1>3, <1>4
<1>8. ToSet(LandGapRead) \subseteq OwnReads
  BY SharedReads DEF OwnReads
<1> DEFINE Joined(s, t) ==
             s \in Seq(ReadKinds) /\ t \in Seq(ReadKinds) =>
               s \o t \in Seq(ReadKinds) /\ ToSet(s \o t) = ToSet(s) \cup ToSet(t)
<1>9. \A s, t : Joined(s, t)
  <2> TAKE s, t
  <2> SUFFICES ASSUME s \in Seq(ReadKinds), t \in Seq(ReadKinds)
               PROVE  /\ s \o t \in Seq(ReadKinds)
                      /\ ToSet(s \o t) = ToSet(s) \cup ToSet(t)
    OBVIOUS
  <2>1. s \o t \in Seq(ReadKinds)
    OBVIOUS
  <2> QED
    BY <2>1, ToSetOfConcat
<1>10. ToSet(ControlReads) =
         ToSet(CeilingReads(CeilingKeys)) \cup ToSet(BatteryReads)
           \cup ToSet(GapSection) \cup (ToSet(GapRead) \cup ToSet(LandGapRead))
           \cup ToSet(GpsHealthEkfReads)
  <2> DEFINE a == CeilingReads(CeilingKeys)
             b == BatteryReads
             c == GapSection
             d == GapRead
             e == LandGapRead
             f == GpsHealthEkfReads
  <2>1. /\ a \in Seq(ReadKinds) /\ b \in Seq(ReadKinds) /\ c \in Seq(ReadKinds)
        /\ d \in Seq(ReadKinds) /\ e \in Seq(ReadKinds) /\ f \in Seq(ReadKinds)
    BY <1>3, SharedReads
  <2>2. ControlReads = a \o b \o c \o (d \o e) \o f
    BY ListsInParts
  <2> HIDE DEF a, b, c, d, e, f
  <2>3. Joined(a, b) /\ Joined(d, e)
    BY <1>9
  <2>4. Joined(a \o b, c)
    BY <1>9
  <2>5. Joined(a \o b \o c, d \o e)
    BY <1>9
  <2>6. Joined(a \o b \o c \o (d \o e), f)
    BY <1>9
  <2>7. /\ a \o b \in Seq(ReadKinds) /\ ToSet(a \o b) = ToSet(a) \cup ToSet(b)
        /\ d \o e \in Seq(ReadKinds) /\ ToSet(d \o e) = ToSet(d) \cup ToSet(e)
    BY <2>1, <2>3
  <2>8. /\ a \o b \o c \in Seq(ReadKinds)
        /\ ToSet(a \o b \o c) = ToSet(a) \cup ToSet(b) \cup ToSet(c)
    BY <2>1, <2>4, <2>7
  <2>9. /\ a \o b \o c \o (d \o e) \in Seq(ReadKinds)
        /\ ToSet(a \o b \o c \o (d \o e)) =
             ToSet(a) \cup ToSet(b) \cup ToSet(c) \cup (ToSet(d) \cup ToSet(e))
    BY <2>5, <2>7, <2>8
  <2>10. ToSet(ControlReads) =
           ToSet(a) \cup ToSet(b) \cup ToSet(c) \cup (ToSet(d) \cup ToSet(e))
             \cup ToSet(f)
    BY <2>1, <2>2, <2>6, <2>9
  <2> QED
    BY <2>10 DEF a, b, c, d, e, f
<1>11. ToSet(EmergencyReads) =
         ToSet(CeilingReads(RateKey)) \cup ToSet(BatteryReads)
           \cup ToSet(GapSection) \cup ToSet(GapRead) \cup ToSet(GpsHealthEkfReads)
  <2> DEFINE a == CeilingReads(RateKey)
             b == BatteryReads
             c == GapSection
             d == GapRead
             f == GpsHealthEkfReads
  <2>1. /\ a \in Seq(ReadKinds) /\ b \in Seq(ReadKinds) /\ c \in Seq(ReadKinds)
        /\ d \in Seq(ReadKinds) /\ f \in Seq(ReadKinds)
    BY <1>4, SharedReads
  <2>2. EmergencyReads = a \o b \o c \o d \o f
    BY ListsInParts
  <2> HIDE DEF a, b, c, d, f
  <2>3. Joined(a, b) /\ Joined(a \o b, c)
    BY <1>9
  <2>4. Joined(a \o b \o c, d)
    BY <1>9
  <2>5. Joined(a \o b \o c \o d, f)
    BY <1>9
  <2>6. a \o b \in Seq(ReadKinds) /\ ToSet(a \o b) = ToSet(a) \cup ToSet(b)
    BY <2>1, <2>3
  <2>7. /\ a \o b \o c \in Seq(ReadKinds)
        /\ ToSet(a \o b \o c) = ToSet(a) \cup ToSet(b) \cup ToSet(c)
    BY <2>1, <2>3, <2>6
  <2>8. /\ a \o b \o c \o d \in Seq(ReadKinds)
        /\ ToSet(a \o b \o c \o d) =
             ToSet(a) \cup ToSet(b) \cup ToSet(c) \cup ToSet(d)
    BY <2>1, <2>4, <2>7
  <2>9. ToSet(EmergencyReads) =
          ToSet(a) \cup ToSet(b) \cup ToSet(c) \cup ToSet(d) \cup ToSet(f)
    BY <2>1, <2>2, <2>5, <2>8
  <2> QED
    BY <2>9 DEF a, b, c, d, f
<1>12. OwnReads \subseteq ToSet(ControlReads)
  <2>1. {NumberAt("altitude_limit", k) : k \in CeilingsOwn} \subseteq
          ToSet(CeilingReads(CeilingKeys))
    BY <1>1, <1>3
  <2>2. NumberAt("heartbeat_limit", "land_gap_sec") \in ToSet(LandGapRead)
    BY SharedReads
  <2> QED
    BY <1>10, <2>1, <2>2 DEF OwnReads
<1>13. ASSUME NEW r \in OwnReads PROVE r \notin ToSet(EmergencyReads)
  <2>1. r.kind = "number" /\ r.path[1] \in {"altitude_limit", "heartbeat_limit"}
    <3>1. \A s, k : /\ NumberAt(s, k).kind = "number"
                    /\ NumberAt(s, k).path = <<s, k>>
      BY DEF NumberAt
    <3> QED
      BY <3>1 DEF OwnReads
  <2>2. r \notin ToSet(BatteryReads) \cup ToSet(GpsHealthEkfReads)
    BY <2>1, SharedReads
  <2>3. r \notin ToSet(GapSection)
    BY <2>1, SharedReads DEF Section
  <2>4. r # NumberAt("heartbeat_limit", "max_gap_sec")
    <3>1. \A s, k : NumberAt(s, k).path[1] = s /\ NumberAt(s, k).path[2] = k
      BY DEF NumberAt
    <3>2. r.path[2] \in CeilingsOwn \cup {"land_gap_sec"}
      BY <3>1 DEF OwnReads
    <3>3. "max_gap_sec" \notin CeilingsOwn \cup {"land_gap_sec"}
      BY DEF CeilingsOwn
    <3> QED
      BY <3>1, <3>2, <3>3
  <2>5. r \notin ToSet(CeilingReads(RateKey))
    <3>1. \A s, k : NumberAt(s, k).path[2] = k
      BY DEF NumberAt
    <3>2. r.path[2] \in CeilingsOwn \cup {"land_gap_sec"}
      BY <3>1 DEF OwnReads
    <3>3. "poll_rate_hz" \notin CeilingsOwn \cup {"land_gap_sec"}
      BY DEF CeilingsOwn
    <3>4. r # NumberAt("altitude_limit", "poll_rate_hz")
      BY <3>1, <3>2, <3>3
    <3>5. r # Section("altitude_limit")
      BY <2>1 DEF Section
    <3> QED
      BY <1>1, <1>4, <3>4, <3>5
  <2> QED
    BY <1>11, <2>2, <2>3, <2>4, <2>5, SharedReads
<1> QED
  BY <1>3, <1>4, <1>5, <1>6, <1>7, <1>8, <1>12, <1>13

(* When no key stops one loading only, the two load what the checks use     *)
(* alike.                                                                   *)
LEMMA LoadedAlike ==
  ASSUME Unreadable("control") = Unreadable("emergency")
  PROVE  /\ Loaded("control") \in Limits /\ Loaded("emergency") \in Limits
         /\ \A k \in Checked : Loaded("control")[k] = Loaded("emergency")[k]
<1> DEFINE start == [thrown |-> FALSE, limits |-> Defaults]
           c1 == LoadFrom(start, CeilingReads(CeilingKeys))
           e1 == LoadFrom(start, CeilingReads(RateKey))
<1>1. start \in Loading /\ start.thrown = FALSE /\ start.limits = Defaults
  BY DefaultLimits DEF Loading
<1>2. ASSUME NEW r \in OwnReads PROVE ~Throws(r)
  <2>1. r \in ToSet(ControlReads) /\ r \notin ToSet(EmergencyReads)
    BY MembersOfLists
  <2>2. ReadsOf("control") = ControlReads /\ ReadsOf("emergency") = EmergencyReads
    BY DEF ReadsOf
  <2> QED
    BY <2>1, <2>2 DEF Unreadable
<1>3. (\E r \in ToSet(CeilingReads(CeilingKeys)) : Throws(r)) <=>
        (\E r \in ToSet(CeilingReads(RateKey)) : Throws(r))
  BY <1>2, MembersOfLists
<1> HIDE DEF start
<1>4. /\ c1 \in Loading
      /\ c1.thrown = (start.thrown \/ \E r \in ToSet(CeilingReads(CeilingKeys)) : Throws(r))
      /\ \A k \in Checked : c1.limits[k] = start.limits[k]
  BY <1>1, MembersOfLists, BlockAside
<1>5. /\ e1 \in Loading
      /\ e1.thrown = (start.thrown \/ \E r \in ToSet(CeilingReads(RateKey)) : Throws(r))
      /\ \A k \in Checked : e1.limits[k] = start.limits[k]
  BY <1>1, MembersOfLists, BlockAside
<1>6. Alike(c1, e1)
  BY <1>3, <1>4, <1>5 DEF Alike
<1> HIDE DEF c1, e1
<1> DEFINE c2 == LoadFrom(c1, BatteryReads)
           e2 == LoadFrom(e1, BatteryReads)
           c3 == LoadFrom(c2, GapSection)
           e3 == LoadFrom(e2, GapSection)
           c4 == LoadFrom(c3, GapRead)
           e4 == LoadFrom(e3, GapRead)
           c5 == LoadFrom(c4, LandGapRead)
           c6 == LoadFrom(c5, GpsHealthEkfReads)
           e6 == LoadFrom(e4, GpsHealthEkfReads)
<1>7. Alike(c2, e2)
  BY <1>6, SharedReads, BlockAlike
<1>8. Alike(c3, e3)
  <2> HIDE DEF c2, e2
  <2> QED
    BY <1>7, SharedReads, BlockAlike
<1>9. Alike(c4, e4)
  <2> HIDE DEF c3, e3
  <2> QED
    BY <1>8, SharedReads, BlockAlike
<1>10. Alike(c5, e4)
  <2> HIDE DEF c4, e4
  <2>1. c4 \in Loading /\ e4 \in Loading /\ c4.thrown = e4.thrown
        /\ \A k \in Checked : c4.limits[k] = e4.limits[k]
    BY <1>9 DEF Alike
  <2>2. \A r \in ToSet(LandGapRead) : Aside(r) /\ ~Throws(r)
    BY <1>2, MembersOfLists
  <2>3. /\ c5 \in Loading
        /\ c5.thrown = (c4.thrown \/ \E r \in ToSet(LandGapRead) : Throws(r))
        /\ \A k \in Checked : c5.limits[k] = c4.limits[k]
    BY <2>1, <2>2, SharedReads, BlockAside
  <2> HIDE DEF c5
  <2>4. c4.thrown \in BOOLEAN
    BY <2>1 DEF Loading
  <2>5. c5.thrown = c4.thrown
    BY <2>2, <2>3, <2>4
  <2> QED
    BY <2>1, <2>3, <2>5 DEF Alike
<1>11. Alike(c6, e6)
  <2> HIDE DEF c5, e4
  <2> QED
    BY <1>10, SharedReads, BlockAlike
<1> HIDE DEF c2, e2, c3, e3, c4, e4, c5, c6, e6
<1> DEFINE A == CeilingReads(CeilingKeys)
           R == CeilingReads(RateKey)
           B == BatteryReads
           S == GapSection
           G == GapRead
           L == LandGapRead
           H == GpsHealthEkfReads
<1>12. /\ A \in Seq(ReadKinds) /\ R \in Seq(ReadKinds) /\ B \in Seq(ReadKinds)
       /\ S \in Seq(ReadKinds) /\ G \in Seq(ReadKinds) /\ L \in Seq(ReadKinds)
       /\ H \in Seq(ReadKinds)
  BY MembersOfLists, SharedReads
<1>13. ControlReads = A \o B \o S \o (G \o L) \o H /\ EmergencyReads = R \o B \o S \o G \o H
  BY ListsInParts
<1>14. /\ c1 = LoadFrom(start, A) /\ c2 = LoadFrom(c1, B) /\ c3 = LoadFrom(c2, S)
       /\ c4 = LoadFrom(c3, G) /\ c5 = LoadFrom(c4, L) /\ c6 = LoadFrom(c5, H)
       /\ e1 = LoadFrom(start, R) /\ e2 = LoadFrom(e1, B) /\ e3 = LoadFrom(e2, S)
       /\ e4 = LoadFrom(e3, G) /\ e6 = LoadFrom(e4, H)
  BY DEF c1, c2, c3, c4, c5, c6, e1, e2, e3, e4, e6
<1> HIDE DEF A, R, B, S, G, L, H
<1> DEFINE Parts(x, s, t, both) ==
             s \in Seq(ReadKinds) /\ t \in Seq(ReadKinds) /\ both = s \o t =>
               /\ both \in Seq(ReadKinds)
               /\ LoadFrom(x, both) = LoadFrom(LoadFrom(x, s), t)
<1>15. \A x, s, t, both : Parts(x, s, t, both)
  <2> TAKE x, s, t, both
  <2> SUFFICES ASSUME s \in Seq(ReadKinds), t \in Seq(ReadKinds)
               PROVE  /\ s \o t \in Seq(ReadKinds)
                      /\ LoadFrom(x, s \o t) = LoadFrom(LoadFrom(x, s), t)
    OBVIOUS
  <2>1. s \o t \in Seq(ReadKinds)
    OBVIOUS
  <2> QED
    BY <2>1, LoadsInParts
<1> HIDE DEF Parts
<1>16. LoadFrom(start, ControlReads) = c6
  <2> DEFINE ab == A \o B
             abs == ab \o S
             gl == G \o L
             all == abs \o gl
  <2>1. Parts(start, A, B, ab) /\ Parts(start, ab, S, abs) /\ Parts(c3, G, L, gl)
    BY <1>15
  <2>2. Parts(start, abs, gl, all) /\ Parts(start, all, H, ControlReads)
    BY <1>15
  <2>3. ab = A \o B /\ abs = ab \o S /\ gl = G \o L /\ all = abs \o gl
    OBVIOUS
  <2>4. ControlReads = all \o H
    BY <1>13
  <2> HIDE DEF ab, abs, gl, all
  <2>5. ab \in Seq(ReadKinds) /\ LoadFrom(start, ab) = c2
    BY <1>12, <1>14, <2>1, <2>3, Zenon DEF Parts
  <2>6. abs \in Seq(ReadKinds) /\ LoadFrom(start, abs) = c3
    BY <1>12, <1>14, <2>1, <2>3, <2>5, Zenon DEF Parts
  <2>7. gl \in Seq(ReadKinds) /\ LoadFrom(c3, gl) = c5
    BY <1>12, <1>14, <2>1, <2>3, Zenon DEF Parts
  <2>8. all \in Seq(ReadKinds) /\ LoadFrom(start, all) = c5
    BY <2>2, <2>3, <2>6, <2>7, Zenon DEF Parts
  <2> QED
    BY <1>12, <1>14, <2>2, <2>4, <2>8, Zenon DEF Parts
<1>17. LoadFrom(start, EmergencyReads) = e6
  <2> DEFINE rb == R \o B
             rbs == rb \o S
             all == rbs \o G
  <2>1. Parts(start, R, B, rb) /\ Parts(start, rb, S, rbs)
    BY <1>15
  <2>2. Parts(start, rbs, G, all) /\ Parts(start, all, H, EmergencyReads)
    BY <1>15
  <2>3. rb = R \o B /\ rbs = rb \o S /\ all = rbs \o G
    OBVIOUS
  <2>4. EmergencyReads = all \o H
    BY <1>13
  <2> HIDE DEF rb, rbs, all
  <2>5. rb \in Seq(ReadKinds) /\ LoadFrom(start, rb) = e2
    BY <1>12, <1>14, <2>1, <2>3, Zenon DEF Parts
  <2>6. rbs \in Seq(ReadKinds) /\ LoadFrom(start, rbs) = e3
    BY <1>12, <1>14, <2>1, <2>3, <2>5, Zenon DEF Parts
  <2>7. all \in Seq(ReadKinds) /\ LoadFrom(start, all) = e4
    BY <1>12, <1>14, <2>2, <2>3, <2>6, Zenon DEF Parts
  <2> QED
    BY <1>12, <1>14, <2>2, <2>4, <2>7, Zenon DEF Parts
<1>18. Loaded("control") = c6.limits /\ Loaded("emergency") = e6.limits
  <2>1. /\ Loaded("control") = LoadFrom(start, ControlReads).limits
        /\ Loaded("emergency") = LoadFrom(start, EmergencyReads).limits
    BY DEF Loaded, LoadFrom, ReadsOf, start
  <2> QED
    BY <1>16, <1>17, <2>1
<1> QED
  BY <1>11, <1>18 DEF Alike, Loading

-----------------------------------------------------------------------------
(* What is known of the last messages and of the limits in every state.     *)
LatestTyped ==
  /\ DOMAIN latest = Types
  /\ latest["SYS_STATUS"] \in SysStatus \cup {NoReport}
  /\ latest["GPS_RAW_INT"] \in GpsRaw \cup {NoReport}
  /\ latest["EKF_STATUS_REPORT"] \in EkfReport \cup {NoReport}

LimitsAgree ==
  /\ limits["control"] \in Limits /\ limits["emergency"] \in Limits
  /\ \A k \in Checked : limits["control"][k] = limits["emergency"][k]

VerdictInv ==
  /\ gap \in Nat /\ LatestTyped
  /\ phase \in {"waiting", "watching"} /\ ~apart => LimitsAgree

(* The messages by their types.                                             *)
LEMMA MessageFields ==
  /\ \A m \in SysStatus : m.type = "SYS_STATUS"
  /\ \A m \in SysStatus : m.percent \in Percent
  /\ \A m \in SysStatus : m.voltage \in Millivolts
  /\ \A m \in GpsRaw : m.type = "GPS_RAW_INT"
  /\ \A m \in Heartbeat : m.type = "HEARTBEAT"
  /\ \A m \in EkfReport : m.type = "EKF_STATUS_REPORT"
<1>1. \A m \in SysStatus : m.type = "SYS_STATUS"
  BY DEF SysStatus
<1>2. \A m \in SysStatus : m.percent \in Percent
  BY DEF SysStatus
<1>3. \A m \in SysStatus : m.voltage \in Millivolts
  BY DEF SysStatus
<1>4. \A m \in GpsRaw : m.type = "GPS_RAW_INT"
  BY DEF GpsRaw
<1>5. \A m \in Heartbeat : m.type = "HEARTBEAT"
  BY DEF Heartbeat
<1>6. \A m \in EkfReport : m.type = "EKF_STATUS_REPORT"
  BY DEF EkfReport
<1> QED
  BY <1>1, <1>2, <1>3, <1>4, <1>5, <1>6

LEMMA MillivoltsAreNumbers == \A v \in Millivolts : v \in Int
  BY SMT DEF Millivolts

(* Where the limits agree, the two copies of the checks do.                 *)
LEMMA ChecksAgree ==
  ASSUME gap \in Nat, LatestTyped, LimitsAgree
  PROVE  ControlBreach <=> EmergencyReasons(latest, gap) # {}
<1> DEFINE c == limits["control"]
           e == limits["emergency"]
           s == latest["SYS_STATUS"]
           g == latest["GPS_RAW_INT"]
           f == latest["EKF_STATUS_REPORT"]
           critical == latest["HEARTBEAT"].status = "CRITICAL"
<1>1. /\ c.max_gap_sec = e.max_gap_sec
      /\ c.min_percent = e.min_percent /\ c.min_voltage_v = e.min_voltage_v
      /\ c.min_fix_type = e.min_fix_type /\ c.min_satellites = e.min_satellites
      /\ c.require_prearm_healthy = e.require_prearm_healthy
      /\ c.require_normal_state = e.require_normal_state
      /\ c.pos_horiz_variance_max = e.pos_horiz_variance_max
      /\ c.velocity_variance_max = e.velocity_variance_max
  BY DEF LimitsAgree, Checked, CheckedNumbers, Requirements
<1>2. e.min_percent \in Int /\ e.min_voltage_v \in Int
  <2>1. "min_percent" \in NumberKeys /\ "min_voltage_v" \in NumberKeys
    BY DefaultLimits DEF CheckedNumbers
  <2>2. \A k \in NumberKeys : e[k] \in Int
    BY DEF LimitsAgree, Limits
  <2> QED
    BY <2>1, <2>2
<1>3. s # NoReport => s.percent \in Int /\ Voltage(s) \in Int
  <2>1. s # NoReport => s \in SysStatus
    BY DEF LatestTyped
  <2>2. \A m \in SysStatus : m.percent \in Int /\ Voltage(m) \in Int
    <3>1. \A p \in Percent : p \in Int
      BY DEF Percent
    <3>2. \A v \in Millivolts : v \in Int
      BY MillivoltsAreNumbers
    <3>3. ASSUME NEW m \in SysStatus PROVE Voltage(m) \in Int
      <4>1. m.voltage \in Int
        BY <3>2, MessageFields
      <4> QED
        BY <4>1 DEF Voltage
    <3> QED
      BY <3>1, <3>3, MessageFields
  <2> QED
    BY <2>1, <2>2
<1> DEFINE Gap == gap > e.max_gap_sec
           Charge == s # NoReport /\ s.percent \in 0..(e.min_percent - 1)
           Volts == s # NoReport /\ Voltage(s) \in 0..(e.min_voltage_v - 1)
           Gps == /\ g # NoReport /\ g.satellites # NoSatellites
                  /\ \/ g.fix < e.min_fix_type
                     \/ g.satellites < e.min_satellites
           Prearm == s # NoReport /\ e.require_prearm_healthy /\ ~s.prearm
           Status == s # NoReport /\ e.require_normal_state /\ critical
           Ekf == /\ f # NoReport
                  /\ \/ f.position > e.pos_horiz_variance_max
                     \/ f.velocity > e.velocity_variance_max
<1>4. EmergencyReasons(latest, gap) # {} <=>
        \/ Gap \/ Charge \/ Volts \/ Gps \/ Prearm \/ Status \/ Ekf
  <2> DEFINE E == EmergencyReasons(latest, gap)
  <2>1. "gap" \in E <=> Gap
    BY DEF EmergencyReasons
  <2>2. "percent" \in E <=> Charge
    BY DEF EmergencyReasons
  <2>3. "voltage" \in E <=> Volts
    BY DEF EmergencyReasons
  <2>4. "gps" \in E <=> Gps
    BY DEF EmergencyReasons
  <2>5. "prearm" \in E <=> Prearm
    BY DEF EmergencyReasons
  <2>6. "status" \in E <=> Status
    BY DEF EmergencyReasons
  <2>7. "ekf" \in E <=> Ekf
    BY DEF EmergencyReasons
  <2>8. E \subseteq {"gap", "percent", "voltage", "gps", "prearm", "status", "ekf"}
    BY DEF EmergencyReasons
  <2> HIDE DEF E, Gap, Charge, Volts, Gps, Prearm, Status, Ekf
  <2>9. E # {} <=> \/ Gap \/ Charge \/ Volts \/ Gps \/ Prearm \/ Status \/ Ekf
    BY <2>1, <2>2, <2>3, <2>4, <2>5, <2>6, <2>7, <2>8
  <2> QED
    BY <2>9 DEF E
<1>5. Charge <=> s # NoReport /\ s.percent >= 0 /\ s.percent < e.min_percent
  BY <1>2, <1>3
<1>6. Volts <=> s # NoReport /\ Voltage(s) >= 0 /\ Voltage(s) < e.min_voltage_v
  BY <1>2, <1>3
<1>7. ControlBreach <=>
        \/ gap > c.max_gap_sec
        \/ /\ s # NoReport
           /\ \/ s.percent >= 0 /\ s.percent < c.min_percent
              \/ Voltage(s) >= 0 /\ Voltage(s) < c.min_voltage_v
              \/ c.require_prearm_healthy /\ ~s.prearm
              \/ c.require_normal_state /\ critical
        \/ /\ g # NoReport
           /\ g.satellites # NoSatellites
           /\ g.fix < c.min_fix_type \/ g.satellites < c.min_satellites
        \/ /\ f # NoReport
           /\ \/ f.position > c.pos_horiz_variance_max
              \/ f.velocity > c.velocity_variance_max
  BY DEF ControlBreach, Have
<1> HIDE DEF c, e, s, g, f, critical, Charge, Volts
<1> QED
  BY <1>1, <1>4, <1>5, <1>6, <1>7

(* Before the file is read nothing has been reported.                       *)
LEMMA VerdictInit == Init => VerdictInv
<1> SUFFICES ASSUME Init PROVE VerdictInv
  OBVIOUS
<1>1. gap \in Nat /\ phase = "reading"
  BY DEF Init
<1>2. latest = [t \in Types |-> IF t = "HEARTBEAT"
                                THEN [type |-> t, status |-> "STANDBY"]
                                ELSE NoReport]
  BY DEF Init
<1>3. LatestTyped
  BY <1>2 DEF LatestTyped, Types
<1> QED
  BY <1>1, <1>3 DEF VerdictInv

(* Loading makes the limits agree; no other step touches them, and every    *)
(* message is filed under its type.                                         *)
LEMMA VerdictNext == VerdictInv /\ [Next]_vars => VerdictInv'
<1> SUFFICES ASSUME VerdictInv, [Next]_vars PROVE VerdictInv'
  OBVIOUS
<1> USE DEF VerdictInv
<1>1. CASE Read
  BY <1>1 DEF Read, watch, LatestTyped, LimitsAgree
<1>2. CASE Load
  <2>1. UNCHANGED watch /\ gap' \in Nat /\ LatestTyped'
    BY <1>2 DEF Load, watch, LatestTyped
  <2>2. ASSUME ~apart' PROVE LimitsAgree'
    <3>1. Unreadable("control") = Unreadable("emergency")
      BY <1>2, <2>2 DEF Load
    <3>2. limits' = [p \in Programs |-> Loaded(p)]
      BY <1>2 DEF Load
    <3>3. limits'["control"] = Loaded("control") /\ limits'["emergency"] = Loaded("emergency")
      BY <3>2 DEF Programs
    <3> QED
      BY <3>1, <3>3, LoadedAlike DEF LimitsAgree
  <2> QED
    BY <2>1, <2>2
<1>3. CASE FirstHeartbeat
  BY <1>3 DEF FirstHeartbeat, LatestTyped, LimitsAgree
<1>4. CASE NoHeartbeat
  BY <1>4 DEF NoHeartbeat, watch, LatestTyped, LimitsAgree
<1>5. ASSUME NEW m \in Messages, TakeMessage(m) PROVE VerdictInv'
  <2>1. gap' \in Nat /\ UNCHANGED <<phase, limits, apart>>
    BY <1>5 DEF TakeMessage
  <2>2. latest' = [latest EXCEPT ![m.type] = m]
    BY <1>5 DEF TakeMessage
  <2>3. m \in SysStatus \cup GpsRaw \cup Heartbeat \cup EkfReport
    BY HealthAssumption
  <2>4. /\ m.type \in Types
        /\ m.type = "SYS_STATUS" => m \in SysStatus
        /\ m.type = "GPS_RAW_INT" => m \in GpsRaw
        /\ m.type = "EKF_STATUS_REPORT" => m \in EkfReport
    BY <2>3, MessageFields DEF Types
  <2>5. /\ DOMAIN latest' = Types
        /\ \A t \in Types : latest'[t] = IF t = m.type THEN m ELSE latest[t]
    BY <2>2, <2>4 DEF LatestTyped
  <2>6. LatestTyped'
    BY <2>4, <2>5 DEF LatestTyped, Types
  <2>7. LimitsAgree => LimitsAgree'
    BY <2>1 DEF LimitsAgree
  <2> QED
    BY <2>1, <2>6, <2>7
<1>6. CASE TakeNothing
  BY <1>6 DEF TakeNothing, LatestTyped, LimitsAgree
<1>7. CASE Tick
  <2>1. gap' \in Nat
    BY <1>7 DEF Tick
  <2> QED
    BY <1>7, <2>1 DEF Tick, LatestTyped, LimitsAgree
<1>8. CASE UNCHANGED vars
  BY <1>8 DEF vars, watch, LatestTyped, LimitsAgree
<1> QED
  BY <1>1, <1>2, <1>3, <1>4, <1>5, <1>6, <1>7, <1>8 DEF Next

(* Whatever the file holds, whichever library the reader is built with and  *)
(* whatever the vehicle reports: the program that watches and the one that  *)
(* acts come to one verdict, unless a key stopped the loading of one only.  *)
THEOREM VerdictsAgree == Spec => []SameVerdict
<1>1. VerdictInv => SameVerdict
  BY ChecksAgree DEF VerdictInv, SameVerdict
<1> QED
  BY VerdictInit, VerdictNext, <1>1, PTL DEF Spec

-----------------------------------------------------------------------------
(* The settings reader.  What a file says, of its first n lines, is a       *)
(* matter of the file alone; the reader's state does not come into it.      *)
EntriesIn(f, n) == {i \in 1..n : f[i].key # NoKey}
AboveIn(f, i) == {j \in EntriesIn(f, i - 1) : f[j].indent < f[i].indent}
ParentIn(f, i) ==
  IF AboveIn(f, i) = {} THEN 0
  ELSE CHOOSE j \in AboveIn(f, i) : \A k \in AboveIn(f, i) : k <= j

IsPathIn(f, g) ==
  g = [i \in Nat |-> IF i = 0 THEN <<>> ELSE Append(g[ParentIn(f, i)], f[i].key)]
PathIn(f) == CHOOSE g : IsPathIn(f, g)

(* Positions have a greatest one.                                           *)
LEMMA GreatestExists ==
  ASSUME NEW n \in Nat, NEW S \in SUBSET (1..n), S # {}
  PROVE  \E j \in S : \A k \in S : k <= j
<1> DEFINE T == {n - j : j \in S}
<1>1. T \in SUBSET Nat /\ T # {}
  <2>1. \A j \in S : n - j \in Nat
    OBVIOUS
  <2> QED
    BY <2>1
<1>2. PICK t \in T : \A u \in T : t <= u
  BY <1>1, LeastNatural
<1>3. PICK j \in S : t = n - j
  OBVIOUS
<1>4. ASSUME NEW k \in S PROVE k <= j
  <2>1. n - k \in T
    OBVIOUS
  <2>2. n - j <= n - k
    BY <1>2, <1>3, <2>1
  <2>3. n \in Int /\ j \in Int /\ k \in Int
    OBVIOUS
  <2> QED
    BY <2>2, <2>3
<1> QED
  BY <1>4

(* Max() of such a set is that.                                             *)
LEMMA MaxIsGreatest ==
  ASSUME NEW n \in Nat, NEW S \in SUBSET (1..n), S # {}
  PROVE  Max(S) \in S /\ \A k \in S : k <= Max(S)
<1> DEFINE m == CHOOSE x \in S : \A y \in S : x >= y
<1>1. \E x \in S : \A y \in S : x >= y
  <2>1. PICK x \in S : \A y \in S : y <= x
    BY GreatestExists
  <2>2. \A y \in S : x >= y
    BY <2>1
  <2> QED
    BY <2>2
<1>2. m \in S /\ \A y \in S : m >= y
  BY <1>1
<1>3. Max(S) = m
  BY DEF Max
<1> HIDE DEF m
<1>4. \A y \in S : y <= m
  BY <1>2
<1> QED
  BY <1>2, <1>3, <1>4

(* A path is defined by that of a line further up: the recursion ends.      *)
LEMMA PathsExist ==
  ASSUME NEW parent, NEW key,
         \A i \in Nat : i # 0 => parent[i] \in Nat /\ parent[i] < i
  PROVE  \E g : g = [i \in Nat |-> IF i = 0 THEN <<>>
                                   ELSE Append(g[parent[i]], key[i])]
<1> DEFINE Up(n, g) ==
             g = [i \in 0..n |-> IF i = 0 THEN <<>> ELSE Append(g[parent[i]], key[i])]
           S == {n \in Nat : \E g : Up(n, g)}
           One == {n \in Nat : \A a, b \in Nat : \A g, h :
                     n <= a /\ n <= b /\ Up(a, g) /\ Up(b, h) =>
                       \A i \in 0..n : g[i] = h[i]}
<1>1. \A n \in Nat : n \in S
  <2>1. 0 \in S
    <3> DEFINE g == [i \in 0..0 |-> <<>>]
    <3>1. \A i \in 0..0 : i = 0
      OBVIOUS
    <3>2. Up(0, g)
      BY <3>1
    <3> QED
      BY <3>2
  <2>2. ASSUME NEW n \in Nat, n \in S PROVE n + 1 \in S
    <3>1. PICK g : Up(n, g)
      BY <2>2
    <3> DEFINE h == [i \in 0..(n + 1) |-> IF i = n + 1
                                          THEN Append(g[parent[n + 1]], key[n + 1])
                                          ELSE g[i]]
    <3>2. \A i \in 0..n : h[i] = g[i]
      OBVIOUS
    <3>3. \A i \in 0..(n + 1) : i # 0 => parent[i] \in 0..n
      OBVIOUS
    <3>4. ASSUME NEW i \in 0..(n + 1)
          PROVE  h[i] = IF i = 0 THEN <<>> ELSE Append(h[parent[i]], key[i])
      <4>1. CASE i = 0
        <5>1. h[0] = g[0] /\ g[0] = <<>>
          BY <3>1
        <5> QED
          BY <4>1, <5>1
      <4>2. CASE i = n + 1
        <5>1. h[i] = Append(g[parent[i]], key[i])
          BY <4>2
        <5>2. h[parent[i]] = g[parent[i]]
          BY <3>2, <3>3, <4>2
        <5> HIDE DEF h
        <5>3. i # 0
          BY <4>2
        <5> QED
          BY <5>1, <5>2, <5>3
      <4>3. CASE i \in 1..n
        <5>0. i \in 0..n /\ i # 0
          BY <4>3
        <5>1. h[i] = g[i] /\ g[i] = Append(g[parent[i]], key[i])
          <6>1. h[i] = g[i]
            BY <3>2, <5>0
          <6> HIDE DEF h
          <6>2. g[i] = Append(g[parent[i]], key[i])
            BY <3>1, <5>0
          <6> QED
            BY <6>1, <6>2
        <5>2. parent[i] \in 0..n
          BY <3>3, <5>0
        <5>3. h[parent[i]] = g[parent[i]]
          BY <3>2, <5>2
        <5> HIDE DEF h
        <5>4. i # 0
          BY <4>3
        <5> QED
          BY <5>1, <5>3, <5>4
      <4> QED
        BY <4>1, <4>2, <4>3
    <3>5. h = [i \in 0..(n + 1) |-> h[i]]
      OBVIOUS
    <3> HIDE DEF h
    <3>6. Up(n + 1, h)
      BY <3>4, <3>5
    <3>7. n + 1 \in Nat
      OBVIOUS
    <3> HIDE DEF Up
    <3> QED
      BY <3>6, <3>7, Zenon DEF S
  <2> HIDE DEF S
  <2> QED
    BY <2>1, <2>2, Induction
<1>2. \A n \in Nat : n \in One
  <2>1. 0 \in One
    <3>1. ASSUME NEW a \in Nat, NEW b \in Nat, NEW g, NEW h, Up(a, g), Up(b, h)
          PROVE  \A i \in 0..0 : g[i] = h[i]
      <4>1. g[0] = <<>> /\ h[0] = <<>>
        BY <3>1
      <4>2. \A i \in 0..0 : i = 0
        OBVIOUS
      <4> HIDE DEF Up
      <4> QED
        BY <4>1, <4>2
    <3> HIDE DEF Up
    <3> QED
      BY <3>1
  <2>2. ASSUME NEW n \in Nat, n \in One PROVE n + 1 \in One
    <3>1. ASSUME NEW a \in Nat, NEW b \in Nat, NEW g, NEW h,
                 n + 1 <= a, n + 1 <= b, Up(a, g), Up(b, h)
          PROVE  \A i \in 0..(n + 1) : g[i] = h[i]
      <4>1. \A i \in 0..n : g[i] = h[i]
        <5>1. n <= a /\ n <= b
          BY <3>1
        <5> HIDE DEF Up
        <5> QED
          BY <2>2, <3>1, <5>1
      <4>2. parent[n + 1] \in 0..n /\ n + 1 \in 0..a /\ n + 1 \in 0..b /\ n + 1 # 0
        BY <3>1
      <4>3. g[n + 1] = Append(g[parent[n + 1]], key[n + 1])
        BY <3>1, <4>2
      <4>4. h[n + 1] = Append(h[parent[n + 1]], key[n + 1])
        BY <3>1, <4>2
      <4>5. g[n + 1] = h[n + 1]
        BY <4>1, <4>2, <4>3, <4>4
      <4>6. \A i \in 0..(n + 1) : i \in 0..n \/ i = n + 1
        OBVIOUS
      <4> HIDE DEF Up
      <4> QED
        BY <4>1, <4>5, <4>6
    <3> HIDE DEF Up
    <3> QED
      BY <3>1
  <2> HIDE DEF One
  <2> QED
    BY <2>1, <2>2, Induction
<1> DEFINE A == [n \in Nat |-> CHOOSE g : Up(n, g)]
           G == [i \in Nat |-> A[i][i]]
<1>3. \A n \in Nat : Up(n, A[n])
  <2> TAKE n \in Nat
  <2>1. \E g : Up(n, g)
    BY <1>1
  <2> HIDE DEF Up
  <2> QED
    BY <2>1
<1> HIDE DEF A
<1>4. ASSUME NEW i \in Nat
      PROVE  G[i] = IF i = 0 THEN <<>> ELSE Append(G[parent[i]], key[i])
  <2>1. Up(i, A[i])
    BY <1>3
  <2>2. CASE i = 0
    BY <2>1, <2>2
  <2>3. CASE i # 0
    <3> DEFINE p == parent[i]
    <3>1. p \in Nat /\ p < i /\ p \in 0..p /\ p <= p /\ p <= i
      BY <2>3
    <3>2. A[i][i] = Append(A[i][p], key[i])
      <4>1. i \in 0..i
        OBVIOUS
      <4> QED
        BY <2>1, <2>3, <4>1
    <3>3. Up(p, A[p]) /\ p \in One
      BY <1>2, <1>3, <3>1
    <3> HIDE DEF p, Up
    <3>4. A[i][p] = A[p][p]
      BY <2>1, <3>1, <3>3
    <3>5. G[p] = A[p][p] /\ G[i] = A[i][i]
      BY <3>1
    <3> HIDE DEF G
    <3>6. G[i] = Append(G[p], key[i])
      BY <3>2, <3>4, <3>5
    <3> QED
      BY <2>3, <3>6 DEF p
  <2> QED
    BY <2>2, <2>3
<1>5. G = [i \in Nat |-> IF i = 0 THEN <<>> ELSE Append(G[parent[i]], key[i])]
  BY <1>4
<1> HIDE DEF G
<1> QED
  BY <1>5

(* The line a line belongs to is further up and is indented less.           *)
LEMMA ParentIsAbove ==
  ASSUME NEW f, NEW i \in Nat, i # 0
  PROVE  /\ ParentIn(f, i) \in Nat /\ ParentIn(f, i) < i
         /\ AboveIn(f, i) = {} => ParentIn(f, i) = 0
         /\ AboveIn(f, i) # {} => /\ ParentIn(f, i) \in AboveIn(f, i)
                                 /\ \A k \in AboveIn(f, i) : k <= ParentIn(f, i)
<1>1. i - 1 \in Nat /\ AboveIn(f, i) \in SUBSET (1..(i - 1))
  BY DEF AboveIn, EntriesIn
<1>2. CASE AboveIn(f, i) = {}
  BY <1>2 DEF ParentIn
<1>3. CASE AboveIn(f, i) # {}
  <2> DEFINE p == CHOOSE j \in AboveIn(f, i) : \A k \in AboveIn(f, i) : k <= j
  <2>1. \E j \in AboveIn(f, i) : \A k \in AboveIn(f, i) : k <= j
    BY <1>1, <1>3, GreatestExists
  <2>2. p \in AboveIn(f, i) /\ \A k \in AboveIn(f, i) : k <= p
    BY <2>1
  <2>3. ParentIn(f, i) = p
    BY <1>3 DEF ParentIn
  <2> HIDE DEF p
  <2>4. p \in 1..(i - 1)
    BY <1>1, <2>2
  <2>5. p \in Nat /\ p < i
    BY <2>4
  <2> QED
    BY <1>3, <2>2, <2>3, <2>5
<1> QED
  BY <1>2, <1>3

(* So a path is that of the line it belongs to with its own key behind it.  *)
LEMMA PathInIs ==
  ASSUME NEW f
  PROVE  /\ PathIn(f)[0] = <<>>
         /\ \A i \in Nat : i # 0 =>
              PathIn(f)[i] = Append(PathIn(f)[ParentIn(f, i)], f[i].key)
<1> DEFINE parent == [i \in Nat |-> ParentIn(f, i)]
           key == [i \in Nat |-> f[i].key]
<1>1. \A i \in Nat : i # 0 => parent[i] \in Nat /\ parent[i] < i
  <2> TAKE i \in Nat
  <2> HAVE i # 0
  <2>1. ParentIn(f, i) \in Nat /\ ParentIn(f, i) < i
    BY ParentIsAbove
  <2> QED
    BY <2>1
<1>2. \A i \in Nat : parent[i] = ParentIn(f, i) /\ key[i] = f[i].key
  OBVIOUS
<1> HIDE DEF parent, key
<1>3. PICK g : g = [i \in Nat |-> IF i = 0 THEN <<>>
                                 ELSE Append(g[parent[i]], key[i])]
  BY <1>1, PathsExist, ZenonT(60)
<1>4. [i \in Nat |-> IF i = 0 THEN <<>> ELSE Append(g[parent[i]], key[i])] =
        [i \in Nat |-> IF i = 0 THEN <<>> ELSE Append(g[ParentIn(f, i)], f[i].key)]
  BY <1>2
<1>5. IsPathIn(f, g)
  BY <1>3, <1>4 DEF IsPathIn
<1>6. IsPathIn(f, PathIn(f))
  BY <1>5 DEF PathIn
<1> DEFINE P == PathIn(f)
<1>7. P = [i \in Nat |-> IF i = 0 THEN <<>> ELSE Append(P[ParentIn(f, i)], f[i].key)]
  BY <1>6 DEF IsPathIn
<1> HIDE DEF P
<1>8. P[0] = <<>>
  BY <1>7
<1>9. \A i \in Nat : i # 0 => P[i] = Append(P[ParentIn(f, i)], f[i].key)
  BY <1>7
<1> QED
  BY <1>8, <1>9 DEF P

(* What a line is made of.                                                  *)
LEMMA LineFields ==
  /\ \A l \in Line : l.indent \in Nat
  /\ \A l \in Line : l.key \in STRING
<1>1. \A l \in Line : l.indent \in Nat
  BY DEF Line
<1>2. \A l \in Line : l.key \in STRING
  BY DEF Line
<1> QED
  BY <1>1, <1>2

(* Paths are sequences of keys.                                             *)
LEMMA PathsAreKeys ==
  ASSUME NEW f \in Seq(Line), NEW i \in 0..Len(f)
  PROVE  PathIn(f)[i] \in Seq(STRING)
<1> DEFINE S == {n \in Nat : \A j \in 0..n : j <= Len(f) => PathIn(f)[j] \in Seq(STRING)}
<1>1. 0 \in S
  <2>1. \A j \in 0..0 : j = 0
    OBVIOUS
  <2>2. PathIn(f)[0] \in Seq(STRING)
    <3>1. PathIn(f)[0] = <<>>
      BY PathInIs
    <3>2. <<>> \in Seq(STRING)
      OBVIOUS
    <3> QED
      BY <3>1, <3>2
  <2> QED
    BY <2>1, <2>2
<1>2. ASSUME NEW n \in Nat, n \in S PROVE n + 1 \in S
  <2>1. ASSUME n + 1 <= Len(f) PROVE PathIn(f)[n + 1] \in Seq(STRING)
    <3> DEFINE p == ParentIn(f, n + 1)
    <3>1. n + 1 \in Nat /\ n + 1 # 0 /\ n + 1 \in 1..Len(f)
      BY <2>1
    <3>2. p \in Nat /\ p < n + 1
      BY <3>1, ParentIsAbove
    <3>3. PathIn(f)[n + 1] = Append(PathIn(f)[p], f[n + 1].key)
      BY <3>1, PathInIs
    <3> HIDE DEF p
    <3>4. p \in 0..n /\ p <= Len(f)
      BY <2>1, <3>2
    <3>5. PathIn(f)[p] \in Seq(STRING)
      BY <1>2, <3>4
    <3>6. f[n + 1] \in Line
      BY <3>1
    <3>7. f[n + 1].key \in STRING
      BY <3>6, LineFields
    <3> QED
      BY <3>3, <3>5, <3>7
  <2>2. \A j \in 0..(n + 1) : j \in 0..n \/ j = n + 1
    OBVIOUS
  <2> QED
    BY <1>2, <2>1, <2>2
<1> HIDE DEF S
<1>3. \A n \in Nat : n \in S
  BY <1>1, <1>2, Induction
<1>4. i \in S
  BY <1>3
<1> QED
  BY <1>4 DEF S

(* The paths the property speaks of are those: a line that is read later    *)
(* does not change where the earlier ones belong.                           *)
LEMMA PathsAgree ==
  ASSUME file \in Seq(Line), line \in 0..Len(file)
  PROVE  /\ Entries = EntriesIn(file, line)
         /\ \A i \in 0..line : PathOf[i] = PathIn(file)[i]
<1>1. Entries = EntriesIn(file, line)
  BY DEF Entries, EntriesIn
<1> DEFINE above(i) == {j \in Entries : j < i /\ file[j].indent < file[i].indent}
<1>2. \A i \in Nat : i # 0 => ParentOf(i) \in Nat /\ ParentOf(i) < i
  <2> TAKE i \in Nat
  <2> HAVE i # 0
  <2>1. above(i) \in SUBSET (1..(i - 1)) /\ i - 1 \in Nat
    BY <1>1 DEF EntriesIn
  <2>2. CASE above(i) = {}
    BY <2>2 DEF ParentOf
  <2>3. CASE above(i) # {}
    <3> DEFINE S == above(i)
               p == CHOOSE j \in S : \A k \in S : k <= j
    <3>1. ParentOf(i) = p
      BY <2>3 DEF ParentOf
    <3>2. S \in SUBSET (1..(i - 1)) /\ S # {}
      BY <2>1, <2>3
    <3> HIDE DEF S
    <3>3. \E j \in S : \A k \in S : k <= j
      BY <2>1, <3>2, GreatestExists
    <3>4. p \in S
      BY <3>3
    <3> HIDE DEF p
    <3>5. p \in 1..(i - 1)
      BY <3>2, <3>4
    <3> QED
      BY <3>1, <3>5
  <2> QED
    BY <2>2, <2>3
<1>3. \A i \in 1..line : ParentOf(i) = ParentIn(file, i)
  <2> TAKE i \in 1..line
  <2>1. above(i) = AboveIn(file, i)
    BY DEF AboveIn, EntriesIn, Entries
  <2>2. ParentOf(i) = IF above(i) = {} THEN 0
                      ELSE CHOOSE j \in above(i) : \A k \in above(i) : k <= j
    BY DEF ParentOf
  <2> HIDE DEF above
  <2> QED
    BY <2>1, <2>2 DEF ParentIn
<1> DEFINE parent == [i \in Nat |-> ParentOf(i)]
           key == [i \in Nat |-> file[i].key]
<1>4. \A i \in Nat : i # 0 => parent[i] \in Nat /\ parent[i] < i
  BY <1>2
<1>5. \A i \in Nat : parent[i] = ParentOf(i) /\ key[i] = file[i].key
  OBVIOUS
<1> HIDE DEF parent, key, above
<1>6. PICK g : g = [i \in Nat |-> IF i = 0 THEN <<>>
                                 ELSE Append(g[parent[i]], key[i])]
  BY <1>4, PathsExist, ZenonT(60)
<1>7. [i \in Nat |-> IF i = 0 THEN <<>> ELSE Append(g[parent[i]], key[i])] =
        [i \in Nat |-> IF i = 0 THEN <<>> ELSE Append(g[ParentOf(i)], file[i].key)]
  BY <1>5
<1> DEFINE Is(h) == h = [i \in Nat |-> IF i = 0 THEN <<>>
                                      ELSE Append(h[ParentOf(i)], file[i].key)]
           P == CHOOSE h : Is(h)
<1>8. Is(g)
  BY <1>6, <1>7
<1>9. PathOf = P
  BY DEF PathOf
<1>10. Is(P)
  <2> HIDE DEF Is
  <2> QED
    BY <1>8
<1> HIDE DEF P
<1>11. /\ PathOf[0] = <<>>
       /\ \A i \in Nat : i # 0 => PathOf[i] = Append(PathOf[ParentOf(i)], file[i].key)
  <2>1. P = [i \in Nat |-> IF i = 0 THEN <<>>
                           ELSE Append(P[ParentOf(i)], file[i].key)]
    BY <1>10
  <2>2. P[0] = <<>>
    BY <2>1
  <2>3. \A i \in Nat : i # 0 => P[i] = Append(P[ParentOf(i)], file[i].key)
    BY <2>1
  <2> QED
    BY <1>9, <2>2, <2>3
<1> DEFINE S == {n \in Nat : \A i \in 0..n : i <= line => PathOf[i] = PathIn(file)[i]}
<1>12. 0 \in S
  <2>1. \A i \in 0..0 : i = 0
    OBVIOUS
  <2> QED
    BY <1>11, <2>1, PathInIs
<1>13. ASSUME NEW n \in Nat, n \in S PROVE n + 1 \in S
  <2>1. ASSUME n + 1 <= line PROVE PathOf[n + 1] = PathIn(file)[n + 1]
    <3> DEFINE p == ParentOf(n + 1)
    <3>1. n + 1 \in Nat /\ n + 1 # 0 /\ n + 1 \in 1..line
      BY <2>1
    <3>2. p \in Nat /\ p < n + 1 /\ p = ParentIn(file, n + 1)
      BY <1>2, <1>3, <3>1
    <3>3. PathOf[n + 1] = Append(PathOf[p], file[n + 1].key)
      BY <1>11, <3>1
    <3>4. PathIn(file)[n + 1] = Append(PathIn(file)[p], file[n + 1].key)
      BY <3>1, <3>2, PathInIs
    <3> HIDE DEF p
    <3>5. p \in 0..n /\ p <= line
      BY <2>1, <3>2
    <3>6. PathOf[p] = PathIn(file)[p]
      BY <1>13, <3>5
    <3> QED
      BY <3>3, <3>4, <3>6
  <2>2. \A i \in 0..(n + 1) : i \in 0..n \/ i = n + 1
    OBVIOUS
  <2> QED
    BY <1>13, <2>1, <2>2
<1> HIDE DEF S
<1>14. \A n \in Nat : n \in S
  BY <1>12, <1>13, Induction
<1>15. \A i \in 0..line : PathOf[i] = PathIn(file)[i]
  <2> TAKE i \in 0..line
  <2>1. i \in S /\ i \in 0..i /\ i <= line
    BY <1>14
  <2> QED
    BY <2>1 DEF S
<1> QED
  BY <1>1, <1>15

-----------------------------------------------------------------------------
(* Paths and their beginnings.                                              *)
Path == Seq(STRING)

(* IsPrefix(), element by element.                                          *)
LEMMA PrefixMeans ==
  ASSUME NEW s \in Path, NEW t \in Path
  PROVE  IsPrefix(s, t) <=> Len(s) <= Len(t) /\ \A i \in 1..Len(s) : s[i] = t[i]
  BY DEF IsPrefix, Path

(* A beginning of a beginning is one; the path itself is one.               *)
LEMMA PrefixOrder ==
  ASSUME NEW r \in Path, NEW s \in Path, NEW t \in Path
  PROVE  /\ IsPrefix(s, s)
         /\ IsPrefix(r, s) /\ IsPrefix(s, t) => IsPrefix(r, t)
         /\ IsPrefix(r, s) /\ Len(s) <= Len(r) => r = s
<1>1. Len(r) \in Nat /\ Len(s) \in Nat /\ Len(t) \in Nat
  BY DEF Path
<1>2. IsPrefix(s, s)
  BY <1>1, PrefixMeans
<1>3. IsPrefix(r, s) /\ IsPrefix(s, t) => IsPrefix(r, t)
  <2> SUFFICES ASSUME IsPrefix(r, s), IsPrefix(s, t) PROVE IsPrefix(r, t)
    OBVIOUS
  <2>1. Len(r) <= Len(s) /\ \A i \in 1..Len(r) : r[i] = s[i]
    BY PrefixMeans
  <2>2. Len(s) <= Len(t) /\ \A i \in 1..Len(s) : s[i] = t[i]
    BY PrefixMeans
  <2>3. Len(r) <= Len(t) /\ \A i \in 1..Len(r) : r[i] = t[i]
    BY <1>1, <2>1, <2>2
  <2> QED
    BY <2>3, PrefixMeans
<1>4. IsPrefix(r, s) /\ Len(s) <= Len(r) => r = s
  <2> SUFFICES ASSUME IsPrefix(r, s), Len(s) <= Len(r) PROVE r = s
    OBVIOUS
  <2>1. Len(r) <= Len(s) /\ \A i \in 1..Len(r) : r[i] = s[i]
    BY PrefixMeans
  <2>2. Len(r) = Len(s)
    BY <1>1, <2>1
  <2> QED
    BY <2>1, <2>2, SeqEqual DEF Path
<1> QED
  BY <1>2, <1>3, <1>4

(* A beginning of a longer path by one key is the path or a beginning of    *)
(* what it was made from.                                                   *)
LEMMA PrefixOfLonger ==
  ASSUME NEW s \in Path, NEW key \in STRING, NEW r \in Path,
         IsPrefix(r, Append(s, key))
  PROVE  r = Append(s, key) \/ IsPrefix(r, s)
<1> DEFINE t == Append(s, key)
<1>1. /\ t \in Path /\ Len(t) = Len(s) + 1 /\ Len(s) \in Nat /\ Len(r) \in Nat
      /\ \A i \in 1..Len(s) : t[i] = s[i]
  <2>1. s \in Seq(STRING) /\ r \in Seq(STRING)
    BY DEF Path
  <2>2. t \in Seq(STRING) /\ Len(t) = Len(s) + 1
    BY <2>1, AppendProperties
  <2>3. Len(s) \in Nat /\ Len(r) \in Nat
    BY <2>1
  <2>4. \A i \in 1..Len(s) : t[i] = s[i]
    BY <2>1
  <2> QED
    BY <2>2, <2>3, <2>4 DEF Path
<1> HIDE DEF t
<1>2. Len(r) <= Len(t) /\ \A i \in 1..Len(r) : r[i] = t[i]
  <2>1. IsPrefix(r, t)
    BY DEF t
  <2> QED
    BY <1>1, <2>1, PrefixMeans
<1>3. CASE Len(r) = Len(t)
  <2>1. r = t
    BY <1>1, <1>2, <1>3, SeqEqual DEF Path
  <2> QED
    BY <2>1 DEF t
<1>4. CASE Len(r) # Len(t)
  <2>1. Len(r) <= Len(s)
    BY <1>1, <1>2, <1>4
  <2>2. \A i \in 1..Len(r) : r[i] = s[i]
    BY <1>1, <1>2, <2>1
  <2> QED
    BY <2>1, <2>2, PrefixMeans
<1> QED
  BY <1>3, <1>4

-----------------------------------------------------------------------------
(* What the first n lines of a file f say, and a tree that says it.         *)
LiveIn(f, n) ==
  {i \in EntriesIn(f, n) :
     \A j \in EntriesIn(f, n) : j > i => ~IsPrefix(PathIn(f)[j], PathIn(f)[i])}

RepeatsIn(f, i) ==
  \E j \in EntriesIn(f, i - 1) :
    /\ PathIn(f)[j] = PathIn(f)[i]
    /\ \A k \in EntriesIn(f, i - 1) :
         j < k => ~IsStrictPrefix(PathIn(f)[k], PathIn(f)[j])

(* The node of a line, but for the text that a repeated one may have lost.  *)
NodeOf(f, i, t, b) ==
  \/ t[PathIn(f)[i]] = Node(f[i])
  \/ /\ b = "cleared" /\ RepeatsIn(f, i)
     /\ t[PathIn(f)[i]] = [scalar |-> Node(f[i]).scalar,
                           text |-> NoText, comment |-> FALSE]

TreeSays(f, n, t, b) ==
  /\ DOMAIN t = {<<>>} \cup {PathIn(f)[i] : i \in LiveIn(f, n)}
  /\ \A i \in LiveIn(f, n) : NodeOf(f, i, t, b)

(* Nothing hangs in the air.                                                *)
Rooted(t) == \A q \in DOMAIN t : \A p \in Path : IsPrefix(p, q) => p \in DOMAIN t

(* One line more is one that is live, and the end of those it takes the     *)
(* place of.                                                                *)
LEMMA OneMoreLive ==
  ASSUME NEW f \in Seq(Line), NEW n \in Nat, n + 1 <= Len(f), f[n + 1].key # NoKey
  PROVE  /\ EntriesIn(f, n + 1) = EntriesIn(f, n) \cup {n + 1}
         /\ n + 1 \notin EntriesIn(f, n)
         /\ LiveIn(f, n + 1) =
              {i \in LiveIn(f, n) : ~IsPrefix(PathIn(f)[n + 1], PathIn(f)[i])}
                \cup {n + 1}
<1>1. EntriesIn(f, n + 1) = EntriesIn(f, n) \cup {n + 1}
  <2>1. \A i : i \in 1..(n + 1) <=> i \in 1..n \/ i = n + 1
    OBVIOUS
  <2> QED
    BY <2>1 DEF EntriesIn
<1>2. \A i \in EntriesIn(f, n) : i \in Nat /\ i < n + 1
  BY DEF EntriesIn
<1>3. n + 1 \in LiveIn(f, n + 1)
  <2>1. \A j \in EntriesIn(f, n + 1) : ~(j > n + 1)
    BY <1>1, <1>2
  <2> QED
    BY <1>1, <2>1 DEF LiveIn
<1>4. ASSUME NEW i, i # n + 1
      PROVE  i \in LiveIn(f, n + 1) <=>
               i \in LiveIn(f, n) /\ ~IsPrefix(PathIn(f)[n + 1], PathIn(f)[i])
  <2>1. i \in EntriesIn(f, n + 1) <=> i \in EntriesIn(f, n)
    BY <1>1, <1>4
  <2>2. i \in EntriesIn(f, n) => n + 1 > i
    BY <1>2
  <2> QED
    BY <1>1, <2>1, <2>2 DEF LiveIn
<1>5. n + 1 \notin EntriesIn(f, n) /\ n + 1 \notin LiveIn(f, n)
  BY <1>2 DEF LiveIn
<1> QED
  BY <1>1, <1>3, <1>4, <1>5

(* What emplace() and the assignment make of a tree that says what n lines  *)
(* say, when the path is that of the next line and the map it goes into is  *)
(* there.                                                                   *)
LEMMA InsertedSays ==
  ASSUME NEW f \in Seq(Line), NEW n \in Nat, n + 1 <= Len(f), f[n + 1].key # NoKey,
         TreeSays(f, n, tree, build), Rooted(tree),
         PathIn(f)[ParentIn(f, n + 1)] \in DOMAIN tree,
         NEW t, t = Inserted(PathIn(f)[n + 1], Node(f[n + 1]))
  PROVE  /\ TreeSays(f, n + 1, t, build) /\ Rooted(t)
         /\ PathIn(f)[n + 1] \in DOMAIN t
         /\ \A q \in DOMAIN tree :
              q \in DOMAIN t \/ IsStrictPrefix(PathIn(f)[n + 1], q)
<1> DEFINE P == PathIn(f)
           p == P[n + 1]
           node == Node(f[n + 1])
           L == LiveIn(f, n)
           up == P[ParentIn(f, n + 1)]
           key == f[n + 1].key
<1>1. /\ n + 1 \in Nat /\ n + 1 # 0 /\ n + 1 \in 0..Len(f) /\ n + 1 \in 1..Len(f)
      /\ n + 1 - 1 = n
  OBVIOUS
<1>2. key \in STRING
  BY <1>1, LineFields
<1>3. p = Append(up, key)
  BY <1>1, PathInIs
<1>4. /\ L \subseteq EntriesIn(f, n) /\ EntriesIn(f, n) \subseteq 1..n
      /\ \A i \in 1..n : i \in 0..Len(f)
  BY DEF LiveIn, EntriesIn
<1>5. p \in Path /\ \A i \in L : P[i] \in Path
  <2>1. \A i \in 0..Len(f) : P[i] \in Path
    BY PathsAreKeys DEF Path
  <2> QED
    BY <1>1, <1>4, <2>1
<1>6. up \in Path
  <2>1. ParentIn(f, n + 1) \in Nat /\ ParentIn(f, n + 1) < n + 1
    BY <1>1, ParentIsAbove
  <2>2. ParentIn(f, n + 1) \in 0..Len(f)
    BY <1>1, <2>1
  <2> QED
    BY <2>2, PathsAreKeys DEF Path
<1>7. /\ EntriesIn(f, n + 1) = EntriesIn(f, n) \cup {n + 1}
      /\ n + 1 \notin EntriesIn(f, n)
      /\ LiveIn(f, n + 1) = {i \in L : ~IsPrefix(p, P[i])} \cup {n + 1}
  BY OneMoreLive
<1>8. /\ DOMAIN tree = {<<>>} \cup {P[i] : i \in L}
      /\ \A i \in L : NodeOf(f, i, tree, build)
  BY DEF TreeSays
<1>9. p # <<>> /\ <<>> \in Path /\ ~IsPrefix(p, <<>>)
  <2>1. <<>> \in Path /\ Len(<<>>) = 0
    BY DEF Path
  <2>2. Len(p) > 0
    <3>1. up \in Seq(STRING)
      BY <1>6 DEF Path
    <3>2. Len(Append(up, key)) = Len(up) + 1 /\ Len(up) \in Nat
      BY <1>2, <3>1
    <3> HIDE DEF up, key, p
    <3> QED
      BY <1>3, <3>2
  <2> HIDE DEF p
  <2>3. p # <<>>
    BY <2>1, <2>2
  <2>4. ~IsPrefix(p, <<>>)
    BY <1>5, <2>1, <2>2, PrefixMeans
  <2> QED
    BY <2>1, <2>3, <2>4
<1>10. DOMAIN tree \subseteq Path
  BY <1>5, <1>8, <1>9
<1> HIDE DEF P, p, node, L, up, key
<1>11. \A q \in Path : IsPrefix(p, q) <=> q = p \/ IsStrictPrefix(p, q)
  BY <1>5, PrefixOrder DEF IsStrictPrefix
<1>12. t = Inserted(p, node)
  BY DEF p, node, P
<1>13. CASE p \notin DOMAIN tree
  <2>1. t = [q \in DOMAIN tree \cup {p} |-> IF q = p THEN node ELSE tree[q]]
    BY <1>12, <1>13 DEF Inserted
  <2>2. /\ DOMAIN t = DOMAIN tree \cup {p} /\ t[p] = node
        /\ \A q \in DOMAIN tree : q # p => t[q] = tree[q]
    BY <2>1
  <2>3. \A q \in DOMAIN tree : ~IsPrefix(p, q)
    BY <1>5, <1>13 DEF Rooted
  <2>4. LiveIn(f, n + 1) = L \cup {n + 1}
    BY <1>7, <1>8, <2>3
  <2>5. DOMAIN t = {<<>>} \cup {P[i] : i \in LiveIn(f, n + 1)}
    BY <1>8, <2>2, <2>4 DEF p
  <2>6. ASSUME NEW i \in LiveIn(f, n + 1) PROVE NodeOf(f, i, t, build)
    <3>1. CASE i = n + 1
      <4>1. t[PathIn(f)[n + 1]] = Node(f[n + 1])
        BY <2>2 DEF p, P, node
      <4>2. NodeOf(f, n + 1, t, build)
        BY <4>1 DEF NodeOf
      <4> QED
        BY <3>1, <4>2
    <3>2. CASE i # n + 1
      <4>1. i \in L
        BY <2>4, <3>2
      <4>2. P[i] \in DOMAIN tree /\ NodeOf(f, i, tree, build)
        BY <1>8, <4>1
      <4>3. P[i] # p
        BY <1>13, <4>2
      <4>4. t[PathIn(f)[i]] = tree[PathIn(f)[i]]
        BY <2>2, <4>2, <4>3 DEF P
      <4> QED
        BY <4>2, <4>4 DEF NodeOf
    <3> QED
      BY <3>1, <3>2
  <2>7. ASSUME NEW q \in DOMAIN t, NEW r \in Path, IsPrefix(r, q)
        PROVE  r \in DOMAIN t
    <3>1. CASE q = p
      <4>1. r = p \/ IsPrefix(r, up)
        <5>1. IsPrefix(r, Append(up, key))
          BY <1>3, <2>7, <3>1
        <5> QED
          BY <1>2, <1>3, <1>6, <5>1, PrefixOfLonger
      <4>2. IsPrefix(r, up) => r \in DOMAIN tree
        BY DEF Rooted, up, P
      <4> QED
        BY <2>2, <4>1, <4>2
    <3>2. CASE q \in DOMAIN tree
      BY <2>2, <2>7, <3>2 DEF Rooted
    <3> QED
      BY <2>2, <3>1, <3>2
  <2> QED
    BY <2>2, <2>5, <2>6, <2>7 DEF TreeSays, Rooted, p, P
<1>14. CASE p \in DOMAIN tree
  <2> DEFINE D == {q \in DOMAIN tree : ~IsStrictPrefix(p, q)}
  <2>1. t = [q \in D |-> IF q = p THEN Overwritten(node) ELSE tree[q]]
    BY <1>12, <1>14 DEF Inserted
  <2>2. p \in D
    BY <1>14 DEF IsStrictPrefix
  <2>3. /\ DOMAIN t = D /\ t[p] = Overwritten(node)
        /\ \A q \in D : q # p => t[q] = tree[q]
    BY <2>1, <2>2
  <2>4. D = {<<>>} \cup {P[i] : i \in LiveIn(f, n + 1)}
    <3>1. \A q \in DOMAIN tree : q \in D <=> q = p \/ ~IsPrefix(p, q)
      BY <1>10, <1>11, <2>2
    <3>2. <<>> \in D
      BY <1>8, <1>9, <3>1
    <3>3. \A i \in L : ~IsPrefix(p, P[i]) => P[i] \in D
      BY <1>8, <3>1
    <3>4. ASSUME NEW q \in D PROVE q \in {<<>>} \cup {P[i] : i \in LiveIn(f, n + 1)}
      <4>1. CASE q = p
        BY <1>7, <4>1 DEF p
      <4>2. CASE q # p
        <5>1. q \in DOMAIN tree /\ ~IsPrefix(p, q)
          BY <3>1, <4>2
        <5> QED
          BY <1>7, <1>8, <5>1
      <4> QED
        BY <4>1, <4>2
    <3>5. \A i \in LiveIn(f, n + 1) : P[i] \in D
      BY <1>7, <2>2, <3>3 DEF p
    <3> HIDE DEF D
    <3> QED
      BY <3>2, <3>4, <3>5
  <2>5. ASSUME NEW i \in LiveIn(f, n + 1) PROVE NodeOf(f, i, t, build)
    <3>1. CASE i = n + 1
      <4>1. PICK j \in L : P[j] = p
        BY <1>8, <1>9, <1>14
      <4>2. ASSUME NEW k \in EntriesIn(f, n), j < k PROVE ~IsStrictPrefix(P[k], P[j])
        <5>1. k > j
          BY <1>4, <4>2
        <5>2. ~IsPrefix(P[k], P[j])
          BY <4>1, <5>1 DEF LiveIn, L, P
        <5> QED
          BY <5>2 DEF IsStrictPrefix
      <4>3. RepeatsIn(f, n + 1)
        BY <1>1, <1>4, <4>1, <4>2 DEF RepeatsIn, p, P
      <4>4. build = "cleared" =>
              t[p] = [scalar |-> node.scalar, text |-> NoText, comment |-> FALSE]
        BY <2>3 DEF Overwritten, node, Node
      <4>5. build # "cleared" => t[p] = node
        BY <2>3 DEF Overwritten
      <4>6. NodeOf(f, n + 1, t, build)
        BY <4>3, <4>4, <4>5 DEF NodeOf, p, P, node
      <4> QED
        BY <3>1, <4>6
    <3>2. CASE i # n + 1
      <4>1. i \in L /\ ~IsPrefix(p, P[i])
        BY <1>7, <3>2
      <4>2. P[i] # p /\ P[i] \in D
        BY <1>5, <1>8, <1>11, <4>1
      <4>3. t[PathIn(f)[i]] = tree[PathIn(f)[i]]
        BY <2>3, <4>2 DEF P
      <4>4. NodeOf(f, i, tree, build)
        BY <1>8, <4>1
      <4> QED
        BY <4>3, <4>4 DEF NodeOf
    <3> QED
      BY <3>1, <3>2
  <2>6. ASSUME NEW q \in D, NEW r \in Path, IsPrefix(r, q) PROVE r \in D
    <3>1. r \in DOMAIN tree
      BY <2>6 DEF Rooted
    <3>2. ASSUME IsStrictPrefix(p, r) PROVE FALSE
      <4>1. IsPrefix(p, r) /\ p # r
        BY <3>2 DEF IsStrictPrefix
      <4>2. q \in Path
        BY <1>10
      <4>3. IsPrefix(p, q)
        BY <1>5, <2>6, <4>1, <4>2, PrefixOrder
      <4>4. q = p
        BY <4>3 DEF IsStrictPrefix
      <4>5. Len(p) <= Len(r)
        BY <1>5, <4>1, PrefixMeans
      <4>6. r = p
        BY <1>5, <2>6, <4>4, <4>5, PrefixOrder
      <4> QED
        BY <4>1, <4>6
    <3> QED
      BY <3>1, <3>2
  <2>7. TreeSays(f, n + 1, t, build)
    BY <2>3, <2>4, <2>5 DEF TreeSays, P
  <2>8. Rooted(t)
    BY <2>3, <2>6 DEF Rooted
  <2>9. p \in DOMAIN t /\ \A q \in DOMAIN tree : q \in DOMAIN t \/ IsStrictPrefix(p, q)
    BY <2>2, <2>3
  <2> QED
    BY <2>7, <2>8, <2>9 DEF p, P
<1> QED
  BY <1>13, <1>14

-----------------------------------------------------------------------------
(* The stack: the lines whose maps are open, the innermost last, with 0 for *)
(* the root.  Every line so far is covered by one that is open, is not      *)
(* further up and not indented more.                                        *)
OpenMap == [indent : Int, path : Path]
IndentIn(f, i) == IF i = 0 THEN -1 ELSE f[i].indent

Opens(f, n, q, open, t) ==
  /\ q \in Seq(Nat) /\ Len(q) = Len(open) /\ Len(q) # 0 /\ q[1] = 0
  /\ \A k \in 1..Len(q) :
       /\ k # 1 => q[k] \in EntriesIn(f, n)
       /\ open[k].indent = IndentIn(f, q[k]) /\ open[k].path = PathIn(f)[q[k]]
       /\ Len(PathIn(f)[q[k]]) = k - 1 /\ PathIn(f)[q[k]] \in DOMAIN t
  /\ \A k, m \in 1..Len(q) :
       k < m => q[k] < q[m] /\ IndentIn(f, q[k]) < IndentIn(f, q[m])
  /\ \A j \in EntriesIn(f, n) :
       \E k \in 1..Len(q) : j <= q[k] /\ IndentIn(f, q[k]) <= f[j].indent

(* The maps of the stack that a line of this indentation is in.             *)
Below(open, indent) == {k \in DOMAIN open : k = 1 \/ open[k].indent < indent}

(* The innermost of these is the one the line belongs to.                   *)
LEMMA BelongsToInnermost ==
  ASSUME NEW f \in Seq(Line), NEW n \in Nat, n + 1 <= Len(f), f[n + 1].key # NoKey,
         NEW open \in Seq(OpenMap), NEW q, NEW t, Opens(f, n, q, open, t),
         NEW m, m = Max(Below(open, f[n + 1].indent))
  PROVE  /\ m \in 1..Len(open) /\ q[m] = ParentIn(f, n + 1)
         /\ \A k \in 1..m : IndentIn(f, q[k]) < f[n + 1].indent
         /\ \A k \in 1..Len(q) : m < k => f[n + 1].indent <= IndentIn(f, q[k])
<1> DEFINE d == f[n + 1].indent
           B == Below(open, d)
           up == ParentIn(f, n + 1)
           A == AboveIn(f, n + 1)
<1>1. /\ n + 1 \in Nat /\ n + 1 # 0 /\ n + 1 \in 1..Len(f) /\ n + 1 - 1 = n
  OBVIOUS
<1>2. d \in Nat
  BY <1>1, LineFields
<1>3. /\ Len(open) \in Nat /\ DOMAIN open = 1..Len(open) /\ Len(open) = Len(q)
      /\ Len(open) # 0 /\ q[1] = 0 /\ q \in Seq(Nat)
  BY DEF Opens
<1>4. \A k \in 1..Len(q) : q[k] \in Nat
  BY <1>3
<1>5. /\ \A k \in 1..Len(q) : k # 1 => q[k] \in EntriesIn(f, n)
      /\ \A k \in 1..Len(q) : open[k].indent = IndentIn(f, q[k])
      /\ \A k, j \in 1..Len(q) :
           k < j => q[k] < q[j] /\ IndentIn(f, q[k]) < IndentIn(f, q[j])
      /\ \A j \in EntriesIn(f, n) :
           \E k \in 1..Len(q) : j <= q[k] /\ IndentIn(f, q[k]) <= f[j].indent
  BY DEF Opens
<1>6. \A j \in EntriesIn(f, n) : /\ j \in 1..n /\ f[j].indent \in Nat
                                /\ IndentIn(f, j) = f[j].indent
  <2> TAKE j \in EntriesIn(f, n)
  <2>1. j \in 1..n
    BY DEF EntriesIn
  <2>2. f[j] \in Line /\ j # 0
    BY <2>1
  <2> QED
    BY <2>1, <2>2, LineFields DEF IndentIn
<1>7. \A k \in 1..Len(q) : IndentIn(f, q[k]) \in Int
  <2> TAKE k \in 1..Len(q)
  <2>1. CASE k = 1
    BY <1>3, <2>1 DEF IndentIn
  <2>2. CASE k # 1
    <3>1. q[k] \in EntriesIn(f, n)
      BY <1>5, <2>2
    <3>2. IndentIn(f, q[k]) \in Nat
      BY <1>6, <3>1
    <3> QED
      BY <3>2
  <2> QED
    BY <2>1, <2>2
<1>8. 1 \in 1..Len(q) /\ 1 \in B /\ B \in SUBSET (1..Len(q))
  BY <1>3 DEF Below
<1>9. \A k \in 1..Len(q) : k \in B <=> k = 1 \/ IndentIn(f, q[k]) < d
  BY <1>3, <1>5 DEF Below
<1>10. IndentIn(f, q[1]) < d
  BY <1>2, <1>3 DEF IndentIn
<1>11. A = {j \in EntriesIn(f, n) : f[j].indent < d}
  BY <1>1 DEF AboveIn
<1>12. /\ A = {} => up = 0
       /\ A # {} => up \in A /\ \A k \in A : k <= up
  BY <1>1, ParentIsAbove
<1>13. m = Max(B)
  OBVIOUS
<1> HIDE DEF d, B, up, A
<1>14. m \in B /\ \A k \in B : k <= m
  BY <1>3, <1>8, <1>13, MaxIsGreatest
<1>15. m \in 1..Len(q) /\ IndentIn(f, q[m]) < d
  BY <1>8, <1>9, <1>10, <1>14
<1>16. ASSUME NEW k \in 1..m PROVE IndentIn(f, q[k]) < d
  <2>1. k \in 1..Len(q)
    BY <1>3, <1>15
  <2>2. CASE k = m
    BY <1>15, <2>2
  <2>3. CASE k # m
    <3>1. k < m
      BY <1>15, <2>3
    <3>2. IndentIn(f, q[k]) < IndentIn(f, q[m])
      BY <1>5, <1>15, <2>1, <3>1
    <3> QED
      BY <1>2, <1>7, <1>15, <2>1, <3>2
  <2> QED
    BY <2>2, <2>3
<1>17. ASSUME NEW k \in 1..Len(q), m < k PROVE d <= IndentIn(f, q[k])
  <2>1. k \notin B
    BY <1>14, <1>15, <1>17
  <2>2. ~(IndentIn(f, q[k]) < d)
    BY <1>9, <2>1
  <2> QED
    BY <1>2, <1>7, <2>2
<1>18. \A k \in 1..Len(q) : k \in B /\ k # 1 => q[k] \in A
  <2> TAKE k \in 1..Len(q)
  <2> HAVE k \in B /\ k # 1
  <2>1. q[k] \in EntriesIn(f, n) /\ IndentIn(f, q[k]) < d
    BY <1>5, <1>9
  <2> QED
    BY <1>6, <1>11, <2>1
<1>19. q[m] = up
  <2>1. CASE A = {}
    <3>1. m = 1
      BY <1>14, <1>15, <1>18, <2>1
    <3> QED
      BY <1>3, <1>12, <2>1, <3>1
  <2>2. CASE A # {}
    <3>1. up \in A /\ \A k \in A : k <= up
      BY <1>12, <2>2
    <3>2. up \in EntriesIn(f, n) /\ f[up].indent < d
      BY <1>11, <3>1
    <3>3. PICK k \in 1..Len(q) : up <= q[k] /\ IndentIn(f, q[k]) <= f[up].indent
      BY <1>5, <3>2
    <3>4. up \in 1..n /\ f[up].indent \in Nat
      BY <1>6, <3>2
    <3>5. IndentIn(f, q[k]) < d
      BY <1>2, <1>7, <3>2, <3>3, <3>4
    <3>6. k \in B /\ k # 1
      BY <1>3, <1>9, <3>3, <3>4, <3>5
    <3>7. q[k] \in A
      BY <1>18, <3>6
    <3>8. q[k] = up
      <4>1. q[k] <= up
        BY <3>1, <3>7
      <4> QED
        BY <1>4, <3>3, <3>4, <4>1
    <3>9. k <= m
      BY <1>14, <3>6
    <3>10. CASE k = m
      BY <3>8, <3>10
    <3>11. CASE k < m
      <4>1. q[k] < q[m]
        BY <1>5, <1>15, <3>11
      <4>2. m # 1
        BY <3>11
      <4>3. q[m] <= up
        BY <1>14, <1>15, <1>18, <3>1, <4>2
      <4> QED
        BY <1>4, <1>15, <3>4, <3>8, <4>1, <4>3
    <3> QED
      BY <1>15, <3>9, <3>10, <3>11
  <2> QED
    BY <2>1, <2>2
<1> QED
  BY <1>3, <1>15, <1>16, <1>17, <1>19 DEF d, up

(* What is cut from the end and what is pushed.                             *)
LEMMA CutAndPushed ==
  ASSUME NEW T, NEW s \in Seq(T), NEW m \in 1..Len(s), NEW x \in T,
         NEW new, new = Append(SubSeq(s, 1, m), x)
  PROVE  /\ new \in Seq(T) /\ Len(new) = m + 1
         /\ \A k \in 1..m : new[k] = s[k]
         /\ new[m + 1] = x
<1>1. /\ SubSeq(s, 1, m) \in Seq(T) /\ Len(SubSeq(s, 1, m)) = m
      /\ \A k \in 1..m : SubSeq(s, 1, m)[k] = s[k]
  OBVIOUS
<1> DEFINE c == SubSeq(s, 1, m)
<1>2. c \in Seq(T) /\ Len(c) = m /\ \A k \in 1..m : c[k] = s[k]
  BY <1>1
<1> HIDE DEF c
<1>3. new = Append(c, x)
  BY DEF c
<1>4. /\ new \in Seq(T) /\ Len(new) = m + 1 /\ new[m + 1] = x
      /\ \A k \in 1..m : new[k] = c[k]
  BY <1>2, <1>3, AppendProperties
<1> QED
  BY <1>2, <1>4

(* The positions up to one of them, and the next.                           *)
LEMMA PositionsUpTo ==
  ASSUME NEW n \in Nat, NEW m \in 1..n
  PROVE  /\ m \in Nat /\ m # 0 /\ 1 \in 1..m /\ m + 1 \in Nat /\ 1..m \subseteq 1..n
         /\ \A k \in 1..(m + 1) : k \in 1..m \/ k = m + 1
OBVIOUS

(* The line opens a map in the innermost one it is in; those that stay open *)
(* are in the tree still, as what it takes the place of lies deeper.        *)
LEMMA OpensNext ==
  ASSUME NEW f \in Seq(Line), NEW n \in Nat, n + 1 <= Len(f), f[n + 1].key # NoKey,
         NEW open \in Seq(OpenMap), NEW q, NEW t, Opens(f, n, q, open, t),
         DOMAIN t \subseteq Path,
         NEW m, m = Max(Below(open, f[n + 1].indent)),
         NEW u, PathIn(f)[n + 1] \in DOMAIN u,
         \A x \in DOMAIN t : x \in DOMAIN u \/ IsStrictPrefix(PathIn(f)[n + 1], x),
         NEW now, now = Append(SubSeq(open, 1, m),
                               [indent |-> f[n + 1].indent, path |-> PathIn(f)[n + 1]])
  PROVE  now \in Seq(OpenMap) /\ \E r : Opens(f, n + 1, r, now, u)
<1> DEFINE d == f[n + 1].indent
           P == PathIn(f)
           p == P[n + 1]
           top == [indent |-> d, path |-> p]
           r == Append(SubSeq(q, 1, m), n + 1)
<1>1. /\ n + 1 \in Nat /\ n + 1 # 0 /\ n + 1 \in 1..Len(f) /\ n + 1 \in 0..Len(f)
  OBVIOUS
<1>2. d \in Nat /\ f[n + 1].key \in STRING
  BY <1>1, LineFields
<1>3. p \in Path
  BY <1>1, PathsAreKeys DEF Path
<1>4. /\ m \in 1..Len(open) /\ q[m] = ParentIn(f, n + 1)
      /\ \A k \in 1..m : IndentIn(f, q[k]) < d
      /\ \A k \in 1..Len(q) : m < k => d <= IndentIn(f, q[k])
  BY BelongsToInnermost
<1>5. q \in Seq(Nat) /\ Len(q) = Len(open) /\ q[1] = 0
  BY DEF Opens
<1>6. /\ \A k \in 1..Len(q) : k # 1 => q[k] \in EntriesIn(f, n)
      /\ \A k \in 1..Len(q) : open[k].indent = IndentIn(f, q[k])
      /\ \A k \in 1..Len(q) : open[k].path = P[q[k]]
      /\ \A k \in 1..Len(q) : Len(P[q[k]]) = k - 1
      /\ \A k \in 1..Len(q) : P[q[k]] \in DOMAIN t
      /\ \A k, j \in 1..Len(q) :
           k < j => q[k] < q[j] /\ IndentIn(f, q[k]) < IndentIn(f, q[j])
      /\ \A j \in EntriesIn(f, n) :
           \E k \in 1..Len(q) : j <= q[k] /\ IndentIn(f, q[k]) <= f[j].indent
  BY DEF Opens
<1>7. top \in OpenMap /\ top.indent = d /\ top.path = p
  BY <1>2, <1>3 DEF OpenMap
<1>8. now = Append(SubSeq(open, 1, m), top)
  OBVIOUS
<1>9. p = Append(P[q[m]], f[n + 1].key)
  BY <1>1, <1>4, PathInIs
<1>10. /\ EntriesIn(f, n + 1) = EntriesIn(f, n) \cup {n + 1}
       /\ EntriesIn(f, n) \subseteq 1..n
  BY OneMoreLive DEF EntriesIn
<1>11. IndentIn(f, n + 1) = d
  BY <1>1 DEF IndentIn
<1> HIDE DEF d, P, p, top
<1>12. /\ now \in Seq(OpenMap) /\ Len(now) = m + 1 /\ now[m + 1] = top
       /\ \A k \in 1..m : now[k] = open[k]
  BY <1>4, <1>7, <1>8, CutAndPushed
<1>13. r = Append(SubSeq(q, 1, m), n + 1) /\ m \in 1..Len(q)
  BY <1>4, <1>5
<1> HIDE DEF r
<1>14. /\ r \in Seq(Nat) /\ Len(r) = m + 1 /\ r[m + 1] = n + 1
       /\ \A k \in 1..m : r[k] = q[k]
  <2>1. q \in Seq(Nat) /\ n + 1 \in Nat
    BY <1>1, <1>5
  <2> QED
    BY <1>13, <2>1, CutAndPushed, SMTT(30)
<1>15. m \in Nat /\ m # 0 /\ 1 \in 1..m /\ m + 1 \in Nat /\ 1..m \subseteq 1..Len(q)
       /\ \A k \in 1..(m + 1) : k \in 1..m \/ k = m + 1
  <2>1. Len(q) \in Nat
    BY <1>5
  <2> QED
    BY <1>13, <2>1, PositionsUpTo
<1>16. \A k \in 1..m : q[k] \in Nat /\ q[k] < n + 1
  <2> TAKE k \in 1..m
  <2>1. CASE k = 1
    BY <1>5, <2>1
  <2>2. CASE k # 1
    <3>1. q[k] \in 1..n
      BY <1>6, <1>10, <1>15, <2>2
    <3> QED
      BY <3>1
  <2> QED
    BY <2>1, <2>2
<1>17. Len(p) = m
  <2>1. P[q[m]] \in DOMAIN t /\ Len(P[q[m]]) = m - 1
    BY <1>6, <1>13
  <2>2. P[q[m]] \in Seq(STRING)
    BY <2>1 DEF Path
  <2>3. Len(p) = Len(P[q[m]]) + 1
    BY <1>2, <1>9, <2>2, AppendProperties
  <2> QED
    BY <1>15, <2>1, <2>3
<1>18. \A k \in 1..m : P[q[k]] \in DOMAIN u
  <2> TAKE k \in 1..m
  <2>1. k \in 1..Len(q)
    BY <1>15
  <2>2. P[q[k]] \in DOMAIN t /\ Len(P[q[k]]) = k - 1
    BY <1>6, <2>1
  <2>3. P[q[k]] \in Path
    BY <2>2
  <2>4. ~IsStrictPrefix(p, P[q[k]])
    <3>1. ~(Len(p) <= Len(P[q[k]]))
      BY <1>15, <1>17, <2>2
    <3> QED
      BY <1>3, <2>3, <3>1, PrefixMeans DEF IsStrictPrefix
  <2> QED
    BY <2>2, <2>4 DEF p, P
<1>19. /\ r \in Seq(Nat) /\ Len(r) = Len(now) /\ Len(r) # 0 /\ r[1] = 0
  BY <1>5, <1>12, <1>14, <1>15
<1>20. ASSUME NEW k \in 1..Len(r)
       PROVE  /\ k # 1 => r[k] \in EntriesIn(f, n + 1)
              /\ now[k].indent = IndentIn(f, r[k]) /\ now[k].path = P[r[k]]
              /\ Len(P[r[k]]) = k - 1 /\ P[r[k]] \in DOMAIN u
  <2>1. CASE k \in 1..m
    <3>1. k \in 1..Len(q) /\ r[k] = q[k] /\ now[k] = open[k]
      BY <1>12, <1>14, <1>15, <2>1
    <3> QED
      BY <1>6, <1>10, <1>18, <2>1, <3>1
  <2>2. CASE k = m + 1
    <3>1. r[k] = n + 1 /\ now[k] = top /\ k - 1 = m
      BY <1>12, <1>14, <1>15, <2>2
    <3>2. P[r[k]] = p
      BY <3>1 DEF p
    <3>3. p \in DOMAIN u
      BY DEF p, P
    <3> QED
      BY <1>7, <1>10, <1>11, <1>17, <3>1, <3>2, <3>3
  <2> QED
    BY <1>14, <1>15, <2>1, <2>2
<1>21. ASSUME NEW k \in 1..Len(r), NEW j \in 1..Len(r), k < j
       PROVE  r[k] < r[j] /\ IndentIn(f, r[k]) < IndentIn(f, r[j])
  <2>1. k \in 1..m /\ k \in 1..Len(q) /\ r[k] = q[k]
    <3>1. k \in 1..m
      BY <1>14, <1>15, <1>21
    <3> QED
      BY <1>14, <1>15, <3>1
  <2>2. CASE j \in 1..m
    <3>1. j \in 1..Len(q) /\ r[j] = q[j]
      BY <1>14, <1>15, <2>2
    <3> QED
      BY <1>6, <1>21, <2>1, <3>1
  <2>3. CASE j = m + 1
    <3>1. r[j] = n + 1
      BY <1>14, <2>3
    <3> QED
      BY <1>4, <1>11, <1>16, <2>1, <3>1
  <2> QED
    BY <1>14, <1>15, <2>2, <2>3
<1>22. ASSUME NEW j \in EntriesIn(f, n + 1)
       PROVE  \E k \in 1..Len(r) : j <= r[k] /\ IndentIn(f, r[k]) <= f[j].indent
  <2>1. m + 1 \in 1..Len(r) /\ r[m + 1] = n + 1
    BY <1>14, <1>15
  <2>2. CASE j = n + 1
    <3>1. j <= r[m + 1] /\ IndentIn(f, r[m + 1]) <= f[j].indent
      BY <1>1, <1>2, <1>11, <2>1, <2>2 DEF d
    <3> QED
      BY <2>1, <3>1
  <2>3. CASE j # n + 1
    <3>1. j \in EntriesIn(f, n) /\ j \in 1..n
      BY <1>10, <2>3
    <3>2. PICK k \in 1..Len(q) : j <= q[k] /\ IndentIn(f, q[k]) <= f[j].indent
      BY <1>6, <3>1
    <3>3. CASE k \in 1..m
      <4>1. k \in 1..Len(r) /\ r[k] = q[k]
        BY <1>14, <1>15, <3>3
      <4> QED
        BY <3>2, <4>1
    <3>4. CASE k \notin 1..m
      <4>1. m < k
        BY <1>15, <3>4
      <4>2. d <= IndentIn(f, q[k])
        BY <1>4, <4>1
      <4>3. IndentIn(f, q[k]) \in Nat /\ f[j].indent \in Nat
        <5>1. k # 1
          BY <1>15, <4>1
        <5>2. q[k] \in EntriesIn(f, n)
          BY <1>6, <5>1
        <5>3. q[k] \in 1..n /\ q[k] # 0
          BY <1>10, <5>2
        <5>4. q[k] \in 1..Len(f) /\ j \in 1..Len(f)
          BY <3>1, <5>3
        <5>5. f[q[k]] \in Line /\ f[j] \in Line
          BY <5>4
        <5>6. f[q[k]].indent \in Nat /\ f[j].indent \in Nat
          BY <5>5, LineFields
        <5> QED
          BY <5>3, <5>6 DEF IndentIn
      <4>4. d <= f[j].indent
        BY <1>2, <3>2, <4>2, <4>3
      <4>5. j <= n + 1
        BY <3>1
      <4> QED
        BY <1>11, <2>1, <4>4, <4>5
    <3> QED
      BY <3>3, <3>4
  <2> QED
    BY <2>2, <2>3
<1>23. Opens(f, n + 1, r, now, u)
  BY <1>19, <1>20, <1>21, <1>22 DEF Opens, P
<1> QED
  BY <1>12, <1>23

-----------------------------------------------------------------------------
(* What holds of the reader after every line.                               *)
ReaderInv ==
  /\ file \in Seq(Line) /\ line \in 0..Len(file)
  /\ stack \in Seq(OpenMap)
  /\ \E q : Opens(file, line, q, stack, tree)
  /\ TreeSays(file, line, tree, build) /\ Rooted(tree)

(* Before the first line, and when the tree is gone again.                  *)
LEMMA NothingRead ==
  ASSUME NEW f \in Seq(Line), NEW b
  PROVE  /\ BottomStack \in Seq(OpenMap)
         /\ \E q : Opens(f, 0, q, BottomStack, EmptyTree)
         /\ TreeSays(f, 0, EmptyTree, b) /\ Rooted(EmptyTree)
<1>1. EntriesIn(f, 0) = {} /\ LiveIn(f, 0) = {}
  BY DEF EntriesIn, LiveIn
<1>2. DOMAIN EmptyTree = {<<>>}
  BY DEF EmptyTree
<1>3. TreeSays(f, 0, EmptyTree, b)
  BY <1>1, <1>2 DEF TreeSays
<1>4. Rooted(EmptyTree)
  <2>1. ASSUME NEW p \in Path, IsPrefix(p, <<>>) PROVE p = <<>>
    <3>1. <<>> \in Path /\ Len(<<>>) = 0
      BY DEF Path
    <3>2. Len(p) <= 0
      BY <2>1, <3>1, PrefixMeans
    <3>3. Len(p) \in Nat
      BY <2>1 DEF Path
    <3>4. Len(<<>>) <= Len(p)
      BY <3>1, <3>3
    <3> QED
      BY <2>1, <3>1, <3>4, PrefixOrder
  <2> QED
    BY <1>2, <2>1 DEF Rooted
<1> DEFINE bottom == [indent |-> -1, path |-> <<>>]
           q == <<0>>
<1>5. bottom \in OpenMap /\ bottom.indent = -1 /\ bottom.path = <<>>
  <2>1. <<>> \in Path /\ -1 \in Int
    BY DEF Path
  <2> QED
    BY <2>1 DEF OpenMap
<1>6. BottomStack = <<bottom>>
  BY DEF BottomStack
<1> HIDE DEF bottom
<1>7. BottomStack \in Seq(OpenMap) /\ Len(BottomStack) = 1 /\ BottomStack[1] = bottom
  BY <1>5, <1>6
<1>8. q \in Seq(Nat) /\ Len(q) = 1 /\ q[1] = 0 /\ \A k \in 1..1 : k = 1
  OBVIOUS
<1> HIDE DEF q
<1>9. PathIn(f)[0] = <<>> /\ Len(<<>>) = 0 /\ IndentIn(f, 0) = -1
  BY PathInIs DEF IndentIn
<1>10. ASSUME NEW k \in 1..Len(q)
       PROVE  /\ k # 1 => q[k] \in EntriesIn(f, 0)
              /\ BottomStack[k].indent = IndentIn(f, q[k])
              /\ BottomStack[k].path = PathIn(f)[q[k]]
              /\ Len(PathIn(f)[q[k]]) = k - 1 /\ PathIn(f)[q[k]] \in DOMAIN EmptyTree
  <2>1. k = 1
    BY <1>8
  <2> QED
    BY <1>2, <1>5, <1>7, <1>8, <1>9, <2>1
<1>11. \A k, m \in 1..Len(q) :
         k < m => q[k] < q[m] /\ IndentIn(f, q[k]) < IndentIn(f, q[m])
  BY <1>8
<1>12. Opens(f, 0, q, BottomStack, EmptyTree)
  BY <1>1, <1>7, <1>8, <1>10, <1>11 DEF Opens
<1> QED
  BY <1>3, <1>4, <1>7, <1>12

(* A line without a key leaves everything as it was.                        *)
LEMMA NothingSaid ==
  ASSUME NEW f, NEW n \in Nat, f[n + 1].key = NoKey
  PROVE  /\ EntriesIn(f, n + 1) = EntriesIn(f, n)
         /\ LiveIn(f, n + 1) = LiveIn(f, n)
<1>1. \A i : i \in 1..(n + 1) <=> i \in 1..n \/ i = n + 1
  OBVIOUS
<1>2. EntriesIn(f, n + 1) = EntriesIn(f, n)
  BY <1>1 DEF EntriesIn
<1> QED
  BY <1>2 DEF LiveIn

(* Every line that is read keeps the invariant: the innermost open map it   *)
(* is in is the one it belongs to, and its path is the one it has.          *)
LEMMA ReaderStep == ReaderInv /\ ReadLine => ReaderInv'
<1> SUFFICES ASSUME ReaderInv, ReadLine PROVE ReaderInv'
  OBVIOUS
<1> DEFINE l == file[line + 1]
           m == Max(Below(stack, l.indent))
           p == PathIn(file)[line + 1]
<1>1. /\ file \in Seq(Line) /\ line \in 0..Len(file) /\ stack \in Seq(OpenMap)
      /\ TreeSays(file, line, tree, build) /\ Rooted(tree)
  BY DEF ReaderInv
<1>2. PICK q : Opens(file, line, q, stack, tree)
  BY DEF ReaderInv
<1>3. line < Len(file) /\ line' = line + 1 /\ file' = file /\ build' = build
  BY DEF ReadLine
<1>4. /\ line \in Nat /\ line + 1 <= Len(file) /\ line + 1 \in 0..Len(file)
      /\ line + 1 \in Nat /\ line + 1 # 0 /\ line + 1 \in 1..Len(file)
  BY <1>1, <1>3
<1>5. CASE l.key = NoKey
  <2>1. tree' = tree /\ stack' = stack
    BY <1>5 DEF ReadLine
  <2>2. /\ EntriesIn(file, line + 1) = EntriesIn(file, line)
        /\ LiveIn(file, line + 1) = LiveIn(file, line)
    BY <1>4, <1>5, NothingSaid
  <2>3. Opens(file, line + 1, q, stack, tree)
    BY <1>2, <2>2 DEF Opens
  <2>4. TreeSays(file, line + 1, tree, build)
    BY <1>1, <2>2 DEF TreeSays
  <2> QED
    BY <1>1, <1>3, <1>4, <2>1, <2>3, <2>4 DEF ReaderInv
<1>6. CASE l.key # NoKey
  <2>1. /\ m \in 1..Len(stack) /\ q[m] = ParentIn(file, line + 1)
    BY <1>1, <1>2, <1>4, <1>6, BelongsToInnermost
  <2>2. /\ stack[m].path = PathIn(file)[q[m]]
        /\ PathIn(file)[q[m]] \in DOMAIN tree
    BY <1>2, <2>1 DEF Opens
  <2>3. p = Append(stack[m].path, l.key)
    BY <1>4, <2>1, <2>2, PathInIs
  <2>4. Open(l.indent) = SubSeq(stack, 1, m)
    BY DEF Open, Below
  <2> DEFINE maps == SubSeq(stack, 1, m)
  <2>5. Last(maps) = stack[m]
    <3>1. Len(maps) = m /\ maps[m] = stack[m]
      BY <1>1, <2>1
    <3> QED
      BY <3>1 DEF Last
  <2> HIDE DEF m, p
  <2>6. /\ tree' = Inserted(p, Node(l))
        /\ stack' = Append(maps, [indent |-> l.indent, path |-> p])
    <3>1. LET path == Append(Last(Open(l.indent)).path, l.key)
          IN /\ tree' = Inserted(path, Node(l))
             /\ stack' = Append(Open(l.indent), [indent |-> l.indent, path |-> path])
      BY <1>6 DEF ReadLine
    <3> HIDE DEF l
    <3> QED
      BY <2>3, <2>4, <2>5, <3>1
  <2>7. /\ TreeSays(file, line + 1, tree', build) /\ Rooted(tree')
        /\ p \in DOMAIN tree'
        /\ \A x \in DOMAIN tree : x \in DOMAIN tree' \/ IsStrictPrefix(p, x)
    BY <1>1, <1>4, <1>6, <2>1, <2>2, <2>6, InsertedSays DEF p
  <2>8. DOMAIN tree \subseteq Path
    <3>1. \A i \in LiveIn(file, line) : i \in 0..Len(file)
      BY <1>1, <1>4 DEF LiveIn, EntriesIn
    <3>2. \A i \in LiveIn(file, line) : PathIn(file)[i] \in Path
      BY <1>1, <3>1, PathsAreKeys DEF Path
    <3>3. <<>> \in Path
      BY DEF Path
    <3> QED
      BY <1>1, <3>2, <3>3 DEF TreeSays
  <2>9. stack' \in Seq(OpenMap) /\ \E r : Opens(file, line + 1, r, stack', tree')
    BY <1>1, <1>2, <1>4, <1>6, <2>6, <2>7, <2>8, OpensNext DEF m, p
  <2> QED
    BY <1>1, <1>3, <1>4, <2>7, <2>9 DEF ReaderInv
<1> QED
  BY <1>5, <1>6

(* Before the first line, whichever file it is ...                          *)
LEMMA ReaderInit == SettingsInit => ReaderInv
<1> SUFFICES ASSUME SettingsInit PROVE ReaderInv
  OBVIOUS
<1>1. /\ file \in Seq(Line) /\ line = 0
      /\ tree = EmptyTree /\ stack = BottomStack
  BY SettingsAssumption DEF SettingsInit
<1>2. 0 \in 0..Len(file)
  BY <1>1
<1> QED
  BY <1>1, <1>2, NothingRead DEF ReaderInv

(* ... and when the limits are loaded and the tree is gone.                 *)
LEMMA ReaderGone == SettingsGone => ReaderInv'
<1> SUFFICES ASSUME SettingsGone PROVE ReaderInv'
  OBVIOUS
<1>1. /\ file' = <<>> /\ line' = 0
      /\ tree' = EmptyTree /\ stack' = BottomStack
  BY DEF SettingsGone
<1>2. <<>> \in Seq(Line) /\ 0 \in 0..Len(<<>>)
  OBVIOUS
<1> QED
  BY <1>1, <1>2, NothingRead DEF ReaderInv

(* The invariant is what the property says, in the property's own words.    *)
LEMMA ReaderReads == ReaderInv => TreeKeepsPlaces
<1> SUFFICES ASSUME ReaderInv PROVE TreeKeepsPlaces
  OBVIOUS
<1> DEFINE live == LiveEntries
           P == PathIn(file)
           E == EntriesIn(file, line)
<1>1. /\ file \in Seq(Line) /\ line \in 0..Len(file)
      /\ TreeSays(file, line, tree, build)
  BY DEF ReaderInv
<1>2. Entries = E /\ \A i \in 0..line : PathOf[i] = P[i]
  BY <1>1, PathsAgree
<1>3. line \in Nat
  BY <1>1
<1>4. \A i \in E : i \in 1..line /\ i \in 0..line /\ i \in Nat
  BY <1>3 DEF EntriesIn
<1> HIDE DEF P
<1>5. \A i \in E : PathOf[i] = P[i]
  BY <1>2, <1>4
<1>6. \A i \in E : \A j : j \in EntriesIn(file, i - 1) <=> j \in E /\ j < i
  BY <1>3, <1>4 DEF EntriesIn
<1> HIDE DEF E
<1>7. live = LiveIn(file, line)
  <2>1. \A i \in E : Live(i) <=> \A j \in E : j > i => ~IsPrefix(P[j], P[i])
    BY <1>2, <1>5 DEF Live
  <2> QED
    BY <1>2, <2>1 DEF LiveEntries, LiveIn, E, P
<1>8. \A i \in E : Repeats(i) <=> RepeatsIn(file, i)
  <2> TAKE i \in E
  <2>1. Repeats(i) <=>
          \E j \in E :
            /\ j < i /\ P[j] = P[i]
            /\ \A k \in E : j < k /\ k < i => ~IsStrictPrefix(P[k], P[j])
    BY <1>2, <1>5 DEF Repeats
  <2>2. RepeatsIn(file, i) <=>
          \E j \in EntriesIn(file, i - 1) :
            /\ P[j] = P[i]
            /\ \A k \in EntriesIn(file, i - 1) :
                 j < k => ~IsStrictPrefix(P[k], P[j])
    BY DEF RepeatsIn, P
  <2> QED
    BY <1>6, <2>1, <2>2
<1>9. live \subseteq E
  BY <1>2 DEF LiveEntries
<1>10. DOMAIN tree = {<<>>} \cup {PathOf[i] : i \in live}
  <2>1. DOMAIN tree = {<<>>} \cup {P[i] : i \in live}
    BY <1>1, <1>7 DEF TreeSays, P
  <2> HIDE DEF live
  <2> QED
    BY <1>5, <1>9, <2>1
<1>11. ASSUME NEW i \in live
       PROVE  \/ tree[PathOf[i]] = Node(file[i])
              \/ /\ build = "cleared" /\ Repeats(i)
                 /\ tree[PathOf[i]] = [scalar |-> Node(file[i]).scalar,
                                       text |-> NoText, comment |-> FALSE]
  <2>1. NodeOf(file, i, tree, build)
    BY <1>1, <1>7 DEF TreeSays
  <2>2. i \in E
    BY <1>9
  <2>3. PathOf[i] = P[i] /\ (Repeats(i) <=> RepeatsIn(file, i))
    BY <1>5, <1>8, <2>2
  <2> QED
    BY <2>1, <2>3 DEF NodeOf, P
<1> QED
  BY <1>10, <1>11 DEF TreeKeepsPlaces, PlacesAsWritten

(* Whatever the file holds: after every line every section and value is in  *)
(* its place, below the lines it is indented below (parse_yaml_file() and   *)
(* its stack of open maps), and is the last one of its name; where the      *)
(* library clears a node that is moved from, a repeated value may be empty, *)
(* and nothing else is lost.                                                *)
THEOREM TreeSaysFile == Spec => []TreeKeepsPlaces
<1>1. Init => ReaderInv
  BY ReaderInit DEF Init
<1>2. ReaderInv /\ [Next]_vars => ReaderInv'
  <2> SUFFICES ASSUME ReaderInv, [Next]_vars PROVE ReaderInv'
    OBVIOUS
  <2>1. CASE Read
    BY <2>1, ReaderStep DEF Read
  <2>2. CASE Load
    BY <2>2, ReaderGone DEF Load
  <2>3. UNCHANGED settings => ReaderInv'
    BY DEF settings, ReaderInv
  <2>4. CASE FirstHeartbeat
    BY <2>3, <2>4 DEF FirstHeartbeat
  <2>5. CASE NoHeartbeat
    BY <2>3, <2>5 DEF NoHeartbeat
  <2>6. ASSUME NEW m \in Messages, TakeMessage(m) PROVE ReaderInv'
    BY <2>3, <2>6 DEF TakeMessage
  <2>7. CASE TakeNothing
    BY <2>3, <2>7 DEF TakeNothing
  <2>8. CASE Tick
    BY <2>3, <2>8 DEF Tick
  <2>9. CASE UNCHANGED vars
    BY <2>3, <2>9 DEF vars
  <2> QED
    BY <2>1, <2>2, <2>4, <2>5, <2>6, <2>7, <2>8, <2>9 DEF Next
<1> QED
  BY <1>1, <1>2, ReaderReads, PTL DEF Spec
============================================================================
