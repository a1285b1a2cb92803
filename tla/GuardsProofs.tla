----------------------------- MODULE GuardsProofs -----------------------------
(***************************************************************************)
(* What the guards of a request promise, for every value of the constants. *)
(*                                                                         *)
(* Filtered sequences.  The facts about SequenceFilter that the lists of   *)
(* request times and of storm events are reasoned about with, and in       *)
(* AccountDataProofs the table of envelopes: what is picked is what was at *)
(* the positions kept, once each and in their order (Picked).  A place     *)
(* exists up to how many are kept since a set of naturals has a least      *)
(* element (Smallest), which is where the induction is.                    *)
(*                                                                         *)
(* Budgets.  What a bucket has left, with what it has given out since any  *)
(* of its grants, was paid for by a full bucket and the refill since that  *)
(* grant (Paid); and the bucket that denied an account was not used since  *)
(* (DeniedRightly).                                                        *)
(*                                                                         *)
(* Storms.  The events a user is charged with are a selection of those     *)
(* that took place, each as often (Noted), so that a list as long as the   *)
(* threshold shows as many events in the window; events that come later    *)
(* take none of those away.                                                *)
(*                                                                         *)
(* A pause.  Whatever the guards remember of an account or an address is   *)
(* not younger than its last request (PauseInv).                           *)
(***************************************************************************)
EXTENDS RequestGuards, Integers, FiniteSetTheorems, SequenceTheorems, WellFoundedInduction, TLAPS

(* Filtered sequences *)

\* A set of naturals has a least element.
LEMMA Smallest ==
  ASSUME NEW S, S \subseteq Nat, S # {}
  PROVE  \E m \in S : \A n \in S : m <= n
<1> DEFINE R == {p \in Nat \X Nat : p[1] < p[2]}
<1>1. IsWellFoundedOn(R, Nat)
  BY NatLessThanWellFounded DEF OpToRel
<1>2. PICK m \in S : \A y \in S : ~ (<<y, m>> \in R)
  BY <1>1, WFMin
<1>3. \A y \in S : ~ (y < m)
  BY <1>2
<1> QED BY <1>3

\* The place of a position is a number up to how many are kept, and grows.
Counting(N, K) ==
  /\ IsFiniteSet(K) /\ Cardinality(K) \in Nat
  /\ \A n \in Int : Place(K, n) \in Nat /\ Place(K, n) <= Cardinality(K)
  /\ \A n \in K : n \in Int /\ Place(K, n) = Place(K, n - 1) + 1
  /\ \A n \in Int : n \notin K => Place(K, n) = Place(K, n - 1)
  /\ Place(K, 0) = 0 /\ Place(K, N) = Cardinality(K)
  /\ \A n, p \in Int : n <= p => Place(K, n) <= Place(K, p)

LEMMA PlaceType ==
  ASSUME NEW N \in Nat, NEW K \in SUBSET (1 .. N)
  PROVE  Counting(N, K)
<1> DEFINE Upto(n) == {k \in K : k <= n}
<1>1. IsFiniteSet(K) /\ Cardinality(K) \in Nat
  <2>1. IsFiniteSet(1 .. N)
    BY FS_Interval
  <2> QED BY <2>1, FS_Subset, FS_CardinalityType
<1>2. ASSUME NEW n \in Int
      PROVE  IsFiniteSet(Upto(n)) /\ Cardinality(Upto(n)) \in 0 .. Cardinality(K)
  <2>1. Upto(n) \in SUBSET K
    OBVIOUS
  <2> HIDE DEF Upto
  <2>2. IsFiniteSet(Upto(n)) /\ Cardinality(Upto(n)) <= Cardinality(K)
    BY <1>1, <2>1, FS_Subset
  <2> QED BY <1>1, <2>2, FS_CardinalityType
<1>3. ASSUME NEW n \in K
      PROVE  Cardinality(Upto(n)) = Cardinality(Upto(n - 1)) + 1
  <2>0. \A k \in K : k \in Int /\ (k <= n <=> k <= n - 1 \/ k = n) /\ ~ (n <= n - 1)
    OBVIOUS
  <2>1. n \in Int /\ n - 1 \in Int /\ n \notin Upto(n - 1)
    BY <2>0
  <2>2. Upto(n) = Upto(n - 1) \cup {n}
    <3>1. n <= n
      BY <2>1
    <3> QED BY <2>0, <3>1
  <2> HIDE DEF Upto
  <2> QED BY <1>2, <2>1, <2>2, FS_AddElement
<1>4. ASSUME NEW n \in Int \ K
      PROVE  Upto(n) = Upto(n - 1)
  <2>1. ASSUME NEW k \in K
        PROVE  k <= n <=> k <= n - 1
    <3>1. k \in Int /\ k # n
      OBVIOUS
    <3> QED BY <3>1
  <2> QED BY <2>1
<1>5. Upto(0) = {} /\ Upto(N) = K
  <2>1. \A k \in K : k <= N /\ ~ (k <= 0)
    OBVIOUS
  <2> QED BY <2>1
<1>6. ASSUME NEW n \in Int, NEW p \in Int, n <= p
      PROVE  Cardinality(Upto(n)) <= Cardinality(Upto(p))
  <2>1. Upto(n) \in SUBSET Upto(p)
    <3>1. \A k \in K : k \in Int /\ (k <= n => k <= p)
      BY <1>6
    <3> QED BY <3>1
  <2> HIDE DEF Upto
  <2> QED BY <1>2, <2>1, FS_Subset
<1> HIDE DEF Upto
<1>7. \A n : Place(K, n) = Cardinality(Upto(n))
  BY DEF Place, Upto
<1>8. Cardinality(Upto(0)) = 0 /\ \A n \in K : n \in Int
  BY <1>5, FS_EmptySet
<1> QED BY <1>1, <1>2, <1>3, <1>4, <1>5, <1>6, <1>7, <1>8 DEF Counting

\* Each place up to how many are kept is that of one position, and only one.
LEMMA PlaceExists ==
  ASSUME NEW N \in Nat, NEW K \in SUBSET (1 .. N), NEW m \in 1 .. Cardinality(K)
  PROVE  \E n \in K : Place(K, n) = m
<1> DEFINE S == {n \in 0 .. N : Place(K, n) >= m}
<1>1. Counting(N, K)
  BY PlaceType
<1>2. N \in S /\ S \subseteq Nat
  BY <1>1 DEF Counting
<1> HIDE DEF S
<1>3. PICK n \in S : \A p \in S : n <= p
  BY <1>2, Smallest
<1>4. n \in 0 .. N /\ Place(K, n) >= m /\ n # 0
  BY <1>1, <1>3 DEF S, Counting
<1>5. n - 1 \in 0 .. N /\ n - 1 \notin S
  BY <1>3, <1>4
<1>6. Place(K, n - 1) < m
  BY <1>1, <1>5 DEF S, Counting
<1>7. n \in K
  BY <1>1, <1>4, <1>6 DEF Counting
<1>8. Place(K, n) = m
  <2>1. Place(K, n) \in Nat /\ Place(K, n - 1) \in Nat /\ Place(K, n) = Place(K, n - 1) + 1
    BY <1>1, <1>4, <1>7 DEF Counting
  <2> QED BY <1>4, <1>6, <2>1
<1> QED BY <1>7, <1>8

LEMMA PlaceGrows ==
  ASSUME NEW N \in Nat, NEW K \in SUBSET (1 .. N), NEW n \in K, NEW p \in K, n < p
  PROVE  Place(K, n) < Place(K, p)
<1>0. Counting(N, K)
  BY PlaceType
<1>1. n \in Int /\ p - 1 \in Int /\ p \in Int /\ n <= p - 1
  OBVIOUS
<1>2. /\ Place(K, n) \in Nat /\ Place(K, p - 1) \in Nat /\ Place(K, p) = Place(K, p - 1) + 1
      /\ Place(K, n) <= Place(K, p - 1)
  BY <1>0, <1>1 DEF Counting
<1> QED BY <1>2

\* The position an entry of the filtered sequence comes from
From(K, m) == CHOOSE n \in K : Place(K, n) = m

\* What is picked is what was there at the positions kept, each of them once and
\* in their order.
LEMMA Picked ==
  ASSUME NEW T, NEW q \in Seq(T), NEW K \in SUBSET DOMAIN q
  PROVE  /\ Cardinality(K) \in Nat /\ Cardinality(K) <= Len(q)
         /\ Pick(q, K) \in Seq(T) /\ Len(Pick(q, K)) = Cardinality(K)
         /\ \A m \in DOMAIN Pick(q, K) : From(K, m) \in K /\ Pick(q, K)[m] = q[From(K, m)]
         /\ \A m, l \in DOMAIN Pick(q, K) : m < l => From(K, m) < From(K, l)
         /\ \A n \in K : \E m \in DOMAIN Pick(q, K) : From(K, m) = n
<1> DEFINE N == Len(q)
           C == Cardinality(K)
           f == Pick(q, K)
<1>1. N \in Nat /\ DOMAIN q = 1 .. N /\ K \in SUBSET (1 .. N) /\ \A n \in K : q[n] \in T
  BY LenProperties
<1>2. C \in Nat /\ C <= N
  <2>1. IsFiniteSet(1 .. N) /\ Cardinality(1 .. N) = N
    BY <1>1, FS_Interval
  <2> QED BY <1>1, <2>1, FS_Subset, FS_CardinalityType
<1>3. f = [m \in 1 .. C |-> q[From(K, m)]]
  BY DEF Pick, From
<1>4. ASSUME NEW m \in 1 .. C
      PROVE  From(K, m) \in K /\ Place(K, From(K, m)) = m
  <2>1. \E n \in K : Place(K, n) = m
    BY <1>1, PlaceExists
  <2> QED BY <2>1 DEF From
<1>5. f \in Seq(T) /\ Len(f) = C /\ DOMAIN f = 1 .. C
  <2>1. f \in [1 .. C -> T]
    BY <1>1, <1>3, <1>4
  <2> HIDE DEF f, C
  <2>2. f \in Seq(T)
    BY <1>2, <2>1, IsASeq
  <2> QED BY <1>2, <2>1, <2>2, LenProperties
<1>6. ASSUME NEW m \in 1 .. C, NEW l \in 1 .. C, m < l
      PROVE  From(K, m) < From(K, l)
  <2>1. From(K, m) \in Nat /\ From(K, l) \in Nat /\ From(K, m) # From(K, l)
    BY <1>1, <1>4, <1>6
  <2>2. ~ From(K, l) < From(K, m)
    <3> SUFFICES ASSUME From(K, l) < From(K, m) PROVE FALSE
      OBVIOUS
    <3>1. Place(K, From(K, l)) < Place(K, From(K, m))
      BY <1>1, <1>4, PlaceGrows
    <3> QED BY <1>4, <1>6, <3>1
  <2> QED BY <2>1, <2>2
<1>7. ASSUME NEW n \in K
      PROVE  \E m \in 1 .. C : From(K, m) = n
  <2> DEFINE m == Place(K, n)
  <2>0. Counting(N, K)
    BY <1>1, PlaceType
  <2>1. n \in Int /\ Place(K, n - 1) \in 0 .. C /\ m = Place(K, n - 1) + 1 /\ m \in 0 .. C
    BY <2>0 DEF Counting
  <2>2. m \in 1 .. C
    BY <1>2, <2>1
  <2>3. From(K, m) \in K /\ Place(K, From(K, m)) = m
    BY <1>4, <2>2
  <2>4. From(K, m) \in Nat /\ n \in Nat
    BY <1>1, <2>3
  <2>5. ~ From(K, m) < n /\ ~ n < From(K, m)
    <3>1. From(K, m) < n => Place(K, From(K, m)) < Place(K, n)
      BY <1>1, <2>3, PlaceGrows
    <3>2. n < From(K, m) => Place(K, n) < Place(K, From(K, m))
      BY <1>1, <2>3, PlaceGrows
    <3> QED BY <2>1, <2>3, <3>1, <3>2
  <2> QED BY <2>2, <2>4, <2>5
<1>8. \A m \in DOMAIN f : From(K, m) \in K /\ f[m] = q[From(K, m)]
  BY <1>3, <1>4, <1>5
<1> QED BY <1>2, <1>5, <1>6, <1>7, <1>8
-----------------------------------------------------------------------------
(* Budgets: arithmetic *)

LEMMA Distributes ==
  ASSUME NEW a \in Int, NEW b \in Int, NEW c \in Int
  PROVE  (a + b) * c = a * c + b * c /\ a * c \in Int
BY SMT

LEMMA Product ==
  ASSUME NEW a \in Int, NEW b \in Int
  PROVE  a * b \in Int
BY SMT

LEMMA Monotone ==
  ASSUME NEW a \in Nat, NEW b \in Nat, NEW c \in Nat, a <= b
  PROVE  a * c <= b * c /\ a * c \in Nat
BY SMT

LEMMA AtLeastOneTime ==
  ASSUME NEW c \in Nat \ {0}, NEW w \in Nat
  PROVE  w <= c * w
BY SMT

LEMMA Quotient ==
  ASSUME NEW x \in Nat, NEW c \in Nat \ {0}
  PROVE  x \div c \in Nat /\ x < (x \div c + 1) * c
BY SMT

\* What a bucket of capacity cap has given out at the times of g, with the level it
\* was left at: each stretch of grants, with what is left, was paid for by a full
\* bucket and the refill since.
Paid(cap, level, at, g) ==
  /\ level \in Nat /\ level <= cap * Window /\ at \in Nat /\ g \in Seq(Nat)
  /\ \A i \in DOMAIN g :
       /\ g[i] <= at
       /\ (Len(g) - i + 1) * Window + level <= cap * Window + (at - g[i]) * cap
  /\ \A i, j \in DOMAIN g :
       i <= j => (j - i + 1) * Window <= cap * Window + (g[j] - g[i]) * cap

LEMMA PaidTypes ==
  ASSUME NEW cap \in Nat \ {0}, NEW level, NEW at, NEW g, Paid(cap, level, at, g),
         NEW i \in DOMAIN g
  PROVE  /\ level \in Nat /\ at \in Nat /\ Window \in Nat
         /\ g \in Seq(Nat) /\ Len(g) \in Nat /\ i \in 1 .. Len(g) /\ g[i] \in Nat /\ g[i] <= at
BY BudgetAssumption DEF Paid

\* A refill until t, of which the bucket keeps what it can hold.
LEMMA RefillKeeps ==
  ASSUME NEW cap \in Nat \ {0}, NEW level, NEW at, NEW g, Paid(cap, level, at, g),
         NEW t \in Nat, at <= t, NEW full \in Nat,
         full <= cap * Window, full <= level + (t - at) * cap
  PROVE  Paid(cap, full, t, g)
<1>1. ASSUME NEW i \in DOMAIN g
      PROVE  g[i] <= t /\ (Len(g) - i + 1) * Window + full <= cap * Window + (t - g[i]) * cap
  <2>1. level \in Nat /\ at \in Nat /\ Window \in Nat /\ Len(g) \in Nat /\ i \in Nat
        /\ g[i] \in Nat /\ g[i] <= at
    BY PaidTypes
  <2> DEFINE x == (Len(g) - i + 1) * Window
             y == (at - g[i]) * cap
             z == (t - at) * cap
             m == cap * Window
  <2>2. x + level <= m + y /\ full <= level + z
    BY DEF Paid
  <2>3. (t - g[i]) * cap = z + y
    <3>1. t - g[i] = (t - at) + (at - g[i]) /\ t - at \in Int /\ at - g[i] \in Int
      BY <2>1
    <3> QED BY <3>1, Distributes
  <2>4. x \in Int /\ y \in Int /\ z \in Int /\ m \in Int
    <3>1. Len(g) - i + 1 \in Int /\ at - g[i] \in Int /\ t - at \in Int
      BY <2>1
    <3> QED BY <2>1, <3>1, Product
  <2> HIDE DEF x, y, z, m
  <2>5. x + full <= m + (z + y)
    BY <2>1, <2>2, <2>4
  <2> QED BY <2>1, <2>3, <2>5 DEF x, m
<1> QED BY <1>1 DEF Paid

\* A token is taken.
LEMMA GrantKeeps ==
  ASSUME NEW cap \in Nat \ {0}, NEW level, NEW at, NEW g, Paid(cap, level, at, g),
         level >= Window
  PROVE  Paid(cap, level - Window, at, Append(g, at))
<1> DEFINE h == Append(g, at)
           n == Len(g) + 1
           m == cap * Window
<1>1. /\ level \in Nat /\ at \in Nat /\ Window \in Nat \ {0} /\ g \in Seq(Nat) /\ level <= m
  BY BudgetAssumption DEF Paid
<1>2. m \in Nat
  BY <1>1
<1>3. /\ h \in Seq(Nat) /\ n \in Nat /\ Len(h) = n /\ DOMAIN h = DOMAIN g \cup {n}
      /\ h[n] = at /\ \A i \in DOMAIN g : h[i] = g[i] /\ i \in Nat /\ i < n
  BY <1>1
<1>4. ASSUME NEW i \in DOMAIN g
      PROVE  /\ h[i] <= at
             /\ (n - i + 1) * Window + (level - Window) <= m + (at - h[i]) * cap
             /\ (n - i + 1) * Window <= m + (at - h[i]) * cap
  <2> DEFINE x == (Len(g) - i + 1) * Window
             y == (at - g[i]) * cap
  <2>1. Len(g) \in Nat /\ g[i] \in Nat /\ i \in Nat /\ g[i] <= at
    BY PaidTypes
  <2>2. x + level <= m + y
    BY DEF Paid
  <2>3. (n - i + 1) * Window = x + Window
    <3>1. n - i + 1 = (Len(g) - i + 1) + 1 /\ Len(g) - i + 1 \in Int
      BY <2>1
    <3>2. 1 * Window = Window
      BY <1>1
    <3> QED BY <1>1, <3>1, <3>2, Distributes
  <2>4. x \in Int /\ y \in Int
    <3>1. Len(g) - i + 1 \in Int /\ at - g[i] \in Int
      BY <1>1, <2>1
    <3> QED BY <1>1, <3>1, Product
  <2>5. h[i] = g[i]
    BY <1>3
  <2> HIDE DEF h, n, m, x, y
  <2>6. x + Window + (level - Window) <= m + y /\ x + Window <= m + y
    BY <1>1, <1>2, <2>2, <2>4
  <2> QED BY <2>1, <2>3, <2>5, <2>6 DEF y
<1>5. (n - n + 1) * Window = Window /\ (at - at) * cap = 0
  <2>1. n - n + 1 = 1 /\ at - at = 0
    BY <1>1, <1>3
  <2>2. 1 * Window = Window /\ 0 * cap = 0
    BY <1>1
  <2> QED BY <2>1, <2>2
<1>6. level - Window \in Nat /\ level - Window <= m
  BY <1>1, <1>2
<1> HIDE DEF h, n, m
<1>7. \A i \in DOMAIN h :
        h[i] <= at /\ (Len(h) - i + 1) * Window + (level - Window) <= m + (at - h[i]) * cap
  <2>1. at <= at /\ (n - n + 1) * Window + (level - Window) <= m + (at - at) * cap
    BY <1>1, <1>2, <1>5
  <2> QED BY <1>3, <1>4, <2>1
<1>8. ASSUME NEW i \in DOMAIN h, NEW j \in DOMAIN h, i <= j
      PROVE  (j - i + 1) * Window <= m + (h[j] - h[i]) * cap
  <2>1. CASE i = n /\ j = n
    <3>1. (n - n + 1) * Window <= m + (at - at) * cap
      BY <1>1, <1>2, <1>5
    <3> QED BY <1>3, <2>1, <3>1
  <2>2. CASE i \in DOMAIN g /\ j \in DOMAIN g
    <3>1. (j - i + 1) * Window <= m + (g[j] - g[i]) * cap
      BY <1>8, <2>2 DEF Paid, m
    <3> QED BY <1>3, <2>2, <3>1
  <2>3. CASE i \in DOMAIN g /\ j = n
    BY <1>3, <1>4, <2>3
  <2>4. ~ (i = n /\ j \in DOMAIN g)
    BY <1>3, <1>8
  <2> QED BY <1>3, <2>1, <2>2, <2>3, <2>4
<1>9. /\ level - Window \in Nat /\ level - Window <= cap * Window /\ at \in Nat
      /\ h \in Seq(Nat)
      /\ \A i \in DOMAIN h :
           /\ h[i] <= at
           /\ (Len(h) - i + 1) * Window + (level - Window) <= cap * Window + (at - h[i]) * cap
      /\ \A i, j \in DOMAIN h :
           i <= j => (j - i + 1) * Window <= cap * Window + (h[j] - h[i]) * cap
  BY <1>1, <1>3, <1>6, <1>7, <1>8 DEF m
<1> QED BY <1>9, Zenon DEF Paid, h

-----------------------------------------------------------------------------
(* The buckets *)

Denials == [bucket : Buckets, again : Nat]
Owner(b) == IF b[1] = "user" THEN b[3] ELSE Account[b[3]]

\* The bucket that denied an account's last request is its own, is short of a
\* token and was last used then.
DeniedRightly(u) ==
  LET b == denied[u].bucket
  IN  /\ Owner(b) = u
      /\ bucket[b].level < Window
      /\ denied[u].again = bucket[b].at + Most(1, (Window - bucket[b].level) \div CapOf(b))

GuardsInv ==
  /\ now \in Nat
  /\ bucket \in [Buckets -> [level : Nat, at : Nat]]
  /\ granted \in [Buckets -> Seq(Nat)]
  /\ denied \in [People -> Denials \cup {Never}]
  /\ \A b \in Buckets :
       bucket[b].at <= now /\ Paid(CapOf(b), bucket[b].level, bucket[b].at, granted[b])
  /\ \A u \in People : denied[u] # Never => DeniedRightly(u)

LEMMA CapType ==
  ASSUME NEW b \in Buckets
  PROVE  CapOf(b) \in Nat \ {0}
BY BudgetAssumption DEF Buckets, CapOf

LEMMA BucketsOf ==
  ASSUME NEW c \in Clients, NEW e \in Heavy
  PROVE  /\ Account[c] \in People
         /\ UserBucket(c, e) \in Buckets /\ SessionBucket(c, e) \in Buckets
         /\ UserBucket(c, e) # SessionBucket(c, e)
         /\ Owner(UserBucket(c, e)) = Account[c] /\ Owner(SessionBucket(c, e)) = Account[c]
BY DEF People, Buckets, UserBucket, SessionBucket, Owner

\* The level after the refill, which is all a bucket needs to allow.
LEMMA LevelKeeps ==
  ASSUME GuardsInv, NEW b \in Buckets
  PROVE  /\ Level(b) \in Nat
         /\ Paid(CapOf(b), Level(b), now, granted[b])
<1> DEFINE cap == CapOf(b)
           level == bucket[b].level
           at == bucket[b].at
           m == cap * Window
           z == (now - at) * cap
<1>1. cap \in Nat \ {0}
  BY CapType
<1>2. level \in Nat /\ at \in Nat /\ now \in Nat /\ at <= now /\ Paid(cap, level, at, granted[b])
  BY DEF GuardsInv
<1>3. m \in Nat
  BY <1>1, BudgetAssumption
<1>4. z \in Nat
  <2>1. now - at \in Nat /\ 0 * cap = 0
    BY <1>1, <1>2
  <2>2. 0 * cap <= (now - at) * cap
    BY <1>1, <2>1, Monotone
  <2> QED BY <1>1, <2>1, <2>2, Product
<1>5. Level(b) = Least(m, level + z)
  BY DEF Level
<1> HIDE DEF cap, level, at, m, z
<1>6. Least(m, level + z) \in Nat /\ Least(m, level + z) <= m /\ Least(m, level + z) <= level + z
  BY <1>2, <1>3, <1>4 DEF Least
<1>7. Level(b) <= cap * Window /\ Level(b) <= level + (now - at) * cap
  BY <1>5, <1>6 DEF m, z
<1>8. Paid(cap, Level(b), now, granted[b])
  BY <1>1, <1>2, <1>5, <1>6, <1>7, RefillKeeps
<1> QED BY <1>5, <1>6, <1>8 DEF cap

\* What a request takes and stamps.
LEMMA ChargesKeeps ==
  ASSUME GuardsInv, NEW given \in SUBSET Buckets, NEW full \in SUBSET Buckets,
         Charges(given, full), UNCHANGED now,
         \A b \in given : Allows(b), \A b \in full \ given : ~ Allows(b)
  PROVE  /\ bucket' \in [Buckets -> [level : Nat, at : Nat]]
         /\ granted' \in [Buckets -> Seq(Nat)]
         /\ \A b \in Buckets :
              bucket'[b].at <= now' /\ Paid(CapOf(b), bucket'[b].level, bucket'[b].at, granted'[b])
<1> SUFFICES ASSUME NEW b \in Buckets
             PROVE  /\ bucket'[b] \in [level : Nat, at : Nat] /\ granted'[b] \in Seq(Nat)
                    /\ bucket'[b].at <= now'
                    /\ Paid(CapOf(b), bucket'[b].level, bucket'[b].at, granted'[b])
  BY DEF Charges
<1>1. now \in Nat /\ now' = now /\ granted[b] \in Seq(Nat) /\ CapOf(b) \in Nat \ {0} /\ Window \in Nat
  BY CapType, BudgetAssumption DEF GuardsInv
<1>2. Level(b) \in Nat /\ Paid(CapOf(b), Level(b), now, granted[b])
  BY LevelKeeps
<1>3. CASE b \in given
  <2>1. Level(b) >= Window
    BY <1>3 DEF Allows
  <2>2. bucket'[b] = [level |-> Level(b) - Window, at |-> now] /\ granted'[b] = Append(granted[b], now)
    BY <1>3 DEF Charges, Charged
  <2>3. Paid(CapOf(b), Level(b) - Window, now, Append(granted[b], now))
    BY <1>1, <1>2, <2>1, GrantKeeps
  <2>4. Level(b) - Window \in Nat /\ Append(granted[b], now) \in Seq(Nat)
    BY <1>1, <1>2, <2>1
  <2> QED BY <1>1, <2>2, <2>3, <2>4
<1>4. CASE b \in full \ given
  <2>1. bucket'[b] = [level |-> Level(b), at |-> now] /\ granted'[b] = granted[b]
    BY <1>4 DEF Charges, Charged, Stamped
  <2> QED BY <1>1, <1>2, <2>1
<1>5. CASE b \notin given \cup full
  <2>1. bucket'[b] = bucket[b] /\ granted'[b] = granted[b]
    BY <1>5 DEF Charges
  <2> QED BY <1>1, <2>1 DEF GuardsInv
<1> QED BY <1>3, <1>4, <1>5

\* An account that is not asking keeps what it was told.
LEMMA OthersKeep ==
  ASSUME GuardsInv, NEW c \in Clients, NEW given \in SUBSET Buckets, NEW full \in SUBSET Buckets,
         Charges(given, full), \A b \in given \cup full : Owner(b) = Account[c],
         NEW u \in People, u # Account[c], denied'[u] = denied[u], denied[u] # Never
  PROVE  DeniedRightly(u)'
<1>1. DeniedRightly(u) /\ denied[u].bucket \in Buckets
  BY DEF GuardsInv, Denials
<1>2. bucket'[denied[u].bucket] = bucket[denied[u].bucket]
  BY <1>1 DEF Charges, DeniedRightly
<1> QED BY <1>1, <1>2 DEF DeniedRightly

-----------------------------------------------------------------------------
(* The steps *)

LEMMA BudgetDeniesKeeps ==
  ASSUME GuardsInv, NEW c \in Clients, NEW e \in Heavy, BudgetDenies(c, e), UNCHANGED now
  PROVE  GuardsInv'
<1> DEFINE ub == UserBucket(c, e)
           b == IF Allows(ub) THEN SessionBucket(c, e) ELSE ub
           u == Account[c]
<1>1. /\ ub \in Buckets /\ b \in Buckets /\ u \in People /\ Owner(ub) = u /\ Owner(b) = u
      /\ ~ Allows(b) /\ \A x \in {ub} \ {b} : Allows(x)
  BY BucketsOf DEF BudgetDenies
<1>2. Charges({ub} \ {b}, {b})
  BY DEF BudgetDenies
<1>3. denied' = [denied EXCEPT ![u] = [bucket |-> b, again |-> now + RetryAfter(b)]]
  BY DEF BudgetDenies
<1> HIDE DEF ub, b, u
<1>4. /\ bucket' \in [Buckets -> [level : Nat, at : Nat]]
      /\ granted' \in [Buckets -> Seq(Nat)]
      /\ \A x \in Buckets :
           bucket'[x].at <= now' /\ Paid(CapOf(x), bucket'[x].level, bucket'[x].at, granted'[x])
  <2>1. {ub} \ {b} \in SUBSET Buckets /\ {b} \in SUBSET Buckets
    BY <1>1
  <2>2. \A x \in {b} \ ({ub} \ {b}) : ~ Allows(x)
    BY <1>1
  <2> QED BY <1>1, <1>2, <2>1, <2>2, ChargesKeeps
<1>5. Level(b) \in Nat /\ Level(b) < Window /\ Window \in Nat /\ CapOf(b) \in Nat \ {0} /\ now \in Nat
  BY <1>1, LevelKeeps, CapType, BudgetAssumption DEF Allows, GuardsInv
<1>6. RetryAfter(b) \in Nat
  <2>1. (Window - Level(b)) \div CapOf(b) \in Nat
    BY <1>5, Quotient
  <2> QED BY <2>1 DEF RetryAfter, Most
<1>7. bucket'[b] = [level |-> Level(b), at |-> now]
  BY <1>1, <1>2 DEF Charges, Charged, Stamped
<1>8. /\ denied'[u] = [bucket |-> b, again |-> now + RetryAfter(b)]
      /\ denied' \in [People -> Denials \cup {Never}]
      /\ \A v \in People \ {u} : denied'[v] = denied[v]
  <2>1. [bucket |-> b, again |-> now + RetryAfter(b)] \in Denials
    BY <1>1, <1>5, <1>6 DEF Denials
  <2> QED BY <1>1, <1>3, <2>1 DEF GuardsInv
<1>9. DeniedRightly(u)'
  <2>1. denied'[u].bucket = b /\ denied'[u].again = now + RetryAfter(b)
        /\ bucket'[b].level = Level(b) /\ bucket'[b].at = now
    BY <1>7, <1>8
  <2>2. u' = u
    BY DEF u
  <2> QED BY <1>1, <1>5, <2>1, <2>2 DEF DeniedRightly, RetryAfter
<1>10. ASSUME NEW v \in People, denied'[v] # Never
       PROVE  DeniedRightly(v)'
  <2>1. CASE v = u
    BY <1>9, <2>1
  <2>2. CASE v # u
    BY <1>1, <1>2, <1>8, <1>10, <2>2, OthersKeep DEF u
  <2> QED BY <2>1, <2>2
<1> QED BY <1>4, <1>8, <1>10 DEF GuardsInv

LEMMA PassesKeeps ==
  ASSUME GuardsInv, NEW c \in Clients, NEW e \in Heavy, Passes(c, e), UNCHANGED now
  PROVE  GuardsInv'
<1> DEFINE given == {UserBucket(c, e), SessionBucket(c, e)}
           u == Account[c]
<1>1. given \in SUBSET Buckets /\ \A x \in given : Owner(x) = u /\ Allows(x)
  BY BucketsOf DEF Passes
<1>2. Charges(given, {}) /\ {} \in SUBSET Buckets
  BY DEF Passes
<1>3. denied' = [denied EXCEPT ![u] = Never]
  BY DEF Passes
<1> HIDE DEF given, u
<1>4. /\ bucket' \in [Buckets -> [level : Nat, at : Nat]]
      /\ granted' \in [Buckets -> Seq(Nat)]
      /\ \A x \in Buckets :
           bucket'[x].at <= now' /\ Paid(CapOf(x), bucket'[x].level, bucket'[x].at, granted'[x])
  BY <1>1, <1>2, ChargesKeeps
<1>5. ASSUME NEW v \in People, denied'[v] # Never
      PROVE  DeniedRightly(v)'
  <2>1. v # u /\ denied'[v] = denied[v]
    BY <1>3, <1>5 DEF GuardsInv
  <2> QED BY <1>1, <1>2, <1>5, <2>1, OthersKeep DEF u
<1>6. denied' \in [People -> Denials \cup {Never}]
  BY <1>3 DEF GuardsInv
<1> QED BY <1>4, <1>5, <1>6 DEF GuardsInv

\* A request that does not come as far as its budgets.
LEMMA EarlyDenialKeeps ==
  ASSUME GuardsInv, NEW c \in Clients, UNCHANGED <<now, bucket, granted>>,
         denied' = [denied EXCEPT ![Account[c]] = Never]
  PROVE  GuardsInv'
<1>1. ASSUME NEW v \in People, denied'[v] # Never
      PROVE  DeniedRightly(v)'
  <2>1. denied'[v] = denied[v]
    BY <1>1 DEF GuardsInv
  <2> QED BY <1>1, <2>1 DEF GuardsInv, DeniedRightly
<1> QED BY <1>1 DEF GuardsInv

\* The clock goes on.
LEMMA TickKeeps ==
  ASSUME GuardsInv, now' \in Nat, now <= now', UNCHANGED <<bucket, granted, denied>>
  PROVE  GuardsInv'
<1>1. \A b \in Buckets : bucket[b].at \in Nat
  BY DEF GuardsInv
<1>2. \A b \in Buckets : bucket[b].at <= now'
  BY <1>1 DEF GuardsInv
<1>3. \A u \in People : denied[u] # Never => DeniedRightly(u)'
  BY DEF GuardsInv, DeniedRightly
<1> QED BY <1>2, <1>3 DEF GuardsInv

\* Full buckets that have given nothing.
LEMMA FreshKeeps ==
  ASSUME now' \in Nat, bucket' = [b \in Buckets |-> [level |-> CapOf(b) * Window, at |-> now']],
         granted' = [b \in Buckets |-> <<>>], denied' = [u \in People |-> Never]
  PROVE  GuardsInv'
<1>1. ASSUME NEW b \in Buckets
      PROVE  CapOf(b) * Window \in Nat
  BY CapType, BudgetAssumption
<1>2. ASSUME NEW b \in Buckets
      PROVE  Paid(CapOf(b), CapOf(b) * Window, now', <<>>)
  BY <1>1 DEF Paid
<1> QED BY <1>1, <1>2 DEF GuardsInv

LEMMA GuardsStart ==
  ASSUME GuardsInit
  PROVE  GuardsInv
<1>1. ASSUME NEW b \in Buckets
      PROVE  CapOf(b) * Window \in Nat
  BY CapType, BudgetAssumption
<1>2. ASSUME NEW b \in Buckets
      PROVE  Paid(CapOf(b), CapOf(b) * Window, 0, <<>>)
  BY <1>1 DEF Paid
<1> QED BY <1>1, <1>2 DEF GuardsInit, GuardsInv

LEMMA GuardsStep ==
  ASSUME GuardsInv, [GuardsNext \/ GuardsCrash]_guards
  PROVE  GuardsInv'
<1>1. ASSUME NEW c \in Clients, NEW e \in Heavy, Request(c, e)
      PROVE  GuardsInv'
  <2>1. UNCHANGED now
    BY <1>1 DEF Request
  <2>2. CASE IpDenies(c, e) \/ SafeModeDenies(c, e)
    BY <2>1, <2>2, EarlyDenialKeeps DEF IpDenies, SafeModeDenies
  <2>3. CASE BudgetDenies(c, e)
    BY <2>1, <2>3, BudgetDeniesKeeps
  <2>4. CASE Passes(c, e)
    BY <2>1, <2>4, PassesKeeps
  <2> QED BY <1>1, <2>2, <2>3, <2>4 DEF Request
<1>2. CASE Tick
  <2>1. now' \in Nat /\ now <= now'
    BY <1>2 DEF Tick, GuardsInv
  <2> QED BY <1>2, <2>1, TickKeeps DEF Tick
<1>3. CASE ForgetCalls \/ UNCHANGED guards
  BY <1>3, TickKeeps DEF ForgetCalls, guards, GuardsInv
<1>4. CASE GuardsCrash
  BY <1>4, FreshKeeps DEF GuardsCrash, GuardsInv
<1> QED BY <1>1, <1>2, <1>3, <1>4 DEF GuardsNext

\* After the time it was told, and a tick, the bucket of a denied client is filled
\* for a token.
LEMMA TimeFills ==
  ASSUME GuardsInv, NEW u \in People, denied[u] # Never, now > denied[u].again
  PROVE  Allows(denied[u].bucket)
<1> DEFINE b == denied[u].bucket
           cap == CapOf(b)
           level == bucket[b].level
           at == bucket[b].at
           q == (Window - level) \div cap
           m == cap * Window
           z == (now - at) * cap
<1>1. b \in Buckets /\ DeniedRightly(u)
  BY DEF GuardsInv, Denials
<1>2. /\ cap \in Nat \ {0} /\ Window \in Nat /\ level \in Nat /\ level < Window
      /\ at \in Nat /\ now \in Nat /\ denied[u].again = at + Most(1, q)
  BY <1>1, CapType, BudgetAssumption DEF GuardsInv, DeniedRightly
<1>3. q \in Nat /\ Window - level < (q + 1) * cap
  <2>1. Window - level \in Nat
    BY <1>2
  <2> QED BY <1>2, <2>1, Quotient
<1> HIDE DEF q
<1>4. q + 1 \in Nat /\ q + 1 <= now - at /\ now - at \in Nat
  BY <1>2, <1>3 DEF Most
<1>5. (q + 1) * cap <= z /\ (q + 1) * cap \in Nat
  BY <1>2, <1>4, Monotone
<1>6. z \in Int /\ Window <= m /\ m \in Nat
  BY <1>2, <1>4, Product, AtLeastOneTime
<1>7. Level(b) = Least(m, level + z)
  BY DEF Level
<1> HIDE DEF b, cap, level, at, m, z
<1>8. Least(m, level + z) >= Window
  <2> DEFINE y == (q + 1) * cap
  <2>1. Window - level < y /\ y <= z /\ y \in Nat
    BY <1>3, <1>5
  <2> HIDE DEF y
  <2> QED BY <1>2, <1>6, <2>1 DEF Least
<1>9. Allows(b)
  BY <1>7, <1>8 DEF Allows
<1> QED BY <1>9 DEF b

\* Over any stretch of time a bucket gives out what its capacity and the refill
\* allow, and a client that comes back a tick after the time it was told finds a
\* token (_token_bucket_allow).
THEOREM BudgetsAreFair == GuardsSpec => []BudgetIsFair
<1>1. GuardsInit => GuardsInv
  BY GuardsStart
<1>2. GuardsInv /\ [GuardsNext \/ GuardsCrash]_guards => GuardsInv'
  BY GuardsStep
<1>3. GuardsInv => BudgetIsFair
  <2> SUFFICES ASSUME GuardsInv PROVE BudgetIsFair
    OBVIOUS
  <2>1. BudgetHolds
    BY DEF GuardsInv, Paid, BudgetHolds
  <2>2. RetrySuffices
    BY TimeFills DEF RetrySuffices
  <2> QED BY <2>1, <2>2 DEF BudgetIsFair
<1> QED BY <1>1, <1>2, <1>3, PTL DEF GuardsSpec

-----------------------------------------------------------------------------
(* Storms *)

\* The events q are among the events h, each as often.
Noted(q, h) ==
  \E f \in [DOMAIN q -> DOMAIN h] :
    /\ \A i, j \in DOMAIN q : i # j => f[i] # f[j]
    /\ \A i \in DOMAIN q : h[f[i]] = q[i]

LEMMA NotedPick ==
  ASSUME NEW q \in Seq(Nat), NEW h \in Seq(Nat), Noted(q, h), NEW K \in SUBSET DOMAIN q
  PROVE  Noted(Pick(q, K), h)
<1> DEFINE p == Pick(q, K)
<1>1. PICK f \in [DOMAIN q -> DOMAIN h] :
        /\ \A i, j \in DOMAIN q : i # j => f[i] # f[j]
        /\ \A i \in DOMAIN q : h[f[i]] = q[i]
  BY DEF Noted
<1>2. /\ \A m \in DOMAIN p : From(K, m) \in K /\ p[m] = q[From(K, m)]
      /\ \A m, l \in DOMAIN p : m < l => From(K, m) < From(K, l)
      /\ p \in Seq(Nat)
  BY Picked
<1>3. \A m \in DOMAIN p : m \in Nat /\ From(K, m) \in Nat /\ From(K, m) \in DOMAIN q
  <2>1. DOMAIN p = 1 .. Len(p) /\ Len(p) \in Nat /\ DOMAIN q = 1 .. Len(q) /\ Len(q) \in Nat
    BY <1>2, LenProperties
  <2> QED BY <1>2, <2>1
<1>4. \A m, l \in DOMAIN p : m # l => From(K, m) # From(K, l)
  <2> SUFFICES ASSUME NEW m \in DOMAIN p, NEW l \in DOMAIN p, m # l
               PROVE  From(K, m) # From(K, l)
    OBVIOUS
  <2>1. m < l \/ l < m
    BY <1>3
  <2> QED BY <1>2, <1>3, <2>1
<1> DEFINE g == [m \in DOMAIN p |-> f[From(K, m)]]
<1> HIDE DEF p
<1>5. g \in [DOMAIN p -> DOMAIN h]
  BY <1>1, <1>3
<1>6. \A m, l \in DOMAIN p : m # l => g[m] # g[l]
  BY <1>1, <1>3, <1>4
<1>7. \A m \in DOMAIN p : h[g[m]] = p[m]
  BY <1>1, <1>2, <1>3
<1> QED BY <1>5, <1>6, <1>7 DEF Noted, p

LEMMA NotedAppend ==
  ASSUME NEW q \in Seq(Nat), NEW h \in Seq(Nat), Noted(q, h), NEW t \in Nat
  PROVE  Noted(Append(q, t), Append(h, t))
<1> DEFINE n == Len(q) + 1
           k == Len(h) + 1
           p == Append(q, t)
           r == Append(h, t)
<1>1. PICK f \in [DOMAIN q -> DOMAIN h] :
        /\ \A i, j \in DOMAIN q : i # j => f[i] # f[j]
        /\ \A i \in DOMAIN q : h[f[i]] = q[i]
  BY DEF Noted
<1>2. /\ DOMAIN p = DOMAIN q \cup {n} /\ n \notin DOMAIN q /\ p[n] = t
      /\ \A i \in DOMAIN q : p[i] = q[i]
  BY LenProperties
<1>3. /\ DOMAIN r = DOMAIN h \cup {k} /\ k \notin DOMAIN h /\ r[k] = t
      /\ \A i \in DOMAIN h : r[i] = h[i]
  BY LenProperties
<1> HIDE DEF n, k, p, r
<1> DEFINE g == [i \in DOMAIN p |-> IF i = n THEN k ELSE f[i]]
<1>4. g \in [DOMAIN p -> DOMAIN r]
  BY <1>1, <1>2, <1>3
<1>5. \A i, j \in DOMAIN p : i # j => g[i] # g[j]
  BY <1>1, <1>2, <1>3
<1>6. \A i \in DOMAIN p : r[g[i]] = p[i]
  BY <1>1, <1>2, <1>3
<1> QED BY <1>4, <1>5, <1>6 DEF Noted, p, r

LEMMA NotedNothing ==
  ASSUME NEW h \in Seq(Nat)
  PROVE  Noted(<<>>, h)
<1>1. [i \in {} |-> 1] \in [DOMAIN <<>> -> DOMAIN h]
  OBVIOUS
<1> QED BY <1>1 DEF Noted

\* The events of an account that led to a safe mode which began at a time
Earning(h, began) == {i \in DOMAIN h : h[i] <= began /\ h[i] + EventSpan >= began}

LEMMA EarningType ==
  ASSUME NEW h \in Seq(Nat), NEW began
  PROVE  IsFiniteSet(Earning(h, began)) /\ Cardinality(Earning(h, began)) \in Nat
<1>1. IsFiniteSet(DOMAIN h)
  BY LenProperties, FS_Interval
<1>2. Earning(h, began) \in SUBSET DOMAIN h
  BY DEF Earning
<1> QED BY <1>1, <1>2, FS_Subset, FS_CardinalityType

LEMMA NotedCounts ==
  ASSUME NEW q \in Seq(Nat), NEW h \in Seq(Nat), Noted(q, h), NEW t \in Nat,
         \A i \in DOMAIN q : q[i] <= t /\ q[i] + EventSpan >= t
  PROVE  Len(q) <= Cardinality(Earning(h, t))
<1>1. PICK f \in [DOMAIN q -> DOMAIN h] :
        /\ \A i, j \in DOMAIN q : i # j => f[i] # f[j]
        /\ \A i \in DOMAIN q : h[f[i]] = q[i]
  BY DEF Noted
<1>2. f \in Injection(DOMAIN q, Earning(h, t))
  BY <1>1 DEF Injection, IsInjective, Earning
<1>3. Cardinality(DOMAIN q) <= Cardinality(Earning(h, t))
  BY <1>2, EarningType, FS_Injection
<1>4. Cardinality(DOMAIN q) = Len(q)
  <2>1. DOMAIN q = 1 .. Len(q) /\ Len(q) \in Nat
    BY LenProperties
  <2> DEFINE N == Len(q)
  <2>2. N \in Int /\ 1 \in Int
    BY <2>1
  <2> HIDE DEF N
  <2>3. Cardinality(1 .. N) = IF 1 > N THEN 0 ELSE N - 1 + 1
    BY <2>2, FS_Interval
  <2> QED BY <2>1, <2>3 DEF N
<1> QED BY <1>3, <1>4

\* An event more takes none of those away.
LEMMA EarningGrows ==
  ASSUME NEW h \in Seq(Nat), NEW t \in Nat, NEW began
  PROVE  Cardinality(Earning(h, began)) <= Cardinality(Earning(Append(h, t), began))
<1>1. /\ Append(h, t) \in Seq(Nat) /\ DOMAIN h \subseteq DOMAIN Append(h, t)
      /\ \A i \in DOMAIN h : Append(h, t)[i] = h[i]
  BY LenProperties
<1>2. Earning(h, began) \in SUBSET Earning(Append(h, t), began)
  BY <1>1 DEF Earning
<1> QED BY <1>1, <1>2, EarningType, FS_Subset

StormInv ==
  /\ now \in 0 .. MaxTime
  /\ storms \in [People -> Seq(Nat)] /\ upset \in [People -> Seq(Nat)]
  /\ safe \in [People -> {Never} \cup (0 .. MaxTime + SafeSpan)]
  /\ \A u \in People : \A i \in DOMAIN storms[u] : storms[u][i] <= now
  /\ \A u \in People : Noted(storms[u], upset[u])
  /\ \A u \in People : safe[u] # Never
       => Threshold <= Cardinality(Earning(upset[u], safe[u] - SafeSpan))

LEMMA EventsKept ==
  ASSUME StormInv, NEW u \in People
  PROVE  /\ EventsOf(u) \in Seq(Nat) /\ Noted(EventsOf(u), upset[u])
         /\ \A i \in DOMAIN EventsOf(u) :
              EventsOf(u)[i] <= now /\ EventsOf(u)[i] + EventSpan >= now
<1> DEFINE q == storms[u]
           S == {t \in 0 .. now : t + EventSpan >= now}
           K == {n \in DOMAIN q : q[n] \in S}
<1>1. q \in Seq(Nat) /\ upset[u] \in Seq(Nat) /\ Noted(q, upset[u]) /\ K \in SUBSET DOMAIN q
  BY DEF StormInv
<1>2. EventsOf(u) = Pick(q, K)
  BY DEF EventsOf, Select
<1>3. \A n \in K : q[n] \in S
  OBVIOUS
<1>4. \A t \in S : t <= now /\ t + EventSpan >= now
  BY DEF StormInv
<1> HIDE DEF q, S, K
<1>5. Pick(q, K) \in Seq(Nat) /\ \A m \in DOMAIN Pick(q, K) : Pick(q, K)[m] \in S
  BY <1>1, <1>3, Picked
<1>6. Noted(Pick(q, K), upset[u])
  BY <1>1, NotedPick
<1> QED BY <1>2, <1>4, <1>5, <1>6

LEMMA UpsetsKeeps ==
  ASSUME StormInv, NEW u \in People, Upsets(u), UNCHANGED now
  PROVE  StormInv'
<1> DEFINE old == IF Eased(u) THEN <<>> ELSE EventsOf(u)
           events == Append(old, now)
           h == Append(upset[u], now)
<1>1. now \in Nat /\ now <= MaxTime /\ MaxTime \in Nat /\ SafeSpan \in Nat /\ EventSpan \in Nat
      /\ Threshold \in Nat
  BY SpanAssumption DEF StormInv
<1>2. upset[u] \in Seq(Nat) /\ h \in Seq(Nat)
  BY <1>1 DEF StormInv
<1>3. /\ old \in Seq(Nat) /\ Noted(old, upset[u])
      /\ \A i \in DOMAIN old : old[i] <= now /\ old[i] + EventSpan >= now
  <2>1. CASE Eased(u)
    <3>1. old = <<>>
      BY <2>1
    <3> HIDE DEF old
    <3> QED BY <1>2, <3>1, NotedNothing
  <2>2. CASE ~ Eased(u)
    <3>1. old = EventsOf(u)
      BY <2>2
    <3> HIDE DEF old
    <3> QED BY <3>1, EventsKept
  <2> QED BY <2>1, <2>2
<1> HIDE DEF old
<1>4. events \in Seq(Nat) /\ Noted(events, h)
  BY <1>1, <1>2, <1>3, NotedAppend
<1>5. \A i \in DOMAIN events : events[i] <= now /\ events[i] + EventSpan >= now
  <2>1. \A i \in DOMAIN events : events[i] = now \/ (i \in DOMAIN old /\ events[i] = old[i])
    BY <1>1, <1>3, AppendProperties
  <2> QED BY <1>1, <1>3, <2>1
<1>6. /\ storms' = [storms EXCEPT ![u] = events] /\ upset' = [upset EXCEPT ![u] = h]
      /\ safe' = [safe EXCEPT ![u] = IF Len(events) >= Threshold THEN now + SafeSpan
                                     ELSE IF Eased(u) THEN Never ELSE @]
  BY DEF Upsets, old
<1> HIDE DEF events, h
<1>7. /\ storms'[u] = events /\ upset'[u] = h
      /\ \A v \in People \ {u} :
           storms'[v] = storms[v] /\ upset'[v] = upset[v] /\ safe'[v] = safe[v]
      /\ safe'[u] \in {now + SafeSpan, Never, safe[u]}
      /\ \/ safe'[u] = now + SafeSpan /\ Len(events) >= Threshold
         \/ safe'[u] \in {Never, safe[u]}
  BY <1>6 DEF StormInv
<1>8. /\ storms' \in [People -> Seq(Nat)] /\ upset' \in [People -> Seq(Nat)]
      /\ safe' \in [People -> {Never} \cup (0 .. MaxTime + SafeSpan)]
  <2>1. now + SafeSpan \in 0 .. MaxTime + SafeSpan
    BY <1>1
  <2> QED BY <1>2, <1>4, <1>6, <2>1 DEF StormInv
<1>9. \A v \in People : /\ \A i \in DOMAIN storms'[v] : storms'[v][i] <= now
                        /\ Noted(storms'[v], upset'[v])
  BY <1>4, <1>5, <1>7 DEF StormInv
<1>10. ASSUME safe'[u] # Never
       PROVE  Threshold <= Cardinality(Earning(h, safe'[u] - SafeSpan))
  <2>1. CASE safe'[u] = now + SafeSpan /\ Len(events) >= Threshold
    <3>1. safe'[u] - SafeSpan = now
      BY <1>1, <2>1
    <3>2. Len(events) <= Cardinality(Earning(h, now))
      BY <1>1, <1>2, <1>4, <1>5, NotedCounts
    <3>3. Len(events) \in Nat /\ Cardinality(Earning(h, now)) \in Nat
      BY <1>2, <1>4, LenProperties, EarningType
    <3> QED BY <1>1, <2>1, <3>1, <3>2, <3>3
  <2>2. CASE safe'[u] = safe[u]
    <3>1. Threshold <= Cardinality(Earning(upset[u], safe[u] - SafeSpan))
      BY <1>10, <2>2 DEF StormInv
    <3>2. Cardinality(Earning(upset[u], safe[u] - SafeSpan))
            <= Cardinality(Earning(h, safe[u] - SafeSpan))
      BY <1>1, <1>2, EarningGrows DEF h
    <3>3. /\ Cardinality(Earning(upset[u], safe[u] - SafeSpan)) \in Nat
          /\ Cardinality(Earning(h, safe[u] - SafeSpan)) \in Nat
      BY <1>2, EarningType
    <3> QED BY <1>1, <2>2, <3>1, <3>2, <3>3
  <2> QED BY <1>7, <1>10, <2>1, <2>2
<1>11. \A v \in People : safe'[v] # Never
         => Threshold <= Cardinality(Earning(upset'[v], safe'[v] - SafeSpan))
  BY <1>7, <1>10 DEF StormInv
<1> QED BY <1>8, <1>9, <1>11 DEF StormInv

\* A safe mode that is over is forgotten together with its events.
LEMMA CalmsKeeps ==
  ASSUME StormInv, NEW us, Calms(us), UNCHANGED now
  PROVE  StormInv'
<1>1. \A u \in People :
        \/ storms'[u] = <<>> /\ safe'[u] = Never
        \/ storms'[u] = storms[u] /\ safe'[u] = safe[u]
  BY DEF Calms
<1>2. upset' = upset
  BY DEF Calms
<1>3. \A u \in People : Noted(<<>>, upset[u])
  BY NotedNothing DEF StormInv
<1>4. storms' \in [People -> Seq(Nat)] /\ safe' \in [People -> {Never} \cup (0 .. MaxTime + SafeSpan)]
  BY DEF Calms, StormInv
<1>5. \A u \in People : \A i \in DOMAIN storms'[u] : storms'[u][i] <= now
  BY <1>1 DEF StormInv
<1>6. \A u \in People : Noted(storms'[u], upset[u])
  BY <1>1, <1>3 DEF StormInv
<1> QED BY <1>1, <1>2, <1>4, <1>5, <1>6 DEF StormInv

LEMMA StormStill ==
  ASSUME StormInv, now' \in 0 .. MaxTime, now <= now', UNCHANGED <<storms, safe, upset>>
  PROVE  StormInv'
<1>1. \A u \in People : \A i \in DOMAIN storms[u] : storms[u][i] \in Nat
  BY DEF StormInv
<1>2. \A u \in People : \A i \in DOMAIN storms[u] : storms[u][i] <= now'
  BY <1>1, SpanAssumption DEF StormInv
<1> QED BY <1>2 DEF StormInv

LEMMA StormFresh ==
  ASSUME now' \in 0 .. MaxTime, storms' = [u \in People |-> <<>>], upset' = storms',
         safe' = [u \in People |-> Never]
  PROVE  StormInv'
<1>1. Noted(<<>>, <<>>)
  BY NotedNothing, EmptySeq
<1>2. \A u \in People : storms'[u] = <<>> /\ upset'[u] = <<>> /\ safe'[u] = Never
  OBVIOUS
<1>3. \A i \in DOMAIN <<>> : FALSE
  OBVIOUS
<1>4. storms' \in [People -> Seq(Nat)] /\ upset' \in [People -> Seq(Nat)]
  OBVIOUS
<1>5. safe' \in [People -> {Never} \cup (0 .. MaxTime + SafeSpan)]
  OBVIOUS
<1>6. \A u \in People : \A i \in DOMAIN storms'[u] : storms'[u][i] <= now'
  BY <1>2, <1>3
<1> QED BY <1>1, <1>2, <1>4, <1>5, <1>6 DEF StormInv

LEMMA StormStep ==
  ASSUME StormInv, [GuardsNext \/ GuardsCrash]_guards
  PROVE  StormInv'
<1>1. now \in 0 .. MaxTime /\ now <= now
  BY SpanAssumption DEF StormInv
<1>2. ASSUME NEW c \in Clients, NEW e \in Heavy, Request(c, e)
      PROVE  StormInv'
  <2>1. UNCHANGED now /\ Account[c] \in People
    BY <1>2 DEF Request, People
  <2>2. CASE IpDenies(c, e) \/ SafeModeDenies(c, e)
    BY <1>1, <2>1, <2>2, StormStill DEF IpDenies, SafeModeDenies
  <2>3. CASE BudgetDenies(c, e)
    BY <2>1, <2>3, UpsetsKeeps DEF BudgetDenies
  <2>4. CASE Passes(c, e)
    BY <2>1, <2>4, UpsetsKeeps, CalmsKeeps DEF Passes
  <2> QED BY <1>2, <2>2, <2>3, <2>4 DEF Request
<1>3. CASE Tick
  <2>1. now' \in 0 .. MaxTime /\ now <= now'
    BY <1>1, <1>3, SpanAssumption DEF Tick
  <2> QED BY <1>3, <2>1, StormStill DEF Tick
<1>4. CASE ForgetCalls \/ UNCHANGED guards
  BY <1>1, <1>4, StormStill DEF ForgetCalls, guards
<1>5. CASE GuardsCrash
  BY <1>1, <1>5, StormFresh DEF GuardsCrash
<1> QED BY <1>2, <1>3, <1>4, <1>5 DEF GuardsNext

LEMMA StormStarts ==
  ASSUME GuardsInit
  PROVE  StormInv
<1>1. Noted(<<>>, <<>>)
  BY NotedNothing, EmptySeq
<1>2. now \in 0 .. MaxTime
  BY SpanAssumption DEF GuardsInit
<1>3. \A u \in People : storms[u] = <<>> /\ upset[u] = <<>> /\ safe[u] = Never
  BY DEF GuardsInit
<1>4. \A i \in DOMAIN <<>> : FALSE
  OBVIOUS
<1>5. \A u \in People : \A i \in DOMAIN storms[u] : storms[u][i] <= now
  BY <1>3, <1>4
<1>6. /\ storms \in [People -> Seq(Nat)] /\ upset \in [People -> Seq(Nat)]
      /\ safe \in [People -> {Never} \cup (0 .. MaxTime + SafeSpan)]
  BY DEF GuardsInit
<1> QED BY <1>1, <1>2, <1>3, <1>5, <1>6 DEF StormInv

\* The safe mode was earned by as many storm events within one window as the
\* threshold asks for (_record_storm_event, get_safe_mode_retry_after).
THEOREM SafeModesAreEarned == GuardsSpec => []SafeModeIsEarned
<1>1. GuardsInit => StormInv
  BY StormStarts
<1>2. StormInv /\ [GuardsNext \/ GuardsCrash]_guards => StormInv'
  BY StormStep
<1>3. StormInv => SafeModeIsEarned
  <2> SUFFICES ASSUME StormInv, NEW u \in People, safe[u] # Never
               PROVE  Cardinality(Earning(upset[u], safe[u] - SafeSpan)) >= Threshold
    BY DEF SafeModeIsEarned, Earning
  <2>1. Threshold <= Cardinality(Earning(upset[u], safe[u] - SafeSpan))
    BY DEF StormInv
  <2>2. Threshold \in Nat /\ Cardinality(Earning(upset[u], safe[u] - SafeSpan)) \in Nat
    BY SpanAssumption, EarningType DEF StormInv
  <2> QED BY <2>1, <2>2
<1> QED BY <1>1, <1>2, <1>3, PTL DEF GuardsSpec
-----------------------------------------------------------------------------
(* A pause *)

Addresses == {Address[c] : c \in Clients}

\* What the guards remember of an account or an address is not younger than its
\* last request; a bucket nobody has asked is full.
PauseInv ==
  /\ called \in [People \cup Addresses -> {Never} \cup Nat]
  /\ \A x \in People \cup Addresses : called[x] # Never => called[x] <= now
  /\ calls \in [Addresses -> Seq(Nat)]
  /\ \A a \in Addresses : \A i \in DOMAIN calls[a] : called[a] # Never /\ calls[a][i] <= called[a]
  /\ \A b \in Buckets :
       IF called[Owner(b)] = Never THEN bucket[b].level = CapOf(b) * Window
                                   ELSE bucket[b].at <= called[Owner(b)]
  /\ \A u \in People : safe[u] # Never => called[u] # Never /\ safe[u] <= called[u] + SafeSpan
  /\ polled \in [People -> {Never} \cup Nat]
  /\ \A u \in People : polled[u] # Never => called[u] # Never /\ polled[u] <= called[u]
  /\ asked \in [Clients -> {Never} \cup Nat]
  /\ \A c \in Clients :
       asked[c] # Never => called[Account[c]] # Never /\ asked[c] <= called[Account[c]]

AllInv == GuardsInv /\ StormInv /\ PauseInv

LEMMA NowIsATime ==
  ASSUME StormInv
  PROVE  now \in Nat /\ now # Never /\ now + SafeSpan # Never /\ SafeSpan \in Nat /\ MaxTime \in Nat
BY SpanAssumption DEF StormInv

\* Whoever is remembered was called before, and the caller is called now.
LEMMA CalledGrows ==
  ASSUME AllInv, NEW c \in Clients, NEW e \in Heavy, Request(c, e)
  PROVE  /\ called' \in [People \cup Addresses -> {Never} \cup Nat]
         /\ \A x \in People \cup Addresses :
              /\ called'[x] = called[x] \/ called'[x] = now
              /\ called[x] # Never => called[x] \in Nat /\ called[x] <= now
         /\ Account[c] \in People /\ called'[Account[c]] = now
         /\ Address[c] \in Addresses /\ called'[Address[c]] = now
BY NowIsATime DEF AllInv, PauseInv, Request, People, Addresses

LEMMA RecentType ==
  ASSUME AllInv, NEW a \in Addresses, NEW span
  PROVE  /\ Recent(calls[a], span) \in Seq(Nat)
         /\ \A i \in DOMAIN Recent(calls[a], span) :
              \E n \in DOMAIN calls[a] :
                Recent(calls[a], span)[i] = calls[a][n] /\ now - calls[a][n] < span
<1> DEFINE q == calls[a]
           K == {n \in DOMAIN q : q[n] \in {t \in 0 .. now : now - t < span}}
<1>1. q \in Seq(Nat) /\ K \in SUBSET DOMAIN q
  BY DEF AllInv, PauseInv
<1>2. Recent(q, span) = Pick(q, K)
  BY DEF Recent, Select
<1>3. \A n \in K : n \in DOMAIN q /\ now - q[n] < span
  OBVIOUS
<1> HIDE DEF q, K
<1>4. Pick(q, K) \in Seq(Nat) /\ \A m \in DOMAIN Pick(q, K) : From(K, m) \in K /\ Pick(q, K)[m] = q[From(K, m)]
  BY <1>1, Picked
<1> QED BY <1>2, <1>3, <1>4 DEF q

\* The calls of the address, whether the new one is noted or not.
LEMMA CallsKeep ==
  ASSUME AllInv, NEW c \in Clients, NEW e \in Heavy, Request(c, e)
  PROVE  /\ calls' \in [Addresses -> Seq(Nat)]
         /\ \A a \in Addresses : \A i \in DOMAIN calls'[a] :
              called'[a] # Never /\ calls'[a][i] <= called'[a]
<1> DEFINE x == Address[c]
           list == Recent(calls[x], IpWindow)
<1>1. x \in Addresses /\ now \in Nat /\ now # Never /\ called'[x] = now
  BY CalledGrows, NowIsATime DEF AllInv
<1>2. calls' = [calls EXCEPT ![x] = list] \/ calls' = [calls EXCEPT ![x] = Append(list, now)]
  BY DEF Request, IpDenies, SafeModeDenies, BudgetDenies, Passes, IpAllows
<1>3. list \in Seq(Nat) /\ \A i \in DOMAIN list : list[i] <= now
  <2>1. /\ list \in Seq(Nat)
        /\ \A i \in DOMAIN list :
             \E n \in DOMAIN calls[x] : list[i] = calls[x][n] /\ now - calls[x][n] < IpWindow
    <3>1. x \in Addresses
      BY <1>1
    <3> HIDE DEF x
    <3> QED BY <3>1, RecentType
  <2>2. \A n \in DOMAIN calls[x] : calls[x][n] <= now
    BY <1>1, CalledGrows DEF AllInv, PauseInv
  <2> QED BY <2>1, <2>2
<1> HIDE DEF x, list
<1>4. /\ Append(list, now) \in Seq(Nat)
      /\ \A i \in DOMAIN Append(list, now) : Append(list, now)[i] <= now
  BY <1>1, <1>3, AppendProperties
<1>5. calls' \in [Addresses -> Seq(Nat)]
  BY <1>1, <1>2, <1>3, <1>4 DEF AllInv, PauseInv
<1>6. \A i \in DOMAIN calls'[x] : calls'[x][i] <= now
  BY <1>1, <1>2, <1>3, <1>4 DEF AllInv, PauseInv
<1>7. ASSUME NEW a \in Addresses, a # x
      PROVE  calls'[a] = calls[a]
  BY <1>2, <1>7 DEF AllInv, PauseInv
<1>8. ASSUME NEW a \in Addresses, a # x, NEW i \in DOMAIN calls'[a]
      PROVE  called'[a] # Never /\ calls'[a][i] <= called'[a]
  <2>1. called[a] # Never /\ calls[a][i] <= called[a] /\ calls[a][i] \in Nat
    BY <1>7, <1>8 DEF AllInv, PauseInv
  <2>2. called[a] \in Nat /\ called[a] <= now /\ called'[a] \in {called[a], now}
    BY <2>1, CalledGrows
  <2> QED BY <1>1, <1>7, <1>8, <2>1, <2>2
<1> QED BY <1>1, <1>5, <1>6, <1>8

\* Only the buckets of the caller are looked at.
LEMMA BucketsRest ==
  ASSUME AllInv, NEW c \in Clients, NEW e \in Heavy, Request(c, e), NEW b \in Buckets
  PROVE  IF called'[Owner(b)] = Never THEN bucket'[b].level = CapOf(b) * Window
                                      ELSE bucket'[b].at <= called'[Owner(b)]
<1> DEFINE ub == UserBucket(c, e)
           sb == SessionBucket(c, e)
<1>1. /\ called'[Account[c]] = now /\ now # Never /\ now \in Nat
      /\ bucket[b].at <= now /\ Owner(b) \in People \cup Addresses
  <2>1. Owner(b) \in People
    BY DEF Buckets, Owner, People
  <2> QED BY <2>1, CalledGrows, NowIsATime DEF AllInv, GuardsInv
<1>2. Owner(ub) = Account[c] /\ Owner(sb) = Account[c]
  BY BucketsOf
<1>3. bucket'[b] = bucket[b] \/ (b \in {ub, sb} /\ bucket'[b] = Charged(b))
  <2>1. CASE IpDenies(c, e) \/ SafeModeDenies(c, e)
    BY <2>1 DEF IpDenies, SafeModeDenies
  <2>2. CASE BudgetDenies(c, e)
    BY <2>2 DEF BudgetDenies, Charges
  <2>3. CASE Passes(c, e)
    BY <2>3 DEF Passes, Charges
  <2> QED BY <2>1, <2>2, <2>3 DEF Request
<1> HIDE DEF ub, sb
<1>4. Charged(b).at = now
  BY DEF Charged, Stamped
<1>5. CASE Owner(b) = Account[c]
  BY <1>1, <1>3, <1>4, <1>5
<1>6. CASE Owner(b) # Account[c]
  <2>1. bucket'[b] = bucket[b]
    BY <1>2, <1>3, <1>6
  <2>2. called'[Owner(b)] = called[Owner(b)] \/ called'[Owner(b)] = now
    BY <1>1, CalledGrows
  <2> QED BY <1>1, <2>1, <2>2 DEF AllInv, PauseInv
<1> QED BY <1>5, <1>6

\* A new safe mode is the caller's.
LEMMA SafeModesRest ==
  ASSUME AllInv, NEW c \in Clients, NEW e \in Heavy, Request(c, e), NEW u \in People,
         safe'[u] # Never
  PROVE  called'[u] # Never /\ safe'[u] <= called'[u] + SafeSpan
<1>1. called'[Account[c]] = now /\ now # Never /\ now \in Nat /\ SafeSpan \in Nat
  BY CalledGrows, NowIsATime DEF AllInv
<1>2. safe'[u] = safe[u] \/ (u = Account[c] /\ safe'[u] = now + SafeSpan)
  <2>1. ASSUME Upsets(Account[c])
        PROVE  safe'[u] = safe[u] \/ (u = Account[c] /\ safe'[u] = now + SafeSpan)
    BY <2>1 DEF Upsets, AllInv, StormInv
  <2>2. ASSUME NEW us, Calms(us)
        PROVE  safe'[u] = safe[u]
    BY <2>2 DEF Calms
  <2>3. CASE IpDenies(c, e) \/ SafeModeDenies(c, e)
    BY <2>3 DEF IpDenies, SafeModeDenies
  <2>4. CASE BudgetDenies(c, e)
    BY <2>1, <2>4 DEF BudgetDenies
  <2>5. CASE Passes(c, e)
    BY <2>1, <2>2, <2>5 DEF Passes
  <2> QED BY <2>3, <2>4, <2>5 DEF Request
<1>3. CASE u = Account[c] /\ safe'[u] = now + SafeSpan
  BY <1>1, <1>3
<1>4. CASE safe'[u] = safe[u]
  <2>1. safe[u] \in Nat /\ called[u] # Never /\ safe[u] <= called[u] + SafeSpan
    BY <1>4, SpanAssumption DEF AllInv, StormInv, PauseInv
  <2>2. called[u] \in Nat /\ called[u] <= now /\ called'[u] \in {called[u], now}
    BY <2>1, CalledGrows
  <2> QED BY <1>1, <1>4, <2>1, <2>2
<1> QED BY <1>2, <1>3, <1>4

\* The stamps of pending fetches.
LEMMA StampsRest ==
  ASSUME AllInv, NEW c \in Clients, NEW e \in Heavy, Request(c, e)
  PROVE  /\ polled' \in [People -> {Never} \cup Nat]
         /\ \A u \in People : polled'[u] # Never => called'[u] # Never /\ polled'[u] <= called'[u]
         /\ asked' \in [Clients -> {Never} \cup Nat]
         /\ \A d \in Clients : asked'[d] # Never
              => called'[Account[d]] # Never /\ asked'[d] <= called'[Account[d]]
<1>1. called'[Account[c]] = now /\ now # Never /\ now \in Nat /\ \A d \in Clients : Account[d] \in People
  BY CalledGrows, NowIsATime DEF AllInv, People
<1>2. /\ polled' \in {polled, [polled EXCEPT ![Account[c]] = now]}
      /\ asked' \in {asked, [asked EXCEPT ![c] = now]}
  <2>1. CASE IpDenies(c, e) \/ SafeModeDenies(c, e) \/ BudgetDenies(c, e)
    BY <2>1 DEF IpDenies, SafeModeDenies, BudgetDenies
  <2>2. CASE Passes(c, e)
    <3>1. polled' = [polled EXCEPT ![Account[c]] = IF e = "pending_fetch" THEN now ELSE @]
      BY <2>2 DEF Passes
    <3>2. \E x \in {TRUE, FALSE} : asked' = [asked EXCEPT ![c] = IF x THEN now ELSE @]
      BY <2>2 DEF Passes
    <3> QED BY <3>1, <3>2 DEF AllInv, PauseInv
  <2> QED BY <2>1, <2>2 DEF Request
<1>3. polled' \in [People -> {Never} \cup Nat] /\ asked' \in [Clients -> {Never} \cup Nat]
  BY <1>1, <1>2 DEF AllInv, PauseInv
<1>4. ASSUME NEW u \in People, polled'[u] # Never
      PROVE  called'[u] # Never /\ polled'[u] <= called'[u]
  <2>1. CASE u = Account[c] /\ polled'[u] = now
    BY <1>1, <2>1
  <2>2. CASE polled'[u] = polled[u]
    <3>1. polled[u] \in Nat /\ called[u] # Never /\ polled[u] <= called[u]
      BY <1>4, <2>2 DEF AllInv, PauseInv
    <3>2. called[u] \in Nat /\ called[u] <= now /\ called'[u] \in {called[u], now}
      BY <3>1, CalledGrows
    <3> QED BY <1>1, <2>2, <3>1, <3>2
  <2> QED BY <1>2, <2>1, <2>2 DEF AllInv, PauseInv
<1>5. ASSUME NEW d \in Clients, asked'[d] # Never
      PROVE  called'[Account[d]] # Never /\ asked'[d] <= called'[Account[d]]
  <2>1. CASE d = c /\ asked'[d] = now
    BY <1>1, <2>1
  <2>2. CASE asked'[d] = asked[d]
    <3>1. asked[d] \in Nat /\ called[Account[d]] # Never /\ asked[d] <= called[Account[d]]
      BY <1>5, <2>2 DEF AllInv, PauseInv
    <3>2. /\ called[Account[d]] \in Nat /\ called[Account[d]] <= now
          /\ called'[Account[d]] \in {called[Account[d]], now}
      BY <1>1, <3>1, CalledGrows
    <3> QED BY <1>1, <2>2, <3>1, <3>2
  <2> QED BY <1>2, <2>1, <2>2 DEF AllInv, PauseInv
<1> QED BY <1>3, <1>4, <1>5

LEMMA PauseStep ==
  ASSUME AllInv, [GuardsNext \/ GuardsCrash]_guards
  PROVE  PauseInv'
<1>1. ASSUME NEW c \in Clients, NEW e \in Heavy, Request(c, e)
      PROVE  PauseInv'
  <2>1. now' = now /\ now \in Nat
    BY <1>1, NowIsATime DEF Request, AllInv
  <2>2. \A x \in People \cup Addresses : called'[x] # Never => called'[x] <= now'
    BY <1>1, <2>1, CalledGrows
  <2>3. \A b \in Buckets :
          IF called'[Owner(b)] = Never THEN bucket'[b].level = CapOf(b) * Window
                                       ELSE bucket'[b].at <= called'[Owner(b)]
    BY <1>1, BucketsRest
  <2>4. \A u \in People : safe'[u] # Never => called'[u] # Never /\ safe'[u] <= called'[u] + SafeSpan
    BY <1>1, SafeModesRest
  <2> QED BY <1>1, <2>2, <2>3, <2>4, CalledGrows, CallsKeep, StampsRest DEF PauseInv
<1>2. CASE Tick
  <2>1. now \in Nat /\ now' = now + 1 /\ \A x \in People \cup Addresses : called[x] # Never => called[x] \in Nat
    BY <1>2, NowIsATime DEF Tick, AllInv, PauseInv
  <2>2. \A x \in People \cup Addresses : called[x] # Never => called[x] <= now'
    BY <2>1 DEF AllInv, PauseInv
  <2> QED BY <1>2, <2>2 DEF Tick, AllInv, PauseInv
<1>3. CASE ForgetCalls
  <2>1. calls' \in [Addresses -> Seq(Nat)] /\ \A a \in Addresses : calls'[a] = <<>>
    BY <1>3 DEF ForgetCalls, AllInv, PauseInv
  <2>2. \A a \in Addresses : \A i \in DOMAIN calls'[a] : FALSE
    BY <2>1
  <2> QED BY <1>3, <2>1, <2>2 DEF ForgetCalls, AllInv, PauseInv
<1>4. CASE UNCHANGED guards
  BY <1>4 DEF guards, AllInv, PauseInv
<1>5. CASE GuardsCrash
  <2>1. calls' \in [Addresses -> Seq(Nat)] /\ \A a \in Addresses : calls'[a] = <<>>
    BY <1>5 DEF GuardsCrash, AllInv, PauseInv
  <2>2. \A a \in Addresses : \A i \in DOMAIN calls'[a] : FALSE
    BY <2>1
  <2>3. /\ called' \in [People \cup Addresses -> {Never} \cup Nat]
        /\ \A x \in People \cup Addresses : called'[x] = Never
    BY <1>5 DEF GuardsCrash, AllInv, PauseInv
  <2>4. \A b \in Buckets : Owner(b) \in People /\ bucket'[b].level = CapOf(b) * Window
    BY <1>5 DEF GuardsCrash, Buckets, Owner, People
  <2>5. /\ polled' = [u \in People |-> Never] /\ safe' = [u \in People |-> Never]
        /\ asked' = [d \in Clients |-> Never]
    BY <1>5 DEF GuardsCrash
  <2> QED BY <2>1, <2>2, <2>3, <2>4, <2>5 DEF PauseInv
<1> QED BY <1>1, <1>2, <1>3, <1>4, <1>5 DEF GuardsNext

LEMMA PauseStarts ==
  ASSUME GuardsInit
  PROVE  PauseInv
<1>1. calls \in [Addresses -> Seq(Nat)] /\ \A a \in Addresses : calls[a] = <<>>
  BY DEF GuardsInit, Addresses
<1>2. \A a \in Addresses : \A i \in DOMAIN calls[a] : FALSE
  BY <1>1
<1>3. /\ called \in [People \cup Addresses -> {Never} \cup Nat]
      /\ \A x \in People \cup Addresses : called[x] = Never
  BY DEF GuardsInit, Addresses
<1>4. \A b \in Buckets : Owner(b) \in People /\ bucket[b].level = CapOf(b) * Window
  BY DEF GuardsInit, Buckets, Owner, People
<1>5. /\ polled = [u \in People |-> Never] /\ safe = [u \in People |-> Never]
      /\ asked = [d \in Clients |-> Never]
  BY DEF GuardsInit
<1> QED BY <1>1, <1>2, <1>3, <1>4, <1>5 DEF PauseInv

\* After a pause a bucket is full.
LEMMA PauseFills ==
  ASSUME AllInv, NEW b \in Buckets, Rested(Owner(b))
  PROVE  Allows(b)
<1> DEFINE cap == CapOf(b)
           level == bucket[b].level
           at == bucket[b].at
           m == cap * Window
           z == (now - at) * cap
<1>1. /\ cap \in Nat \ {0} /\ Window \in Nat \ {0} /\ level \in Nat /\ at \in Nat
      /\ now \in Nat /\ at <= now
  BY CapType, BudgetAssumption DEF AllInv, GuardsInv
<1>2. Window * cap = m /\ m \in Nat /\ Window <= m
  BY <1>1, Product, AtLeastOneTime
<1>3. level + z >= m /\ z \in Nat
  <2>1. now - at \in Nat /\ 0 * cap = 0
    BY <1>1
  <2>2. 0 * cap <= z /\ z \in Int
    BY <1>1, <2>1, Monotone, Product
  <2>3. CASE called[Owner(b)] = Never
    <3>1. level = m
      BY <2>3 DEF AllInv, PauseInv
    <3> HIDE DEF level, m, z
    <3> QED BY <1>2, <2>1, <2>2, <3>1
  <2>4. CASE called[Owner(b)] # Never
    <3>1. called[Owner(b)] \in Nat /\ at <= called[Owner(b)] /\ now - called[Owner(b)] >= Pause
      BY <2>4 DEF AllInv, PauseInv, Rested, Buckets, Owner, People
    <3>2. Window <= Pause /\ Pause \in Nat
      BY <1>1, SpanAssumption DEF Pause, Most
    <3>3. Window <= now - at
      BY <1>1, <3>1, <3>2
    <3>4. Window * cap <= z
      BY <1>1, <2>1, <3>3, Monotone
    <3> HIDE DEF level, m, z
    <3> QED BY <1>1, <1>2, <2>1, <2>2, <3>4
  <2> HIDE DEF level, m, z
  <2> QED BY <2>1, <2>2, <2>3, <2>4
<1>4. Level(b) = Least(m, level + z)
  BY DEF Level
<1> HIDE DEF cap, level, at, m, z
<1>5. Least(m, level + z) >= Window
  BY <1>1, <1>2, <1>3 DEF Least
<1> QED BY <1>4, <1>5 DEF Allows

\* After a pause of the address none of its calls counts.
LEMMA PauseForgets ==
  ASSUME AllInv, NEW a \in Addresses, Rested(a)
  PROVE  Len(Recent(calls[a], IpWindow)) = 0
<1> DEFINE list == Recent(calls[a], IpWindow)
<1>1. list \in Seq(Nat) /\ \A i \in DOMAIN list : \E n \in DOMAIN calls[a] : now - calls[a][n] < IpWindow
  BY RecentType
<1>2. ASSUME NEW n \in DOMAIN calls[a]
      PROVE  ~ (now - calls[a][n] < IpWindow)
  <2>1. calls[a][n] \in Nat /\ called[a] # Never /\ called[a] \in Nat /\ calls[a][n] <= called[a]
    BY DEF AllInv, PauseInv
  <2>2. now - called[a] >= Pause
    BY <2>1 DEF Rested
  <2>3. IpWindow <= Pause /\ Pause \in Nat /\ IpWindow \in Nat /\ now \in Nat
    BY SpanAssumption, BudgetAssumption, NowIsATime DEF Pause, Most, AllInv
  <2> QED BY <2>1, <2>2, <2>3
<1>3. \A i \in DOMAIN list : FALSE
  BY <1>1, <1>2
<1> HIDE DEF list
<1>4. Len(list) \in Nat /\ DOMAIN list = 1 .. Len(list)
  BY <1>1, LenProperties
<1>5. Len(list) = 0
  <2>1. Len(list) # 0 => 1 \in DOMAIN list
    BY <1>4
  <2> QED BY <1>3, <2>1
<1> QED BY <1>5 DEF list

LEMMA RestedIsServed ==
  ASSUME AllInv, NEW c \in Clients, NEW e \in Heavy \ {"login"}, Request(c, e),
         Rested(Account[c]), Rested(Address[c])
  PROVE  served'
<1>1. Account[c] \in People /\ Address[c] \in Addresses
  BY DEF People, Addresses
<1>2. ~ IpDenies(c, e)
  <2>1. IpLimit[e] \in Nat /\ IpLimit[e] # 0
    BY SpanAssumption
  <2> QED BY <1>1, <2>1, PauseForgets DEF IpDenies
<1>3. /\ now \in Nat /\ Pause \in Nat /\ SafeSpan \in Nat /\ MinInterval \in Nat
      /\ SafeSpan <= Pause /\ MinInterval <= Pause
      /\ called[Account[c]] # Never
           => called[Account[c]] \in Nat /\ now - called[Account[c]] >= Pause
  BY <1>1, SpanAssumption, BudgetAssumption, NowIsATime DEF Pause, Most, Rested, AllInv, PauseInv
<1>4. ~ InSafeMode(Account[c])
  <2> SUFFICES ASSUME safe[Account[c]] # Never PROVE now >= safe[Account[c]]
    BY <1>1, <1>3, SpanAssumption DEF InSafeMode, AllInv, StormInv
  <2>1. /\ called[Account[c]] # Never /\ safe[Account[c]] <= called[Account[c]] + SafeSpan
        /\ safe[Account[c]] \in Nat
    BY <1>1, SpanAssumption DEF AllInv, PauseInv, StormInv
  <2> QED BY <1>3, <2>1
<1>5. Allows(UserBucket(c, e)) /\ Allows(SessionBucket(c, e))
  BY BucketsOf, PauseFills
<1>6. Passes(c, e)
  BY <1>2, <1>4, <1>5 DEF Request, SafeModeDenies, BudgetDenies
<1>7. ~ TooSoon(polled[Account[c]]) /\ ~ TooSoon(asked[c])
  <2>1. ASSUME NEW t, t # Never => t \in Nat /\ called[Account[c]] # Never /\ t <= called[Account[c]]
        PROVE  ~ TooSoon(t)
    BY <1>3, <2>1 DEF TooSoon
  <2> QED BY <1>1, <2>1 DEF AllInv, PauseInv
<1> QED BY <1>6, <1>7 DEF Passes

LEMMA GuardsInvariant == GuardsSpec => []AllInv
<1>1. GuardsInit => AllInv
  BY GuardsStart, StormStarts, PauseStarts DEF AllInv
<1>2. AllInv /\ [GuardsNext \/ GuardsCrash]_guards => AllInv'
  BY GuardsStep, StormStep, PauseStep DEF AllInv
<1> QED BY <1>1, <1>2, PTL DEF GuardsSpec

\* Being throttled ends by itself (check_rate_limit, allow_heavy_endpoint,
\* get_safe_mode_retry_after, is_pending_fetch_duplicate_for_user).
THEOREM AQuietClientIsServed == GuardsSpec => QuietIsServed
<1>1. AllInv /\ [GuardsNext \/ GuardsCrash]_guards =>
        [\A c \in Clients :
           (\E e \in Heavy \ {"login"} : Request(c, e)) /\ Rested(Account[c]) /\ Rested(Address[c])
             => served']_guards
  BY RestedIsServed
<1> QED BY <1>1, GuardsInvariant, PTL DEF GuardsSpec, QuietIsServed

\* No bucket holds more than its capacity, and every time is one of the clock's.
THEOREM GuardsTypeCorrect == GuardsSpec => []GuardsTypeOK
<1>1. AllInv => GuardsTypeOK
  <2> SUFFICES ASSUME AllInv PROVE GuardsTypeOK
    OBVIOUS
  <2>1. now \in Nat /\ now \in 0 .. MaxTime /\ MaxTime \in Nat
    BY NowIsATime DEF AllInv, StormInv
  <2>2. ASSUME NEW b \in Buckets
        PROVE  bucket[b].level \in 0 .. CapOf(b) * Window /\ bucket[b].at \in 0 .. now
    <3> DEFINE level == bucket[b].level
               at == bucket[b].at
               m == CapOf(b) * Window
    <3>1. level \in Nat /\ at \in Nat /\ at <= now /\ level <= m
      BY DEF AllInv, GuardsInv, Paid
    <3>2. m \in Nat
      BY CapType, BudgetAssumption
    <3> HIDE DEF level, at, m
    <3>3. level \in 0 .. m /\ at \in 0 .. now
      BY <2>1, <3>1, <3>2
    <3> QED BY <3>3 DEF level, at, m
  <2>3. \A u \in People : safe[u] \in {Never} \cup (0 .. MaxTime + SafeSpan)
    BY DEF AllInv, StormInv
  <2>4. \A x \in People : called[x] # Never => called[x] \in Nat /\ called[x] <= now
    BY DEF AllInv, PauseInv
  <2>5. polled \in [People -> {Never} \cup (0 .. now)]
    <3>1. \A u \in People : polled[u] # Never => polled[u] \in 0 .. now
      BY <2>1, <2>4 DEF AllInv, PauseInv
    <3> QED BY <3>1 DEF AllInv, PauseInv
  <2>6. asked \in [Clients -> {Never} \cup (0 .. now)]
    <3>1. \A c \in Clients : asked[c] # Never => asked[c] \in 0 .. now
      BY <2>1, <2>4 DEF AllInv, PauseInv, People
    <3> QED BY <3>1 DEF AllInv, PauseInv
  <2> QED BY <2>1, <2>2, <2>3, <2>5, <2>6 DEF GuardsTypeOK
<1> QED BY <1>1, GuardsInvariant, PTL
=============================================================================
