--------------------------- MODULE DvcCacheProofs ---------------------------
(***************************************************************************)
(* The usages of the colour cache are its ranks, for every size and every   *)
(* set of colours.                                                          *)
(***************************************************************************)
EXTENDS DvcCache, FiniteSetTheorems, FunctionTheorems, TLAPS

(* The first n entries are ranked: their usages are 0 to n - 1.             *)
Ranked(u, n) ==
    /\ \A j \in Slots : j < n => u[j] < n
    /\ \A r \in Nat : r < n => \E j \in Slots : j < n /\ u[j] = r
    /\ \A j, k \in Slots : j < n /\ k < n /\ u[j] = u[k] => j = k

(* The marked ones of the first n entries are the t most recent ones.       *)
Marked(u, b, n, t) == \A j \in Slots : j < n => (b[j] = 1 <=> u[j] < t)

(* While pruning: entries below i are kept and unmarked, and those that     *)
(* will stay are ranked 0 to t - 1.                                         *)
Pruning(t) ==
    /\ i <= active
    /\ \A j \in Slots : j < i => block[j] = 0
    /\ \A j, k \in Active : usage[j] = usage[k] => j = k
    /\ \A j \in Listed : usage[j] < t
    /\ \A r \in Nat : r < t => \E j \in Listed : usage[j] = r

CacheInv ==
    /\ CacheTypeOK
    /\ phase = "idle" => Ranked(usage, active) /\ \E t \in 0..active : Marked(usage, block, active, t)
    /\ phase = "prune" => \E t \in Nat : Pruning(t)
    /\ ColorsDistinct

(* v is u after entry j of the first n was used.                            *)
Aged(u, v, j, n) ==
    /\ v[j] = 0
    /\ \A k \in Slots : k < n /\ k # j /\ u[k] < u[j] => v[k] = u[k] + 1
    /\ \A k \in Slots : k < n /\ k # j /\ ~(u[k] < u[j]) => v[k] = u[k]

(* Using an entry keeps the ranks.                                          *)
LEMMA AgedRanked ==
  ASSUME NEW n \in Nat, NEW u \in [Slots -> Nat], NEW v, NEW j \in Slots, j < n,
         Ranked(u, n), Aged(u, v, j, n)
  PROVE  Ranked(v, n)
<1> USE DEF Aged
<1>1. \A k \in Slots : k \in Nat
  BY DvcCacheAssumption DEF Slots
<1>0. \A k \in Slots : k \in Nat /\ u[k] \in Nat /\ (k < n => u[k] < n)
  BY <1>1 DEF Ranked
<1>2. \A k \in Slots : k < n /\ k # j => u[k] # u[j]
  BY DEF Ranked
<1>3. ASSUME NEW k \in Slots, k < n PROVE v[k] < n
  <2>1. CASE k = j
    BY <1>0, <2>1
  <2>2. CASE k # j /\ u[k] < u[j]
    BY <1>0, <1>3, <2>2
  <2>3. CASE k # j /\ ~(u[k] < u[j])
    BY <1>0, <1>3, <2>3
  <2> QED BY <2>1, <2>2, <2>3
<1>4. ASSUME NEW r \in Nat, r < n
      PROVE  \E k \in Slots : k < n /\ v[k] = r
  <2>1. CASE r = 0
    BY <2>1
  <2>2. CASE r # 0 /\ r <= u[j]
    <3>1. r - 1 \in Nat /\ r - 1 < n
      BY <1>4, <2>2
    <3>2. PICK k \in Slots : k < n /\ u[k] = r - 1
      BY <3>1 DEF Ranked
    <3>3. k # j /\ u[k] < u[j]
      BY <1>0, <2>2, <3>2
    <3> QED BY <3>2, <3>3
  <2>3. CASE r > u[j]
    <3>1. PICK k \in Slots : k < n /\ u[k] = r
      BY <1>4 DEF Ranked
    <3>2. k # j /\ ~(u[k] < u[j])
      BY <1>0, <2>3, <3>1
    <3> QED BY <3>1, <3>2
  <2> QED BY <2>1, <2>2, <2>3, <1>0
<1>5. ASSUME NEW k \in Slots, NEW l \in Slots, k < n, l < n, v[k] = v[l]
      PROVE  k = l
  <2>1. \A m \in Slots : m < n /\ m # j => v[m] \in Nat /\ v[m] # 0
    <3> SUFFICES ASSUME NEW m \in Slots, m < n, m # j PROVE v[m] \in Nat /\ v[m] # 0
      OBVIOUS
    <3>1. CASE u[m] < u[j]
      BY <1>0, <3>1
    <3>2. CASE u[m] > u[j]
      BY <1>0, <3>2
    <3> QED BY <1>0, <1>2, <3>1, <3>2
  <2>2. CASE k = j \/ l = j
    BY <1>5, <2>1, <2>2
  <2>3. CASE k # j /\ l # j
    <3>1. CASE u[k] < u[j] /\ u[l] < u[j]
      <4>1. u[k] = u[l]
        BY <1>0, <1>5, <2>3, <3>1
      <4> QED BY <1>5, <4>1 DEF Ranked
    <3>2. CASE ~(u[k] < u[j]) /\ ~(u[l] < u[j])
      <4>1. u[k] = u[l]
        BY <1>0, <1>5, <2>3, <3>2
      <4> QED BY <1>5, <4>1 DEF Ranked
    <3>3. CASE u[k] < u[j] /\ ~(u[l] < u[j])
      BY <1>0, <1>2, <1>5, <2>3, <3>3
    <3>4. CASE ~(u[k] < u[j]) /\ u[l] < u[j]
      BY <1>0, <1>2, <1>5, <2>3, <3>4
    <3> QED BY <3>1, <3>2, <3>3, <3>4
  <2> QED BY <2>2, <2>3
<1> QED BY <1>3, <1>4, <1>5 DEF Ranked

(* ... and the marks a prefix of them.                                      *)
LEMMA AgedMarked ==
  ASSUME NEW n \in Nat, NEW u \in [Slots -> Nat], NEW v, NEW j \in Slots, j < n,
         Ranked(u, n), Aged(u, v, j, n), NEW b, NEW c,
         c[j] = 1, \A k \in Slots : k # j => c[k] = b[k],
         NEW t \in 0..n, Marked(u, b, n, t)
  PROVE  \E s \in 0..n : Marked(v, c, n, s)
<1> USE DEF Aged
<1>1. \A k \in Slots : k \in Nat
  BY DvcCacheAssumption DEF Slots
<1>0. \A k \in Slots : k \in Nat /\ u[k] \in Nat /\ (k < n => u[k] < n)
  BY <1>1 DEF Ranked
<1>2. \A k \in Slots : k < n /\ k # j => u[k] # u[j]
  BY DEF Ranked
<1>3. \A k \in Slots : k < n => (b[k] = 1 <=> u[k] < t)
  BY DEF Marked
<1> DEFINE s == IF u[j] < t THEN t ELSE t + 1
<1>4. s \in 0..n /\ s > 0
  BY <1>0
<1>5. ASSUME NEW k \in Slots, k < n PROVE c[k] = 1 <=> v[k] < s
  <2>1. CASE k = j
    BY <1>4, <2>1
  <2>2. CASE k # j /\ u[k] < u[j]
    <3>1. v[k] = u[k] + 1 /\ c[k] = b[k]
      BY <1>5, <2>2
    <3> QED BY <1>0, <1>3, <1>5, <2>2, <3>1
  <2>3. CASE k # j /\ u[k] > u[j]
    <3>1. v[k] = u[k] /\ c[k] = b[k]
      BY <1>0, <1>5, <2>3
    <3> QED BY <1>0, <1>3, <1>5, <2>3, <3>1
  <2> QED BY <1>0, <1>2, <1>5, <2>1, <2>2, <2>3
<1> HIDE DEF s
<1> QED BY <1>4, <1>5 DEF Marked

-----------------------------------------------------------------------------
LEMMA TypeStep == CacheTypeOK /\ [CacheNext]_cacheVars => CacheTypeOK'
<1> SUFFICES ASSUME CacheTypeOK, [CacheNext]_cacheVars PROVE CacheTypeOK'
  OBVIOUS
<1> USE DvcCacheAssumption DEF CacheTypeOK, Slots
<1>1. CASE UNCHANGED cacheVars
  BY <1>1 DEF cacheVars
<1>2. ASSUME NEW c \in Colors, Hit(c) \/ Insert(c) \/ Replace(c) PROVE CacheTypeOK'
  <2>1. CASE Hit(c)
    BY <2>1 DEF Hit, Rejuvenate, Active
  <2>2. CASE Insert(c)
    BY <2>2 DEF Insert, Rejuvenate
  <2>3. CASE Replace(c)
    BY <2>3 DEF Replace, Rejuvenate
  <2> QED BY <1>2, <2>1, <2>2, <2>3
<1>3. ASSUME NEW r \in Slots, Find(r) PROVE CacheTypeOK'
  BY <1>3 DEF Find, Rejuvenate, Active
<1>4. CASE Prune \/ PruneDone \/ ResetCache
  BY <1>4 DEF Prune, PruneDone, ResetCache
<1>5. CASE Drop
  BY <1>5 DEF Drop
<1>6. CASE Keep
  BY <1>6 DEF Keep
<1> QED BY <1>1, <1>2, <1>3, <1>4, <1>5, <1>6 DEF CacheNext

(* Entry j is used and its colour stays or becomes a new one.               *)
LEMMA UseStep ==
  ASSUME CacheInv, CacheTypeOK', phase = "idle", phase' = "idle", active' = active,
         NEW j \in Active, usage' = Rejuvenate(j, usage[j], active),
         block' = [block EXCEPT ![j] = 1], ColorsDistinct'
  PROVE  CacheInv'
<1> USE DEF CacheInv
<1>1. /\ usage \in [Slots -> Nat] /\ active \in Nat /\ active' = active
      /\ j \in Slots /\ j < active /\ \A k \in Slots : k \in Nat
  BY DvcCacheAssumption DEF CacheTypeOK, Active, Slots
<1>2. Aged(usage, usage', j, active)
  BY <1>1 DEF Aged, Rejuvenate
<1>3. block'[j] = 1 /\ \A k \in Slots : k # j => block'[k] = block[k]
  BY <1>1 DEF CacheTypeOK
<1>4. Ranked(usage', active)
  BY <1>1, <1>2, AgedRanked
<1>5. PICK t \in 0..active : Marked(usage, block, active, t)
  OBVIOUS
<1>6. \E s \in 0..active : Marked(usage', block', active, s)
  BY <1>1, <1>2, <1>3, <1>5, AgedMarked
<1> QED BY <1>1, <1>4, <1>6

LEMMA InsertStep ==
  ASSUME CacheInv, CacheTypeOK', NEW c \in Colors, Insert(c)
  PROVE  CacheInv'
<1> USE DEF CacheInv
<1>1. /\ usage \in [Slots -> Nat] /\ active \in Slots /\ active \in Nat
      /\ \A k \in Slots : k \in Nat
  BY DvcCacheAssumption DEF CacheTypeOK, Slots, Insert
<1>2. /\ phase = "idle" /\ phase' = "idle" /\ active' = active + 1
      /\ usage'[active] = 0 /\ block'[active] = 1
      /\ \A k \in Slots : k # active => block'[k] = block[k]
  BY <1>1 DEF Insert, Rejuvenate, CacheTypeOK
<1>3. Ranked(usage, active)
  BY <1>2
<1>4. ASSUME NEW k \in Slots, k < active
      PROVE usage'[k] = usage[k] + 1 /\ usage[k] < active /\ usage[k] \in Nat
  <2>1. usage[k] < active /\ usage[k] \in Nat
    BY <1>1, <1>3, <1>4 DEF Ranked
  <2> QED BY <1>1, <1>4, <2>1 DEF Insert, Rejuvenate
<1>5. \A k \in Slots : k < active' => k < active \/ k = active
  BY <1>1, <1>2
<1>6. Ranked(usage', active')
  <2>1. \A k \in Slots : k < active' => usage'[k] < active'
    BY <1>1, <1>2, <1>4, <1>5
  <2>2. ASSUME NEW r \in Nat, r < active'
        PROVE \E k \in Slots : k < active' /\ usage'[k] = r
    <3>1. CASE r = 0
      BY <1>1, <1>2, <3>1
    <3>2. CASE r # 0
      <4>1. r - 1 \in Nat /\ r - 1 < active
        BY <1>1, <1>2, <2>2, <3>2
      <4>2. PICK k \in Slots : k < active /\ usage[k] = r - 1
        BY <1>3, <4>1 DEF Ranked
      <4>3. usage'[k] = r /\ k < active'
        BY <1>1, <1>2, <1>4, <4>2
      <4> QED BY <4>3
    <3> QED BY <3>1, <3>2
  <2>3. ASSUME NEW k \in Slots, NEW l \in Slots, k < active', l < active',
               usage'[k] = usage'[l]
        PROVE k = l
    <3>1. CASE k = active \/ l = active
      BY <1>2, <1>4, <1>5, <2>3, <3>1
    <3>2. CASE k < active /\ l < active
      <4>1. usage[k] = usage[l]
        BY <1>4, <2>3, <3>2
      <4> QED BY <1>3, <3>2, <4>1 DEF Ranked
    <3> QED BY <1>5, <2>3, <3>1, <3>2
  <2> QED BY <2>1, <2>2, <2>3 DEF Ranked
<1>7. PICK t \in 0..active : Marked(usage, block, active, t)
  BY <1>2
<1>8. t + 1 \in 0..active' /\ Marked(usage', block', active', t + 1)
  <2>1. ASSUME NEW k \in Slots, k < active'
        PROVE block'[k] = 1 <=> usage'[k] < t + 1
    <3>1. CASE k = active
      BY <1>2, <3>1
    <3>2. CASE k < active
      BY <1>1, <1>2, <1>4, <1>7, <3>2 DEF Marked
    <3> QED BY <1>5, <2>1, <3>1, <3>2
  <2>2. t + 1 \in 0..active'
    BY <1>1, <1>2
  <2> QED BY <2>1, <2>2 DEF Marked
<1>9. ColorsDistinct'
  BY <1>1, <1>5 DEF ColorsDistinct, Active, Insert, CacheTypeOK
<1> QED BY <1>2, <1>6, <1>8, <1>9

(* The last entry takes the place of entry i, which is not listed.          *)
LEMMA DropStep == ASSUME CacheInv, CacheTypeOK', Drop PROVE CacheInv'
<1> USE DEF CacheInv
<1>1. /\ active \in Nat /\ i \in Slots /\ i < active /\ active <= Entries
      /\ active - 1 \in Slots /\ active - 1 \in Nat
      /\ \A k \in Slots : k \in Nat
      /\ phase = "prune" /\ phase' = "prune" /\ active' = active - 1 /\ i' = i
      /\ block[i] = 0
  BY DvcCacheAssumption DEF CacheTypeOK, Slots, Drop
<1> DEFINE src(j) == IF j = i THEN active - 1 ELSE j
<1>2. ASSUME NEW j \in Slots
      PROVE /\ usage'[j] = usage[src(j)] /\ block'[j] = block[src(j)]
            /\ color'[j] = color[src(j)] /\ src(j) \in Slots
  BY <1>1 DEF Drop, CacheTypeOK
<1>3. ASSUME NEW j \in Active' PROVE src(j) \in Active /\ j \in Slots /\ j \in Active
  BY <1>1, <1>2 DEF Active
<1>4. ASSUME NEW j \in Active', NEW k \in Active', src(j) = src(k) PROVE j = k
  BY <1>1, <1>3, <1>4 DEF Active
<1>5. ASSUME NEW j \in Active' PROVE j \in Listed' <=> src(j) \in Listed
  <2>1. CASE j = i
    BY <1>1, <1>2, <1>3, <1>5, <2>1 DEF Listed
  <2>2. CASE j # i
    BY <1>1, <1>2, <1>3, <1>5, <2>2 DEF Listed
  <2> QED BY <2>1, <2>2
<1>6. ASSUME NEW k \in Listed PROVE \E j \in Listed' : src(j) = k
  <2>1. k \in Active /\ k \in Slots /\ k \in Nat /\ k < active /\ k # i
    BY <1>1 DEF Listed, Active
  <2>2. CASE k = active - 1
    <3>1. i \in Active' /\ src(i) = k
      BY <1>1, <2>1, <2>2 DEF Active
    <3> QED BY <1>5, <3>1
  <2>3. CASE k # active - 1
    <3>1. k \in Active' /\ src(k) = k
      BY <1>1, <2>1, <2>3 DEF Active
    <3> QED BY <1>5, <3>1
  <2> QED BY <2>2, <2>3
<1>7. PICK t \in Nat : Pruning(t)
  BY <1>1
<1>8. Listed' \subseteq Active' /\ \A j \in Active' : j \in Slots
  BY <1>3 DEF Listed
<1> HIDE DEF src
<1>9. Pruning(t)'
  <2>1. i' <= active'
    BY <1>1
  <2>2. \A j \in Slots : j < i' => block'[j] = 0
    BY <1>1, <1>2, <1>7 DEF Pruning, src
  <2>3. \A j, k \in Active' : usage'[j] = usage'[k] => j = k
    BY <1>2, <1>3, <1>4, <1>7 DEF Pruning
  <2>4. \A j \in Listed' : usage'[j] < t
    BY <1>2, <1>3, <1>5, <1>7, <1>8 DEF Pruning
  <2>5. \A r \in Nat : r < t => \E j \in Listed' : usage'[j] = r
    BY <1>2, <1>3, <1>6, <1>7, <1>8 DEF Pruning
  <2> QED BY <2>1, <2>2, <2>3, <2>4, <2>5 DEF Pruning
<1>10. ColorsDistinct'
  BY <1>2, <1>3, <1>4 DEF ColorsDistinct
<1> QED BY <1>1, <1>9, <1>10

(* A kept entry stays listed when its mark is cleared.                      *)
LEMMA KeepStep == ASSUME CacheInv, CacheTypeOK', Keep PROVE CacheInv'
<1> USE DEF CacheInv
<1>1. /\ active \in Nat /\ i \in Slots /\ i < active
      /\ \A k \in Slots : k \in Nat
      /\ phase = "prune" /\ phase' = "prune" /\ active' = active /\ i' = i + 1
      /\ usage' = usage /\ color' = color
      /\ block[i] = 1 /\ block'[i] = 0
      /\ \A k \in Slots : k # i => block'[k] = block[k]
  BY DvcCacheAssumption DEF CacheTypeOK, Slots, Keep
<1>2. Active' = Active /\ \A j \in Active : j \in Slots
  BY <1>1 DEF Active
<1>3. ASSUME NEW j \in Active PROVE j \in Listed' <=> j \in Listed
  BY <1>1, <1>2 DEF Listed
<1>4. Listed' = Listed
  BY <1>2, <1>3 DEF Listed
<1>5. PICK t \in Nat : Pruning(t)
  BY <1>1
<1>6. Pruning(t)'
  <2>1. i' <= active' /\ \A j \in Slots : j < i' => block'[j] = 0
    BY <1>1, <1>5 DEF Pruning
  <2> QED BY <1>1, <1>2, <1>4, <1>5, <2>1 DEF Pruning
<1>7. ColorsDistinct'
  BY <1>1, <1>2 DEF ColorsDistinct
<1> QED BY <1>1, <1>6, <1>7

(* The usages of the first n entries are 0 to t - 1, each of them once.     *)
Counts(u, n, t) ==
    /\ \A j \in 0..(n - 1) : u[j] \in 0..(t - 1)
    /\ \A r \in 0..(t - 1) : \E j \in 0..(n - 1) : u[j] = r
    /\ \A j, k \in 0..(n - 1) : u[j] = u[k] => j = k

(* Two ranges of naturals of which one counts the other are the same.       *)
LEMMA SameLength ==
  ASSUME NEW n \in Nat, NEW t \in Nat, NEW u, Counts(u, n, t)
  PROVE  n = t
<1> USE DEF Counts
<1> DEFINE S == 0..(n - 1)
           T == 0..(t - 1)
           f == [j \in S |-> u[j]]
<1>1. /\ f \in [S -> T]
      /\ \A j, k \in S : f[j] = f[k] => j = k
      /\ \A r \in T : \E j \in S : f[j] = r
  OBVIOUS
<1>2. f \in Bijection(S, T)
  <2> HIDE DEF f, S, T
  <2> QED BY <1>1, Fun_IsBij
<1>3. IsFiniteSet(S) /\ Cardinality(S) = n
  <2>1. 0 \in Int /\ n - 1 \in Int
    OBVIOUS
  <2>2. IsFiniteSet(S) /\ Cardinality(S) = IF 0 > n - 1 THEN 0 ELSE n - 1 - 0 + 1
    BY <2>1, FS_Interval
  <2> QED BY <2>2
<1>4. IsFiniteSet(T) /\ Cardinality(T) = t
  <2>1. 0 \in Int /\ t - 1 \in Int
    OBVIOUS
  <2>2. IsFiniteSet(T) /\ Cardinality(T) = IF 0 > t - 1 THEN 0 ELSE t - 1 - 0 + 1
    BY <2>1, FS_Interval
  <2> QED BY <2>2
<1>5. ExistsBijection(S, T)
  BY <1>2 DEF ExistsBijection
<1>6. Cardinality(T) = Cardinality(S)
  <2> HIDE DEF S, T
  <2> QED BY <1>3, <1>5, FS_Bijection
<1> QED BY <1>3, <1>4, <1>6

(* Pruning starts with the marked entries listed, and ends with all of them *)
(* listed and none marked.                                                  *)
LEMMA PruneStep == ASSUME CacheInv, CacheTypeOK', Prune \/ PruneDone \/ ResetCache PROVE CacheInv'
<1> USE DEF CacheInv
<1>0. /\ active \in Nat /\ active <= Entries /\ \A k \in Slots : k \in Nat
      /\ \A k \in Slots : usage[k] \in Nat
  BY DvcCacheAssumption DEF CacheTypeOK, Slots
<1>1. CASE Prune
  <2>1. /\ phase = "idle" /\ phase' = "prune" /\ i' = 0 /\ active' = active
        /\ usage' = usage /\ block' = block /\ color' = color
    BY <1>1 DEF Prune
  <2>2. PICK t \in 0..active : Marked(usage, block, active, t)
    BY <2>1
  <2>3. \A j \in Slots : j \in Listed' <=> j < active /\ block[j] = 1
    BY <1>0, <2>1 DEF Listed, Active
  <2>4. Pruning(t)'
    <3>1. i' <= active' /\ \A j \in Slots : j < i' => block'[j] = 0
      BY <1>0, <2>1
    <3>2. \A j, k \in Active' : usage'[j] = usage'[k] => j = k
      BY <2>1 DEF Ranked, Active
    <3>3. \A j \in Listed' : usage'[j] < t
      BY <2>1, <2>2, <2>3 DEF Marked, Listed, Active
    <3>4. \A r \in Nat : r < t => \E j \in Listed' : usage'[j] = r
      BY <1>0, <2>1, <2>2, <2>3 DEF Marked, Ranked
    <3> QED BY <3>1, <3>2, <3>3, <3>4 DEF Pruning
  <2>5. ColorsDistinct'
    BY <2>1 DEF ColorsDistinct, Active
  <2> QED BY <2>1, <2>4, <2>5
<1>2. CASE PruneDone
  <2>1. /\ phase = "prune" /\ phase' = "idle" /\ active' = active
        /\ usage' = usage /\ block' = block /\ color' = color /\ i >= active
    BY <1>2 DEF PruneDone
  <2>2. PICK t \in Nat : Pruning(t)
    BY <2>1
  <2>3. i = active
    BY <1>0, <2>1, <2>2 DEF Pruning, CacheTypeOK
  <2>4. \A j \in Slots : j \in Listed <=> j < active
    BY <2>1, <2>3 DEF Listed, Active
  <2>5. \A j \in 0..(active - 1) : j \in Slots /\ j < active
    BY <1>0, DvcCacheAssumption DEF Slots
  <2>6. \A j \in Slots : j < active => j \in 0..(active - 1)
    BY <1>0
  <2>7. /\ \A j \in Slots : j < active => usage[j] < t
        /\ \A r \in Nat : r < t => \E j \in Slots : j < active /\ usage[j] = r
        /\ \A j, k \in Slots : j < active /\ k < active /\ usage[j] = usage[k] => j = k
        /\ \A j \in Slots : j < active => block[j] = 0
    BY <2>2, <2>3, <2>4 DEF Pruning, Listed, Active
  <2>8. active = t
    <3>1. \A j \in 0..(active - 1) : usage[j] \in 0..(t - 1)
      BY <1>0, <2>5, <2>7
    <3>2. \A r \in 0..(t - 1) : \E j \in 0..(active - 1) : usage[j] = r
      BY <2>6, <2>7
    <3>3. \A j, k \in 0..(active - 1) : usage[j] = usage[k] => j = k
      BY <2>5, <2>7
    <3>4. active \in Nat /\ t \in Nat
      BY <1>0, <2>2
    <3>5. Counts(usage, active, t)
      BY <3>1, <3>2, <3>3 DEF Counts
    <3> QED BY <3>4, <3>5, SameLength
  <2>9. Ranked(usage, active)
    BY <2>7, <2>8 DEF Ranked
  <2>10. 0 \in 0..active /\ Marked(usage, block, active, 0)
    BY <1>0, <2>7 DEF Marked
  <2>11. ColorsDistinct'
    BY <2>1 DEF ColorsDistinct, Active
  <2> QED BY <2>1, <2>9, <2>10, <2>11
<1>3. CASE ResetCache
  <2>1. phase = "idle" /\ phase' = "idle" /\ active' = 0 /\ usage' = usage /\ block' = block
    BY <1>3 DEF ResetCache
  <2>2. \A j \in Slots : ~ (j < 0)
    BY <1>0
  <2>3. Ranked(usage, 0) /\ Marked(usage, block, 0, 0) /\ 0 \in 0..0
    BY <2>2 DEF Ranked, Marked
  <2>4. ColorsDistinct'
    BY <2>1, <2>2 DEF ColorsDistinct, Active
  <2> QED BY <2>1, <2>3, <2>4
<1> QED BY <1>1, <1>2, <1>3

-----------------------------------------------------------------------------
LEMMA CacheStep == CacheInv /\ [CacheNext]_cacheVars => CacheInv'
<1> SUFFICES ASSUME CacheInv, [CacheNext]_cacheVars PROVE CacheInv'
  OBVIOUS
<1>0. CacheTypeOK'
  BY TypeStep DEF CacheInv
<1>1. CASE UNCHANGED cacheVars
  BY <1>1 DEF cacheVars, CacheInv, CacheTypeOK, Pruning, Listed, ColorsDistinct, Active
<1>2. ASSUME NEW c \in Colors, Hit(c) PROVE CacheInv'
  <2>1. PICK j \in Active : /\ usage' = Rejuvenate(j, usage[j], active)
                            /\ block' = [block EXCEPT ![j] = 1]
    BY <1>2 DEF Hit
  <2>2. ColorsDistinct'
    BY <1>2 DEF Hit, CacheInv, ColorsDistinct, Active
  <2>3. phase = "idle" /\ phase' = "idle" /\ active' = active
    BY <1>2 DEF Hit
  <2> QED BY <1>0, <2>1, <2>2, <2>3, UseStep
<1>3. ASSUME NEW r \in Slots, Find(r) PROVE CacheInv'
  <2>1. PICK j \in Active : /\ usage[j] = r /\ usage' = Rejuvenate(j, r, active)
                            /\ block' = [block EXCEPT ![j] = 1]
    BY <1>3 DEF Find
  <2>2. ColorsDistinct'
    BY <1>3 DEF Find, CacheInv, ColorsDistinct, Active
  <2>3. phase = "idle" /\ phase' = "idle" /\ active' = active
    BY <1>3 DEF Find
  <2> QED BY <1>0, <2>1, <2>2, <2>3, UseStep
<1>4. ASSUME NEW c \in Colors, Replace(c) PROVE CacheInv'
  <2>1. PICK j \in Slots : /\ color' = [color EXCEPT ![j] = c]
                           /\ usage' = Rejuvenate(j, usage[j], active)
                           /\ block' = [block EXCEPT ![j] = 1]
    BY <1>4 DEF Replace
  <2>2. phase = "idle" /\ phase' = "idle" /\ active' = active /\ active = Entries
    BY <1>4 DEF Replace
  <2>3. j \in Active /\ Active' = Active /\ \A k \in Active : k \in Slots
    BY <2>2, DvcCacheAssumption DEF Active, Slots
  <2>4. ColorsDistinct'
    <3>1. color'[j] = c /\ \A k \in Active : k # j => color'[k] = color[k]
      BY <2>1, <2>3 DEF CacheInv, CacheTypeOK
    <3>2. \A k \in Active : color[k] # c
      BY <1>4 DEF Replace
    <3> QED BY <2>3, <3>1, <3>2 DEF CacheInv, ColorsDistinct
  <2> QED BY <1>0, <2>1, <2>2, <2>3, <2>4, UseStep
<1>5. ASSUME NEW c \in Colors, Insert(c) PROVE CacheInv'
  BY <1>0, <1>5, InsertStep
<1>6. CASE Prune \/ PruneDone \/ ResetCache
  BY <1>0, <1>6, PruneStep
<1>7. CASE Drop
  BY <1>0, <1>7, DropStep
<1>8. CASE Keep
  BY <1>0, <1>8, KeepStep
<1> QED BY <1>1, <1>2, <1>3, <1>4, <1>5, <1>6, <1>7, <1>8 DEF CacheNext

LEMMA CacheInvariant == CacheSpec => []CacheInv
<1>1. CacheInit => CacheInv
  <2> SUFFICES ASSUME CacheInit PROVE CacheInv
    OBVIOUS
  <2>1. CacheTypeOK
    BY DvcCacheAssumption DEF CacheInit, CacheTypeOK, Slots
  <2>2. \A j \in Slots : ~ (j < 0)
    BY DvcCacheAssumption DEF Slots
  <2>3. Ranked(usage, 0) /\ Marked(usage, block, 0, 0) /\ 0 \in 0..0
    BY <2>2 DEF Ranked, Marked
  <2>4. active = 0 /\ phase = "idle" /\ ColorsDistinct
    BY <2>2 DEF CacheInit, ColorsDistinct, Active
  <2> QED BY <2>1, <2>3, <2>4 DEF CacheInv
<1>2. CacheInv /\ [CacheNext]_cacheVars => CacheInv'
  BY CacheStep
<1> QED BY <1>1, <1>2, PTL DEF CacheSpec

(* The entry counts and the marks of the colour cache keep their ranges.    *)
THEOREM TypeCorrect == CacheSpec => []CacheTypeOK
<1>1. CacheInv => CacheTypeOK
  BY DEF CacheInv
<1> QED BY <1>1, CacheInvariant, PTL

(* Whatever colours are used and wherever blocks end, the active entries of *)
(* the cache are ranked 0 to active - 1 without a gap, and hold different   *)
(* colours, for every cache size.                                           *)
THEOREM RanksInvariant == CacheSpec => [](UsagesAreRanks /\ ColorsDistinct)
<1>1. CacheInv => UsagesAreRanks /\ ColorsDistinct
  <2> SUFFICES ASSUME CacheInv, phase = "idle" PROVE UsagesAreRanks
    BY DEF CacheInv, UsagesAreRanks
  <2>1. Ranked(usage, active) /\ active \in Nat
    BY DvcCacheAssumption DEF CacheInv, CacheTypeOK
  <2> QED BY <2>1 DEF Ranked, UsagesAreRanks, Active
<1> QED BY <1>1, CacheInvariant, PTL
=============================================================================
