--------------------------- MODULE Overlay_proofs ---------------------------
(***************************************************************************)
(* The overlay: the edges that PartialMesh keeps and the routes that       *)
(* DirectRouting finds over them.                                          *)
(*                                                                         *)
(* PartialMesh is type correct, ends every handler with no more edges than *)
(* maxPeers and with every slot accounted for, and sheds no component out  *)
(* of reach when it makes room for an edge: for all peers, limits, pauses  *)
(* and orders of ids.  Maintenance sheds edges, and every edge shed calls  *)
(* maintenance again; what it leaves is proved by induction on how many of *)
(* these calls may be inside each other, with fewer edges in each.         *)
(*                                                                         *)
(* Routes of DirectRouting are loop-free, for any set of peers, any        *)
(* distance that is zero exactly on the diagonal, and any bounds.          *)
(***************************************************************************)
EXTENDS PartialMesh, DirectRouting, FiniteSetTheorems, FunctionTheorems,
        WellFoundedInduction, TLAPS

-----------------------------------------------------------------------------
(* Numbers                                                                   *)

\* Any set of natural numbers has a least one.
LEMMA LeastNumber ==
    ASSUME NEW T, T \subseteq Nat, T # {}
    PROVE  \E x \in T : \A y \in T : x <= y
<1> DEFINE R == {ss \in Nat \X Nat : ss[1] < ss[2]}
<1>1. IsWellFoundedOn(R, Nat)
  <2>1. R = OpToRel(<, Nat)
    BY DEF OpToRel
  <2> QED
    BY <2>1, NatLessThanWellFounded
<1>2. PICK x \in T : \A y \in T : ~(<<y, x>> \in R)
  <2> HIDE DEF R
  <2> QED
    BY <1>1, WFMin
<1>3. ASSUME NEW y \in T
      PROVE  x <= y
  <2>1. x \in Nat /\ y \in Nat
    OBVIOUS
  <2>2. y < x => <<y, x>> \in R
    BY <2>1
  <2> QED
    BY <1>2, <2>1, <2>2
<1> QED
  BY <1>3

\* Induction: a set with 0, and with n whenever it has n - 1, has all of 0..k.
LEMMA Upwards ==
    ASSUME NEW k \in Nat, NEW T, 0 \in T,
           \A n \in 1..k : n - 1 \in T => n \in T
    PROVE  0..k \subseteq T
<1> DEFINE U == (0..k) \ T
<1>1. SUFFICES ASSUME U # {}
               PROVE  FALSE
  OBVIOUS
<1>2. PICK x \in U : \A y \in U : x <= y
  <2>1. U \subseteq Nat
    OBVIOUS
  <2> HIDE DEF U
  <2> QED
    BY <1>1, <2>1, LeastNumber
<1>3. x \in 1..k /\ x - 1 \in 0..k /\ ~(x <= x - 1)
  BY <1>2
<1>4. x - 1 \in T
  BY <1>2, <1>3
<1> QED
  BY <1>2, <1>3, <1>4

-----------------------------------------------------------------------------
(* ForEach                                                                   *)

\* The calls of a loop, one after the other: after[i] is what the first i leave.
LEMMA LoopRuns ==
    ASSUME NEW k \in Nat, NEW ps, NEW c, NEW call
    PROVE  \E after : /\ after[0] = c
                      /\ \A i \in 1..k : after[i] = call[ps[i]][after[i - 1]]
                      /\ ForEach(k, ps, c, call) = after[k]
<1> DEFINE T == {n \in 0..k :
                   \E g : g = [i \in 0..n |-> IF i = 0 THEN c ELSE call[ps[i]][g[i - 1]]]}
<1>1. 0 \in T
  <2>1. 0..0 = {0}
    OBVIOUS
  <2> DEFINE g0 == [i \in 0..0 |-> c]
  <2>2. g0 = [i \in 0..0 |-> IF i = 0 THEN c ELSE call[ps[i]][g0[i - 1]]]
    BY <2>1
  <2> HIDE DEF g0
  <2>3. \E g : g = [i \in 0..0 |-> IF i = 0 THEN c ELSE call[ps[i]][g[i - 1]]]
    BY <2>2
  <2> QED
    BY <2>3
<1>2. ASSUME NEW n \in 1..k, n - 1 \in T
      PROVE  n \in T
  <2>1. PICK g : g = [i \in 0..(n - 1) |-> IF i = 0 THEN c ELSE call[ps[i]][g[i - 1]]]
    BY <1>2
  <2> DEFINE h == [i \in 0..n |-> IF i = n THEN call[ps[n]][g[n - 1]] ELSE g[i]]
  <2>2. ASSUME NEW i \in 0..n
        PROVE  h[i] = IF i = 0 THEN c ELSE call[ps[i]][h[i - 1]]
    <3>1. CASE i = n
      <4>1. i # 0 /\ i - 1 \in 0..n /\ i - 1 # n /\ h[i - 1] = g[n - 1]
        BY <3>1
      <4> QED
        BY <3>1, <4>1
    <3>2. CASE i # n
      <4>1. i \in 0..(n - 1)
        BY <3>2
      <4>2. h[i] = g[i] /\ g[i] = IF i = 0 THEN c ELSE call[ps[i]][g[i - 1]]
        BY <2>1, <3>2, <4>1
      <4>3. i # 0 => i - 1 \in 0..n /\ i - 1 # n /\ h[i - 1] = g[i - 1]
        BY <3>2, <4>1
      <4> HIDE DEF h
      <4> QED
        BY <4>2, <4>3
    <3> QED
      BY <3>1, <3>2
  <2>3. h = [i \in 0..n |-> IF i = 0 THEN c ELSE call[ps[i]][h[i - 1]]]
    <3>1. h = [i \in 0..n |-> h[i]]
      OBVIOUS
    <3> HIDE DEF h
    <3> QED
      BY <2>2, <3>1
  <2> HIDE DEF h
  <2> QED
    BY <2>3
<1>3. k \in T
  <2> HIDE DEF T
  <2>1. 0..k \subseteq T
    BY <1>1, <1>2, Upwards
  <2> QED
    BY <2>1
<1> DEFINE Calls(g) == g = [i \in 0..k |-> IF i = 0 THEN c ELSE call[ps[i]][g[i - 1]]]
           after == CHOOSE g : Calls(g)
<1>4. after = [i \in 0..k |-> IF i = 0 THEN c ELSE call[ps[i]][after[i - 1]]]
  <2>1. \E g : Calls(g)
    BY <1>3
  <2>2. Calls(after)
    <3> HIDE DEF Calls
    <3> QED
      BY <2>1
  <2> HIDE DEF after
  <2> QED
    BY <2>2
<1>5. ForEach(k, ps, c, call) = after[k]
  BY DEF ForEach
<1> HIDE DEF after
<1>6. after[0] = c /\ \A i \in 1..k : after[i] = call[ps[i]][after[i - 1]]
  BY <1>4
<1> QED
  BY <1>5, <1>6

\* A property of the state that every call of a loop passes on, the one that
\* belongs to its place, holds after the last.
LEMMA LoopInvariant ==
    ASSUME NEW k \in Nat, NEW ps, NEW c, NEW call, NEW J, c \in J[0],
           \A i \in 1..k : \A d \in J[i - 1] : call[ps[i]][d] \in J[i]
    PROVE  ForEach(k, ps, c, call) \in J[k]
<1>1. PICK after : /\ after[0] = c
                   /\ \A i \in 1..k : after[i] = call[ps[i]][after[i - 1]]
                   /\ ForEach(k, ps, c, call) = after[k]
  BY LoopRuns
<1> DEFINE T == {i \in 0..k : after[i] \in J[i]}
<1>3. 0 \in T
  BY <1>1
<1>4. ASSUME NEW n \in 1..k, n - 1 \in T
      PROVE  n \in T
  <2>1. n \in 0..k /\ n # 0 /\ after[n - 1] \in J[n - 1]
    BY <1>4
  <2>2. after[n] = call[ps[n]][after[n - 1]]
    BY <1>1, <2>1
  <2> QED
    BY <2>1, <2>2
<1> HIDE DEF T
<1>5. 0..k \subseteq T
  BY <1>3, <1>4, Upwards
<1>6. k \in T
  BY <1>5
<1> QED
  BY <1>1, <1>6 DEF T

\* Keys are keys of peers in S: n - 1 numbers, the last of them different for
\* different peers, and the peer.
KeysOf(S, key, n) ==
    /\ \A p \in S : /\ Len(key[p]) = n /\ key[p][n] = p
                    /\ \A i \in 1..(n - 1) : key[p][i] \in Int
    /\ \A p, q \in S : key[p][n - 1] = key[q][n - 1] => p = q

\* ps names every member of S once.
Lists(ps, S) ==
    /\ Cardinality(S) \in Nat
    /\ \A i \in 1..Cardinality(S) : ps[i] \in S
    /\ \A i, j \in 1..Cardinality(S) : ps[i] = ps[j] => i = j
    /\ \A p \in S : \E i \in 1..Cardinality(S) : ps[i] = p

\* Keys of one length are totally ordered.
LEMMA KeysAreOrdered ==
    ASSUME NEW S, NEW key, NEW n \in Nat \ {0, 1}, KeysOf(S, key, n),
           NEW p \in S, NEW q \in S, NEW r \in S
    PROVE  /\ ~Lexicographic(key[p], key[p])
           /\ Lexicographic(key[p], key[q]) /\ Lexicographic(key[q], key[r])
                => Lexicographic(key[p], key[r])
           /\ p # q => Lexicographic(key[p], key[q]) \/ Lexicographic(key[q], key[p])
<1>1. /\ Len(key[p]) = n /\ Len(key[q]) = n /\ Len(key[r]) = n
      /\ \A i \in 1..(n - 1) : key[p][i] \in Int /\ key[q][i] \in Int /\ key[r][i] \in Int
  BY DEF KeysOf
<1>2. ~Lexicographic(key[p], key[p])
  BY <1>1 DEF Lexicographic
<1>3. ASSUME Lexicographic(key[p], key[q]), Lexicographic(key[q], key[r])
      PROVE  Lexicographic(key[p], key[r])
  <2>1. PICK i \in 1..(n - 1) : /\ key[p][i] < key[q][i]
                                /\ \A k \in 1..(i - 1) : key[p][k] = key[q][k]
    BY <1>1, <1>3 DEF Lexicographic
  <2>2. PICK j \in 1..(n - 1) : /\ key[q][j] < key[r][j]
                                /\ \A k \in 1..(j - 1) : key[q][k] = key[r][k]
    BY <1>1, <1>3 DEF Lexicographic
  <2>3. CASE i <= j
    <3>1. key[p][i] < key[r][i]
      BY <1>1, <2>1, <2>2, <2>3
    <3>2. \A k \in 1..(i - 1) : key[p][k] = key[r][k]
      BY <2>1, <2>2, <2>3
    <3> QED
      BY <1>1, <3>1, <3>2 DEF Lexicographic
  <2>4. CASE j < i
    <3>1. key[p][j] < key[r][j]
      BY <1>1, <2>1, <2>2, <2>4
    <3>2. \A k \in 1..(j - 1) : key[p][k] = key[r][k]
      BY <2>1, <2>2, <2>4
    <3> QED
      BY <1>1, <3>1, <3>2 DEF Lexicographic
  <2> QED
    BY <2>3, <2>4
<1>4. ASSUME p # q
      PROVE  Lexicographic(key[p], key[q]) \/ Lexicographic(key[q], key[p])
  <2> DEFINE T == {i \in 1..(n - 1) : key[p][i] # key[q][i]}
  <2>1. n - 1 \in T
    BY <1>4 DEF KeysOf
  <2>2. PICK i \in T : \A k \in T : i <= k
    <3>1. T \subseteq Nat /\ T # {}
      BY <2>1
    <3> HIDE DEF T
    <3> QED
      BY <3>1, LeastNumber
  <2>3. \A k \in 1..(i - 1) : key[p][k] = key[q][k]
    BY <2>2
  <2>4. i \in 1..(n - 1) /\ (key[p][i] < key[q][i] \/ key[q][i] < key[p][i])
    BY <1>1
  <2> QED
    BY <1>1, <2>3, <2>4 DEF Lexicographic
<1> QED
  BY <1>2, <1>3, <1>4

\* InOrder lists the peers of its keys, each of them once, least key first.
LEMMA InOrderFacts ==
    ASSUME NEW S, IsFiniteSet(S), NEW key, NEW n \in Nat \ {0, 1}, KeysOf(S, key, n),
           NEW ps, ps = InOrder({key[p] : p \in S})
    PROVE  /\ Lists(ps, S)
           /\ \A q \in S : ~Lexicographic(key[q], key[ps[1]])
<1> DEFINE keys == {key[p] : p \in S}
           many == Cardinality(S)
           below(p) == {q \in S : Lexicographic(key[q], key[p])}
           under(u) == {v \in keys : Lexicographic(v, u)}
           name == [q \in S |-> key[q]]
           rank == [p \in S |-> Cardinality(below(p))]
           ith(i) == CHOOSE u \in keys : Cardinality(under(u)) = i - 1
<1>0. many \in Nat
  BY FS_CardinalityType
<1>1. \A p, q \in S : key[p] = key[q] => p = q
  BY DEF KeysOf
<1>2. Cardinality(keys) = many
  <2>1. name \in Bijection(S, keys)
    BY <1>1 DEF Bijection, Injection, Surjection, IsInjective
  <2> HIDE DEF name, keys
  <2> QED
    BY <2>1, FS_Bijection DEF ExistsBijection
<1>3. ASSUME NEW p \in S
      PROVE  /\ IsFiniteSet(below(p))
             /\ Cardinality(below(p)) \in 0..(many - 1)
             /\ Cardinality(under(key[p])) = Cardinality(below(p))
  <2>1. below(p) \in SUBSET S /\ p \notin below(p)
    BY KeysAreOrdered
  <2>2. [q \in below(p) |-> key[q]] \in Bijection(below(p), under(key[p]))
    BY <1>1 DEF Bijection, Injection, Surjection, IsInjective
  <2> HIDE DEF below, under
  <2>3. IsFiniteSet(below(p)) /\ Cardinality(below(p)) <= many /\ Cardinality(below(p)) # many
    BY <2>1, FS_Subset
  <2>4. Cardinality(below(p)) \in Nat
    BY <2>3, FS_CardinalityType
  <2>5. Cardinality(under(key[p])) = Cardinality(below(p))
    BY <2>2, <2>3, FS_Bijection DEF ExistsBijection
  <2> QED
    BY <1>0, <2>3, <2>4, <2>5
<1>11. \A p \in S : rank[p] = Cardinality(below(p))
  OBVIOUS
<1>12. \A p \in S : rank[p] \in 0..(many - 1)
  <2> HIDE DEF below, rank
  <2> QED
    BY <1>3, <1>11
<1>4. ASSUME NEW p \in S, NEW q \in S, Lexicographic(key[p], key[q])
      PROVE  rank[p] < rank[q]
  <2>1. below(p) \in SUBSET below(q) /\ p \in below(q) /\ p \notin below(p)
    BY <1>4, KeysAreOrdered
  <2> HIDE DEF below
  <2>2. /\ Cardinality(below(p)) <= Cardinality(below(q))
        /\ Cardinality(below(p)) # Cardinality(below(q))
    BY <1>3, <2>1, FS_Subset
  <2> HIDE DEF rank
  <2> QED
    BY <1>11, <1>12, <2>2
<1>5. ASSUME NEW p \in S, NEW q \in S, rank[p] = rank[q]
      PROVE  p = q
  <2> HIDE DEF rank
  <2> QED
    BY <1>4, <1>5, <1>12, KeysAreOrdered
<1>6. \A i \in 1..many : \E p \in S : rank[p] = i - 1
  <2>1. rank \in Injection(S, 0..(many - 1))
    <3>1. rank \in [S -> 0..(many - 1)]
      BY <1>12
    <3> HIDE DEF rank
    <3> QED
      BY <1>5, <3>1 DEF Injection, IsInjective
  <2>2. IsFiniteSet(0..(many - 1)) /\ Cardinality(0..(many - 1)) = many
    <3>1. many - 1 \in Int /\ (IF 0 > many - 1 THEN 0 ELSE (many - 1) - 0 + 1) = many
      BY <1>0
    <3> HIDE DEF many
    <3> QED
      BY <3>1, FS_Interval
  <2> HIDE DEF rank, many
  <2>3. rank \in Surjection(S, 0..(many - 1))
    BY <2>1, <2>2, FS_Injection DEF many
  <2>4. \A i \in 1..many : i - 1 \in 0..(many - 1)
    BY <1>0
  <2> QED
    BY <2>3, <2>4 DEF Surjection
<1>7. ASSUME NEW i \in 1..many
      PROVE  \E p \in S : ith(i) = key[p] /\ ps[i] = p /\ rank[p] = i - 1
  <2>1. PICK q \in S : rank[q] = i - 1
    BY <1>6
  <2>2. key[q] \in keys /\ Cardinality(under(key[q])) = i - 1
    <3> HIDE DEF below, under
    <3> QED
      BY <1>3, <2>1
  <2>3. ith(i) \in keys /\ Cardinality(under(ith(i))) = i - 1
    <3> HIDE DEF keys, under
    <3> QED
      BY <2>2
  <2>4. PICK p \in S : ith(i) = key[p]
    <3> HIDE DEF ith
    <3> QED
      BY <2>3
  <2>5. rank[p] = i - 1
    <3> HIDE DEF below, under, ith
    <3> QED
      BY <1>3, <2>3, <2>4
  <2>6. ps[i] = ith(i)[Len(ith(i))]
    <3> HIDE DEF keys
    <3>1. i \in 1..Cardinality(keys)
      BY <1>2
    <3>2. ps = InOrder(keys)
      BY DEF keys
    <3> QED
      BY <3>1, <3>2 DEF InOrder
  <2>7. key[p][Len(key[p])] = p
    BY DEF KeysOf
  <2> HIDE DEF ith
  <2> QED
    BY <2>4, <2>5, <2>6, <2>7
<1> HIDE DEF ith, rank, many
<1>8. ASSUME NEW p \in S
      PROVE  \E i \in 1..many : ps[i] = p
  <2>1. rank[p] \in 0..(many - 1)
    BY <1>12
  <2>2. rank[p] + 1 \in 1..many /\ (rank[p] + 1) - 1 = rank[p]
    BY <1>0, <2>1
  <2>3. ps[rank[p] + 1] = p
    BY <1>5, <1>7, <2>2
  <2> QED
    BY <2>2, <2>3
<1>9. ASSUME NEW q \in S
      PROVE  ~Lexicographic(key[q], key[ps[1]])
  <2>1. 1 \in 1..many
    <3>1. many # 0
      BY FS_EmptySet DEF many
    <3> QED
      BY <1>0, <3>1
  <2>2. PICK p \in S : ps[1] = p /\ rank[p] = 1 - 1
    BY <1>7, <2>1
  <2> QED
    BY <1>4, <1>12, <2>2
<1>10. \A i, j \in 1..many : ps[i] = ps[j] => i = j
  BY <1>7, <1>0
<1> QED
  BY <1>0, <1>7, <1>8, <1>9, <1>10 DEF many, Lists

\* What every handler, and every call inside a handler, keeps of a mesh state.
Fit(c) ==
    /\ c \in Mesh
    /\ \A p \in Peers : c.conn[p] = "connected" <=> c.rtc[p] = "open"
    /\ c.connecting \subseteq {p \in Peers : c.conn[p] = "pending"}
    /\ RebalanceTracked(c)
    /\ setup.minPeers <= c.maxPeers

\* The watchdog knows when every pending negotiation, but that of p, began.
TimedBut(c, p) == \A q \in Pending(c) \ {p} : c.startedFor[q] # None
Timed(c) == TimedBut(c, None)

\* d may follow c: it has no new edges and no slot without a starting time.
Kept(c, d) ==
    /\ Fit(d)
    /\ d.maxPeers = c.maxPeers
    /\ Connected(d) \subseteq Connected(c)
    /\ Timed(c) => Timed(d)

Degree(c) == Cardinality(Connected(c))

\* d follows c after maintenance, which sheds edges only above maxPeers.
Settled(c, d) ==
    /\ Kept(c, d)
    /\ Degree(d) <= d.maxPeers
    /\ Degree(c) <= c.maxPeers => Connected(d) = Connected(c)

\* d has the edges, slots and plans of c.
Alike(c, d) ==
    /\ d \in Mesh
    /\ d.maxPeers = c.maxPeers
    /\ d.conn = c.conn
    /\ d.connecting = c.connecting
    /\ d.drop = c.drop
    /\ \A p \in Peers : d.rtc[p] = "open" <=> c.rtc[p] = "open"
    /\ \A p \in Peers : d.startedFor[p] = None => c.startedFor[p] = None

-----------------------------------------------------------------------------
\* What the assumption says of the constants.
LEMMA ConstantFacts ==
    /\ \A s \in {"grace", "stalled", "backoffCap", "shed", "trim", "rebalance",
                 "attempt", "stable"} : Pause[s] \in Nat \ {0}
    /\ MaxFailures \in Nat \ {0} /\ MaxFaults \in Nat \ {0}
    /\ Backoff \in [1..MaxFailures -> 1..Pause["backoffCap"]]
    /\ IsFiniteSet(Peers)
    /\ None \notin Peers /\ None \notin Nat
  BY Assumption DEF PauseOK

\* The edges are finitely many.
LEMMA DegreeFacts ==
    ASSUME NEW c
    PROVE  /\ Connected(c) \subseteq Peers
           /\ IsFiniteSet(Connected(c))
           /\ Degree(c) \in Nat
           /\ Degree(c) <= Cardinality(Peers)
           /\ Cardinality(Peers) \in Nat
<1>1. Connected(c) \in SUBSET Peers
  BY DEF Connected
<1> QED
  BY <1>1, ConstantFacts, FS_Subset, FS_CardinalityType DEF Degree

\* Fewer edges.
LEMMA DegreeMonotone ==
    ASSUME NEW c, NEW d, Connected(d) \subseteq Connected(c)
    PROVE  /\ Degree(d) <= Degree(c)
           /\ Degree(d) = Degree(c) => Connected(d) = Connected(c)
  BY DegreeFacts, FS_Subset DEF Degree

\* A call that touches neither edges nor slots keeps the tables in order.
LEMMA AlikeIsFit ==
    ASSUME NEW c, Fit(c), NEW d, Alike(c, d)
    PROVE  /\ Fit(d)
           /\ Connected(d) = Connected(c)
           /\ Pending(d) = Pending(c)
           /\ \A p : TimedBut(c, p) => TimedBut(d, p)
           /\ Kept(c, d)
<1>1. Connected(d) = Connected(c) /\ Pending(d) = Pending(c)
  BY DEF Alike, Connected, Pending
<1>2. RebalanceTracked(d)
  BY DEF Alike, Fit, RebalanceTracked
<1>3. Fit(d)
  BY <1>2 DEF Alike, Fit
<1>4. Pending(c) \subseteq Peers
  BY DEF Fit, Pending
<1>5. \A p : TimedBut(c, p) => TimedBut(d, p)
  BY <1>1, <1>4 DEF TimedBut, Alike
<1> QED
  BY <1>1, <1>3, <1>5 DEF Kept, Timed, Alike

\* The count of failures stays in its bounds, and so does the back-off.
LEMMA FailureCounted ==
    ASSUME NEW c \in Mesh, NEW p \in Peers
    PROVE  /\ Least(c.failures[p] + 1, MaxFailures) \in 1..MaxFailures
           /\ Backoff[Least(c.failures[p] + 1, MaxFailures)] \in 1..Pause["backoffCap"]
<1>1. c.failures[p] \in 0..MaxFailures
  BY DEF Mesh
<1>2. Least(c.failures[p] + 1, MaxFailures) \in 1..MaxFailures
  <2>1. MaxFailures \in Nat \ {0}
    BY ConstantFacts
  <2> QED
    BY <1>1, <2>1 DEF Least
<1> QED
  BY <1>2, ConstantFacts

\* noteDialFailure touches neither edges nor slots.
LEMMA NoteDialFailureAlike ==
    ASSUME NEW c \in Mesh, NEW p \in Peers
    PROVE  Alike(c, NoteDialFailure(c, p))
<1> DEFINE n == Least(c.failures[p] + 1, MaxFailures)
<1>1. n \in 0..MaxFailures /\ Backoff[n] \in 0..(Pause["backoffCap"] + Pause["shed"])
  BY FailureCounted, ConstantFacts
<1>2. NoteDialFailure(c, p) = [c EXCEPT !.failures[p] = n, !.backoff[p] = Backoff[n]]
  BY DEF NoteDialFailure
<1> HIDE DEF n
<1>3. [c EXCEPT !.failures[p] = n, !.backoff[p] = Backoff[n]] \in Mesh
  BY <1>1 DEF Mesh
<1> QED
  BY <1>2, <1>3 DEF Alike, Mesh

\* noteDialSuccess touches neither edges nor slots.
LEMMA NoteDialSuccessAlike ==
    ASSUME NEW c \in Mesh, NEW p \in Peers
    PROVE  Alike(c, NoteDialSuccess(c, p))
<1>1. 0 \in 0..MaxFailures /\ 0 \in 0..(Pause["backoffCap"] + Pause["shed"])
  BY ConstantFacts
<1> QED
  BY <1>1 DEF NoteDialSuccess, Alike, Mesh

\* noteTransportDisconnect touches neither edges nor slots.
LEMMA NoteTransportDisconnectAlike ==
    ASSUME NEW c \in Mesh, NEW p \in Peers
    PROVE  Alike(c, NoteTransportDisconnect(c, p))
  BY NoteDialFailureAlike, NoteDialSuccessAlike DEF NoteTransportDisconnect

\* noteStablePeerConnections touches neither edges nor slots.
LEMMA NoteStableAlike ==
    ASSUME NEW c \in Mesh
    PROVE  Alike(c, NoteStable(c))
<1>1. 0 \in 0..MaxFailures /\ 0 \in 0..(Pause["backoffCap"] + Pause["shed"])
  BY ConstantFacts
<1> DEFINE stable == {p \in Connected(c) : c.heldFor[p] = Pause["stable"]}
<1> HIDE DEF stable
<1>2. [c EXCEPT !.failures = [p \in Peers |-> IF p \in stable THEN 0 ELSE @[p]],
                !.backoff = [p \in Peers |-> IF p \in stable THEN 0 ELSE @[p]]] \in Mesh
  BY <1>1 DEF Mesh
<1> QED
  BY <1>2 DEF NoteStable, Alike, Mesh, stable

\* recoverOrphanedRtcNegotiations closes only transports that no entry owns,
\* so that it touches neither edges nor slots.
LEMMA RecoverOrphansAlike ==
    ASSUME NEW c, Fit(c)
    PROVE  Alike(c, RecoverOrphans[c])
<1> DEFINE expired == {p \in Peers : /\ Orphan(c, p)
                                     /\ \/ c.rtc[p] = "dead"
                                        \/ c.orphanFor[p] = Pause["stalled"]}
           aged == [c EXCEPT
                      !.orphanFor = [p \in Peers |->
                         IF ~Orphan(c, p) \/ p \in expired THEN None
                         ELSE IF @[p] = None THEN 0 ELSE @[p]],
                      !.rtc = [p \in Peers |-> IF p \in expired THEN "none" ELSE @[p]]]
           counts == [p \in Peers |-> IF p \in expired
                          THEN NoteDialFailure(c, p).failures[p] ELSE c.failures[p]]
           pauses == [p \in Peers |-> IF p \in expired
                          THEN NoteDialFailure(c, p).backoff[p] ELSE c.backoff[p]]
<1>0. c \in Mesh
  BY DEF Fit
<1>1. RecoverOrphans[c] = [aged EXCEPT !.failures = counts, !.backoff = pauses]
  BY <1>0 DEF RecoverOrphans, Mesh
<1>2. \A p \in expired : p \in Peers /\ c.rtc[p] # "open"
  BY DEF Orphan
<1>3. aged \in Mesh /\ Alike(c, aged)
  <2> HIDE DEF expired
  <2>1. 0 \in 0..Pause["stalled"]
    BY ConstantFacts
  <2>2. aged \in Mesh
    BY <1>0, <2>1 DEF Mesh
  <2> QED
    BY <1>0, <1>2, <2>2 DEF Alike, Mesh
<1>4. /\ counts \in [Peers -> 0..MaxFailures]
      /\ pauses \in [Peers -> 0..(Pause["backoffCap"] + Pause["shed"])]
  <2>1. \A p \in Peers : NoteDialFailure(c, p) \in Mesh
    BY <1>0, NoteDialFailureAlike DEF Alike
  <2> HIDE DEF expired
  <2> QED
    BY <1>0, <2>1 DEF Mesh
<1> HIDE DEF expired, aged, counts, pauses
<1>5. [aged EXCEPT !.failures = counts, !.backoff = pauses] \in Mesh
  BY <1>3, <1>4 DEF Mesh
<1> QED
  BY <1>1, <1>3, <1>5 DEF Alike, Mesh

\* d is c without p: no entry, no open transport, no plan that needs p.
TornDown(c, d, p) ==
    /\ d \in Mesh
    /\ d.maxPeers = c.maxPeers
    /\ d.conn = [c.conn EXCEPT ![p] = "none"]
    /\ d.connecting = c.connecting \ {p}
    /\ d.startedFor = [c.startedFor EXCEPT ![p] = None]
    /\ d.rtc[p] # "open" /\ \A q \in Peers \ {p} : d.rtc[q] = c.rtc[q]
    /\ d.drop = [t \in Peers |-> IF t = p \/ c.drop[t] = p THEN None ELSE c.drop[t]]

\* d is c with a negotiation with p under way, which had no entry.
Dialled(c, d, p) ==
    /\ d \in Mesh
    /\ d.maxPeers = c.maxPeers
    /\ c.conn[p] = "none" /\ d.conn = [c.conn EXCEPT ![p] = "pending"]
    /\ d.connecting = c.connecting \cup {p}
    /\ d.startedFor[p] # None /\ \A q \in Peers \ {p} : d.startedFor[q] = c.startedFor[q]
    /\ c.rtc[p] # "open" /\ d.rtc = [c.rtc EXCEPT ![p] = "negotiating"]
    /\ d.drop = c.drop

-----------------------------------------------------------------------------
\* A teardown frees every slot of its peer, also one whose starting time was
\* already gone, and gives up the rebalance it takes part in.
LEMMA TornDownIsFit ==
    ASSUME NEW c, Fit(c), NEW p \in Peers, NEW d, TornDown(c, d, p)
    PROVE  /\ Fit(d)
           /\ Connected(d) = Connected(c) \ {p}
           /\ TimedBut(c, p) => Timed(d)
           /\ Kept(c, d)
<1>1. c \in Mesh /\ c.conn \in [Peers -> {"none", "pending", "connected"}]
      /\ c.drop \in [Peers -> Peers \cup {None}] /\ None \notin Peers
  BY ConstantFacts DEF Fit, Mesh
<1>2. Connected(d) = Connected(c) \ {p}
  BY <1>1 DEF Connected, TornDown
<1>3. RebalanceTracked(d)
  <2>1. RebalanceTracked(c)
    BY DEF Fit
  <2>2. ASSUME NEW t \in Peers, d.drop[t] # None
        PROVE  /\ d.conn[t] = "pending"
               /\ d.conn[d.drop[t]] = "connected"
               /\ \A u \in Peers \ {t} : d.drop[u] # d.drop[t]
    <3>1. t # p /\ c.drop[t] # p /\ d.drop[t] = c.drop[t] /\ c.drop[t] \in Peers
      BY <1>1, <2>2 DEF TornDown
    <3>2. /\ c.conn[t] = "pending" /\ c.conn[c.drop[t]] = "connected"
          /\ \A u \in Peers \ {t} : c.drop[u] # c.drop[t]
      BY <2>1, <2>2, <3>1 DEF RebalanceTracked
    <3>3. \A u \in Peers : d.drop[u] = None \/ d.drop[u] = c.drop[u]
      BY DEF TornDown
    <3> QED
      BY <1>1, <2>2, <3>1, <3>2, <3>3 DEF TornDown
  <2> QED
    BY <2>2 DEF RebalanceTracked
<1>4. Fit(d)
  BY <1>1, <1>3 DEF Fit, TornDown
<1>5. Pending(d) = Pending(c) \ {p}
  BY <1>1 DEF Pending, TornDown
<1>6. ASSUME TimedBut(c, p)
      PROVE  Timed(d)
  <2>1. \A q \in Pending(d) : q \in Pending(c) \ {p} /\ q \in Peers
    BY <1>1, <1>5 DEF Fit, Pending
  <2>2. \A q \in Peers \ {p} : d.startedFor[q] = c.startedFor[q]
    BY <1>1 DEF TornDown, Mesh
  <2> QED
    BY <1>6, <2>1, <2>2 DEF Timed, TimedBut
<1>7. Timed(c) => TimedBut(c, p)
  BY <1>1 DEF Timed, TimedBut, Pending, Fit
<1> QED
  BY <1>2, <1>4, <1>6, <1>7 DEF Kept, TornDown

\* A dial, or an answered offer, takes a slot with its starting time.
LEMMA DialledIsFit ==
    ASSUME NEW c, Fit(c), NEW p \in Peers, NEW d, Dialled(c, d, p)
    PROVE  /\ Fit(d)
           /\ Connected(d) = Connected(c)
           /\ Kept(c, d)
<1>1. c \in Mesh /\ c.conn \in [Peers -> {"none", "pending", "connected"}]
      /\ None \notin Peers /\ None \notin Nat
  BY ConstantFacts DEF Fit, Mesh
<1>2. Connected(d) = Connected(c)
  BY <1>1 DEF Connected, Dialled
<1>3. RebalanceTracked(d)
  BY <1>1 DEF RebalanceTracked, Fit, Mesh, Dialled
<1>4. Fit(d)
  BY <1>1, <1>3 DEF Fit, Mesh, Dialled
<1>5. Pending(d) \subseteq Pending(c) \cup {p} /\ Pending(c) \subseteq Peers
  BY <1>1 DEF Pending, Dialled, Fit
<1>6. Timed(c) => Timed(d)
  <2>1. d.startedFor[p] # None /\ \A q \in Peers \ {p} : d.startedFor[q] = c.startedFor[q]
    BY <1>1 DEF Dialled, Mesh
  <2> QED
    BY <1>1, <1>5, <2>1 DEF Timed, TimedBut
<1> QED
  BY <1>2, <1>4, <1>6 DEF Kept, Dialled

\* What forgetRebalance changes.
LEMMA ForgetRebalanceFacts ==
    ASSUME NEW c \in Mesh, NEW p \in Peers, NEW d, d = ForgetRebalance(c, p)
    PROVE  /\ d \in Mesh /\ d.maxPeers = c.maxPeers /\ d.conn = c.conn
           /\ d.connecting = c.connecting /\ d.startedFor = c.startedFor /\ d.rtc = c.rtc
           /\ d.drop = [t \in Peers |-> IF t = p \/ c.drop[t] = p THEN None ELSE c.drop[t]]
  BY DEF ForgetRebalance, Mesh

\* A rebalance is given up.
LEMMA ForgetRebalanceIsFit ==
    ASSUME NEW c, Fit(c), NEW p \in Peers, NEW d, d = ForgetRebalance(c, p)
    PROVE  /\ Fit(d)
           /\ Connected(d) = Connected(c)
           /\ Pending(d) = Pending(c)
           /\ \A q : TimedBut(c, q) => TimedBut(d, q)
           /\ Kept(c, d)
<1>1. /\ d \in Mesh /\ d.maxPeers = c.maxPeers /\ d.conn = c.conn
      /\ d.connecting = c.connecting /\ d.startedFor = c.startedFor /\ d.rtc = c.rtc
      /\ d.drop = [t \in Peers |-> IF t = p \/ c.drop[t] = p THEN None ELSE c.drop[t]]
  BY ForgetRebalanceFacts DEF Fit
<1>2. RebalanceTracked(d)
  BY <1>1 DEF RebalanceTracked, Fit
<1>3. Connected(d) = Connected(c) /\ Pending(d) = Pending(c)
  BY <1>1 DEF Connected, Pending
<1>4. Fit(d)
  BY <1>1, <1>2 DEF Fit
<1>5. \A q : TimedBut(c, q) => TimedBut(d, q)
  BY <1>1, <1>3 DEF TimedBut
<1> QED
  BY <1>1, <1>3, <1>4, <1>5 DEF Kept, Timed

\* What the teardown of an entry changes.
LEMMA ForgetFacts ==
    ASSUME NEW c \in Mesh, NEW p \in Peers, NEW d, d = Forget(c, p)
    PROVE  /\ d \in Mesh /\ d.maxPeers = c.maxPeers /\ d.drop = c.drop /\ d.rtc = c.rtc
           /\ d.conn = [c.conn EXCEPT ![p] = "none"]
           /\ d.connecting = c.connecting \ {p}
           /\ d.startedFor = [c.startedFor EXCEPT ![p] = None]
  BY DEF Forget, Mesh

\* disconnectFromPeer and removePeer, up to the maintenance they cause.
LEMMA RemovalTearsDown ==
    ASSUME NEW c \in Mesh, NEW p \in Peers
    PROVE  TornDown(c, [Forget(ForgetRebalance(c, p), p) EXCEPT
                          !.rtc[p] = "none", !.orphanFor[p] = None], p)
<1> DEFINE b == ForgetRebalance(c, p)
           d == Forget(b, p)
           e == [d EXCEPT !.rtc[p] = "none", !.orphanFor[p] = None]
<1>1. b \in Mesh /\ d \in Mesh
  BY ForgetRebalanceFacts, ForgetFacts
<1>2. /\ d.maxPeers = c.maxPeers
      /\ d.conn = [c.conn EXCEPT ![p] = "none"]
      /\ d.connecting = c.connecting \ {p}
      /\ d.startedFor = [c.startedFor EXCEPT ![p] = None]
      /\ d.rtc = c.rtc
      /\ d.drop = [t \in Peers |-> IF t = p \/ c.drop[t] = p THEN None ELSE c.drop[t]]
  <2> HIDE DEF b, d, e
  <2>1. b = ForgetRebalance(c, p) /\ d = Forget(b, p)
    BY DEF b, d
  <2>2. /\ b.maxPeers = c.maxPeers /\ b.conn = c.conn
        /\ b.connecting = c.connecting /\ b.startedFor = c.startedFor /\ b.rtc = c.rtc
        /\ b.drop = [t \in Peers |-> IF t = p \/ c.drop[t] = p THEN None ELSE c.drop[t]]
    BY <2>1, ForgetRebalanceFacts
  <2>3. /\ d.maxPeers = b.maxPeers /\ d.drop = b.drop /\ d.rtc = b.rtc
        /\ d.conn = [b.conn EXCEPT ![p] = "none"]
        /\ d.connecting = b.connecting \ {p}
        /\ d.startedFor = [b.startedFor EXCEPT ![p] = None]
    <3>1. b \in Mesh
      BY <1>1
    <3>2. d = Forget(b, p)
      BY <2>1
    <3> QED
      BY <3>1, <3>2 DEF Forget, Mesh
  <2> QED
    BY <2>2, <2>3
<1> HIDE DEF b, d
<1>3. e \in Mesh
  BY <1>1 DEF Mesh
<1>4. /\ e.maxPeers = d.maxPeers /\ e.conn = d.conn /\ e.connecting = d.connecting
      /\ e.startedFor = d.startedFor /\ e.drop = d.drop
      /\ e.rtc = [d.rtc EXCEPT ![p] = "none"]
  BY <1>1 DEF Mesh
<1> HIDE DEF e
<1>5. d.rtc \in [Peers -> {"none", "negotiating", "open", "dead"}]
  BY <1>1 DEF Mesh
<1>6. TornDown(c, e, p)
  BY <1>2, <1>3, <1>4, <1>5 DEF TornDown
<1> QED
  BY <1>6 DEF e, d, b

\* connectToPeerInternal dials, or does no more than close a dead transport.
LEMMA ConnectToFacts ==
    ASSUME NEW c \in Mesh, NEW p \in Peers, NEW overflow, NEW d, d = ConnectTo(c, p, overflow)
    PROVE  Alike(c, d) \/ Dialled(c, d, p)
<1> DEFINE closed == [c EXCEPT !.rtc[p] = "none"]
           begun == [closed EXCEPT !.conn[p] = "pending", !.connecting = @ \cup {p},
                           !.startedFor[p] = 0, !.rtc[p] = "negotiating",
                           !.orphanFor[p] = None, !.dialled = @ \cup {p}]
<1>1. CASE \/ ~registered
           \/ p \in Pending(c) \cup Connected(c)
           \/ c.rtc[p] \in {"negotiating", "open"}
  <2>1. d = c
    BY <1>1 DEF ConnectTo
  <2> QED
    BY <2>1 DEF Alike
<1>2. CASE ~ \/ ~registered
             \/ p \in Pending(c) \cup Connected(c)
             \/ c.rtc[p] \in {"negotiating", "open"}
  <2>1. c.conn[p] = "none" /\ c.rtc[p] # "open"
    BY <1>2 DEF Pending, Connected, Mesh
  <2>2. closed \in Mesh /\ Alike(c, closed)
    BY <2>1 DEF Alike, Mesh
  <2>3. d = closed \/ d = begun
    BY <1>2 DEF ConnectTo
  <2>4. Dialled(c, begun, p)
    <3>1. 0 \in 0..Pause["stalled"]
      BY ConstantFacts
    <3>2. begun \in Mesh
      <4>1. closed \in Mesh
        BY <2>2
      <4> HIDE DEF closed
      <4>2. /\ [closed.conn EXCEPT ![p] = "pending"] \in [Peers -> {"none", "pending", "connected"}]
            /\ closed.connecting \cup {p} \in SUBSET Peers
            /\ [closed.startedFor EXCEPT ![p] = 0] \in [Peers -> 0..Pause["stalled"] \cup {None}]
            /\ [closed.rtc EXCEPT ![p] = "negotiating"]
                 \in [Peers -> {"none", "negotiating", "open", "dead"}]
            /\ [closed.orphanFor EXCEPT ![p] = None] \in [Peers -> 0..Pause["stalled"] \cup {None}]
            /\ closed.dialled \cup {p} \in SUBSET Peers
        BY <3>1, <4>1 DEF Mesh
      <4> QED
        BY <4>1, <4>2 DEF Mesh
    <3> QED
      BY <2>1, <3>2 DEF Dialled, Mesh
  <2> QED
    BY <2>2, <2>3, <2>4
<1> QED
  BY <1>1, <1>2

\* connectToPeer: a dial, or nothing but a dead transport closed.
LEMMA ConnectToIsFit ==
    ASSUME NEW c, Fit(c), NEW p \in Peers, NEW overflow, NEW d, d = ConnectTo(c, p, overflow)
    PROVE  Fit(d) /\ Connected(d) = Connected(c) /\ Kept(c, d)
<1>1. c \in Mesh
  BY DEF Fit
<1> QED
  BY <1>1, ConnectToFacts, AlikeIsFit, DialledIsFit

\* maintain does what maintenance should, with fewer than n edges.
Maintains(maintain, n) ==
    \A d \in Mesh : Fit(d) /\ Degree(d) < n => Settled(d, maintain[d])

-----------------------------------------------------------------------------
(* The orders of dialling and shedding                                       *)

\* What the assumption says of a setup.
LEMMA SetupFacts ==
    ASSUME setup \in Setups
    PROVE  /\ setup.minPeers \in Nat /\ setup.maxPeers \in Nat /\ setup.tolerantPeers \in Nat
           /\ setup.minPeers <= setup.maxPeers /\ setup.limits \subseteq Nat
           /\ setup.order \in [Peers -> Nat] /\ setup.capacity \in [Peers -> Nat]
           /\ setup.distance \in [Peers -> Nat]
           /\ setup.component \in [Peers -> Nat]
           /\ setup.live \subseteq Peers
           /\ \A p, q \in Peers : setup.order[p] = setup.order[q] => p = q
           /\ \A v \in setup.snapshots : v.active \subseteq v.peers /\ v.peers \subseteq Peers
  BY Assumption DEF SetupOK

\* Two numbers and the id.
LEMMA OrderedByTwo ==
    ASSUME setup \in Setups, NEW S \in SUBSET Peers, NEW a \in [S -> Int], NEW b \in [S -> Int],
           NEW ps, ps = InOrder({<<a[p], b[p], setup.order[p], p>> : p \in S})
    PROVE  Lists(ps, S)
<1> DEFINE key == [p \in S |-> <<a[p], b[p], setup.order[p], p>>]
<1>1. IsFiniteSet(S)
  BY ConstantFacts, FS_Subset
<1>2. {<<a[p], b[p], setup.order[p], p>> : p \in S} = {key[p] : p \in S}
  OBVIOUS
<1>3. KeysOf(S, key, 4)
  <2>1. ASSUME NEW p \in S
        PROVE  /\ Len(key[p]) = 4 /\ key[p][4] = p /\ key[p][3] = setup.order[p]
               /\ \A i \in 1..(4 - 1) : key[p][i] \in Int
    <3>1. /\ key[p] = <<a[p], b[p], setup.order[p], p>>
          /\ a[p] \in Int /\ b[p] \in Int /\ setup.order[p] \in Int
      BY SetupFacts
    <3> HIDE DEF key
    <3>2. /\ Len(key[p]) = 4 /\ key[p][4] = p /\ key[p][3] = setup.order[p]
          /\ key[p][1] \in Int /\ key[p][2] \in Int /\ key[p][3] \in Int
      BY <3>1
    <3>3. \A i \in 1..(4 - 1) : i = 1 \/ i = 2 \/ i = 3
      OBVIOUS
    <3> QED
      BY <3>2, <3>3
  <2> HIDE DEF key
  <2>2. \A p, q \in S : key[p][4 - 1] = key[q][4 - 1] => p = q
    BY <2>1, SetupFacts
  <2> QED
    BY <2>1, <2>2 DEF KeysOf
<1> HIDE DEF key
<1>4. ps = InOrder({key[p] : p \in S})
  BY <1>2
<1> QED
  BY <1>1, <1>3, <1>4, InOrderFacts

\* Three numbers and the id.
LEMMA OrderedByThree ==
    ASSUME setup \in Setups, NEW S \in SUBSET Peers,
           NEW a \in [S -> Int], NEW b \in [S -> Int], NEW e \in [S -> Int],
           NEW ps, ps = InOrder({<<a[p], b[p], e[p], setup.order[p], p>> : p \in S})
    PROVE  Lists(ps, S)
<1> DEFINE key == [p \in S |-> <<a[p], b[p], e[p], setup.order[p], p>>]
<1>1. IsFiniteSet(S)
  BY ConstantFacts, FS_Subset
<1>2. {<<a[p], b[p], e[p], setup.order[p], p>> : p \in S} = {key[p] : p \in S}
  OBVIOUS
<1>3. KeysOf(S, key, 5)
  <2>1. ASSUME NEW p \in S
        PROVE  /\ Len(key[p]) = 5 /\ key[p][5] = p /\ key[p][4] = setup.order[p]
               /\ \A i \in 1..(5 - 1) : key[p][i] \in Int
    <3>1. /\ key[p] = <<a[p], b[p], e[p], setup.order[p], p>>
          /\ a[p] \in Int /\ b[p] \in Int /\ e[p] \in Int /\ setup.order[p] \in Int
      BY SetupFacts
    <3> HIDE DEF key
    <3>2. /\ Len(key[p]) = 5 /\ key[p][5] = p /\ key[p][4] = setup.order[p]
          /\ key[p][1] \in Int /\ key[p][2] \in Int /\ key[p][3] \in Int /\ key[p][4] \in Int
      BY <3>1
    <3>3. \A i \in 1..(5 - 1) : i = 1 \/ i = 2 \/ i = 3 \/ i = 4
      OBVIOUS
    <3> QED
      BY <3>2, <3>3
  <2> HIDE DEF key
  <2>2. \A p, q \in S : key[p][5 - 1] = key[q][5 - 1] => p = q
    BY <2>1, SetupFacts
  <2> QED
    BY <2>1, <2>2 DEF KeysOf
<1> HIDE DEF key
<1>4. ps = InOrder({key[p] : p \in S})
  BY <1>2
<1> QED
  BY <1>1, <1>3, <1>4, InOrderFacts

\* The order of dialling lists the candidates.
LEMMA DialOrderFacts ==
    ASSUME setup \in Setups, NEW c \in Mesh, NEW S \in SUBSET Peers, NEW ps, ps = DialOrder(c, S)
    PROVE  Lists(ps, S)
<1> DEFINE a == [p \in S |-> OverlayPriority(c, p)]
           b == [p \in S |-> setup.capacity[p]]
           e == [p \in S |-> c.failures[p]]
<1>1. a \in [S -> Int] /\ b \in [S -> Int] /\ e \in [S -> Int]
  BY SetupFacts DEF OverlayPriority, Mesh
<1>2. {DialKey(c, p) : p \in S} = {<<a[p], b[p], e[p], setup.order[p], p>> : p \in S}
  BY DEF DialKey
<1> HIDE DEF a, b, e
<1> QED
  BY <1>1, <1>2, OrderedByThree DEF DialOrder

\* The order of a Map lists its entries.
LEMMA EntriesFacts ==
    ASSUME setup \in Setups, NEW S \in SUBSET Peers, NEW ps, ps = Entries(S)
    PROVE  Lists(ps, S)
<1> DEFINE key == [p \in S |-> <<setup.order[p], p>>]
<1>1. IsFiniteSet(S)
  BY ConstantFacts, FS_Subset
<1>2. {<<setup.order[p], p>> : p \in S} = {key[p] : p \in S}
  OBVIOUS
<1>3. KeysOf(S, key, 2)
  BY SetupFacts DEF KeysOf
<1> HIDE DEF key
<1>4. ps = InOrder({key[p] : p \in S})
  BY <1>2 DEF Entries
<1> QED
  BY <1>1, <1>3, <1>4, InOrderFacts

\* Bridges come last.
LEMMA DropOrderFacts ==
    ASSUME setup \in Setups, NEW c \in Mesh, NEW ps, ps = DropOrder(c)
    PROVE  /\ Lists(ps, Connected(c))
           /\ ps[1] \in Bridges(c) => Connected(c) \subseteq Bridges(c)
<1> DEFINE S == Connected(c)
           key == [p \in S |-> DropKey(c, p)]
<1>1. S \subseteq Peers /\ IsFiniteSet(S)
  BY DegreeFacts
<1>2. {DropKey(c, p) : p \in S} = {key[p] : p \in S}
  OBVIOUS
<1>3. ASSUME NEW p \in S
      PROVE  /\ key[p] = <<Flag(p \in Bridges(c)), Flag(p \in Protected(c)),
                           Cardinality(c.elder[p]), setup.order[p], p>>
             /\ Flag(p \in Bridges(c)) \in Int /\ Flag(p \in Protected(c)) \in Int
             /\ Cardinality(c.elder[p]) \in Int /\ setup.order[p] \in Int
  <2>1. Flag(p \in Bridges(c)) \in Int /\ Flag(p \in Protected(c)) \in Int
    BY DEF Flag
  <2>2. c.elder[p] \in SUBSET Peers
    BY <1>1 DEF Mesh
  <2>3. Cardinality(c.elder[p]) \in Int
    BY <2>2, ConstantFacts, FS_Subset, FS_CardinalityType
  <2>4. setup.order[p] \in Int
    BY <1>1, SetupFacts
  <2> QED
    BY <2>1, <2>3, <2>4 DEF DropKey
<1> HIDE DEF key, S
<1>4. KeysOf(S, key, 5)
  <2>1. ASSUME NEW p \in S
        PROVE  /\ Len(key[p]) = 5 /\ key[p][5] = p /\ key[p][4] = setup.order[p]
               /\ \A i \in 1..(5 - 1) : key[p][i] \in Int
    <3>1. /\ Len(key[p]) = 5 /\ key[p][5] = p /\ key[p][4] = setup.order[p]
          /\ key[p][1] \in Int /\ key[p][2] \in Int /\ key[p][3] \in Int /\ key[p][4] \in Int
      BY <1>3
    <3>2. \A i \in 1..(5 - 1) : i = 1 \/ i = 2 \/ i = 3 \/ i = 4
      OBVIOUS
    <3> QED
      BY <3>1, <3>2
  <2>2. \A p, q \in S : key[p][5 - 1] = key[q][5 - 1] => p = q
    BY <1>1, <2>1, SetupFacts
  <2> QED
    BY <2>1, <2>2 DEF KeysOf
<1>5. ps = InOrder({key[p] : p \in S})
  BY <1>2 DEF DropOrder, S
<1>6. /\ Lists(ps, S)
      /\ \A q \in S : ~Lexicographic(key[q], key[ps[1]])
  BY <1>1, <1>4, <1>5, InOrderFacts
<1>7. ASSUME ps[1] \in Bridges(c), NEW q \in S
      PROVE  q \in Bridges(c)
  <2>1. ps[1] \in S
    BY <1>7 DEF Bridges, S
  <2>2. /\ Len(key[q]) = 5 /\ key[q][1] = Flag(q \in Bridges(c))
        /\ key[ps[1]][1] = Flag(ps[1] \in Bridges(c))
    BY <1>3, <2>1
  <2>3. ~(key[q][1] < key[ps[1]][1])
    <3>1. 1 \in 1..(Len(key[q]) - 1) /\ 1..(1 - 1) = {}
      BY <2>2
    <3>2. key[q][1] < key[ps[1]][1] => Lexicographic(key[q], key[ps[1]])
      BY <3>1 DEF Lexicographic
    <3> QED
      BY <1>6, <3>2
  <2> QED
    BY <1>7, <2>2, <2>3 DEF Flag
<1> QED
  BY <1>6, <1>7 DEF S

-----------------------------------------------------------------------------
(* Shedding                                                                  *)

\* removePeer, with the maintenance it causes.
LEMMA RemovePeerFacts ==
    ASSUME NEW c, Fit(c), NEW p \in Peers, NEW n \in Nat, NEW maintain, Maintains(maintain, n),
           Cardinality(Connected(c) \ {p}) < n, NEW d, d = RemovePeer(maintain, c, p)
    PROVE  /\ Fit(d)
           /\ d.maxPeers = c.maxPeers
           /\ Connected(d) \subseteq Connected(c) \ {p}
           /\ TimedBut(c, p) => Timed(d)
           /\ Kept(c, d)
           /\ Cardinality(Connected(c) \ {p}) <= c.maxPeers
                => Connected(d) = Connected(c) \ {p} /\ Degree(d) <= d.maxPeers
           /\ c.conn[p] # "none" => Degree(d) <= d.maxPeers
<1>0. c \in Mesh
  BY DEF Fit
<1>1. CASE c.conn[p] = "none"
  <2>1. d = ForgetRebalance(c, p)
    BY <1>1 DEF RemovePeer
  <2>2. p \notin Connected(c) /\ p \notin Pending(c)
    BY <1>1 DEF Connected, Pending, Fit
  <2>3. /\ Fit(d) /\ Connected(d) = Connected(c) /\ Kept(c, d)
        /\ TimedBut(c, p) => TimedBut(d, p)
        /\ Pending(d) = Pending(c)
    BY <2>1, ForgetRebalanceIsFit
  <2>4. TimedBut(c, p) => Timed(d)
    BY <2>2, <2>3 DEF Timed, TimedBut
  <2>5. Connected(c) \ {p} = Connected(c)
    BY <2>2
  <2> QED
    BY <1>1, <2>3, <2>4, <2>5 DEF Kept, Degree
<1>2. CASE c.conn[p] # "none"
  <2> DEFINE e == [Forget(ForgetRebalance(c, p), p) EXCEPT
                     !.rtc[p] = "none", !.orphanFor[p] = None]
  <2>1. TornDown(c, e, p)
    BY <1>0, RemovalTearsDown
  <2>2. d = maintain[e]
    BY <1>2 DEF RemovePeer
  <2> HIDE DEF e
  <2>3. /\ Fit(e) /\ Connected(e) = Connected(c) \ {p} /\ Kept(c, e)
        /\ TimedBut(c, p) => Timed(e)
    BY <2>1, TornDownIsFit
  <2>4. Degree(e) = Cardinality(Connected(c) \ {p})
    BY <2>3 DEF Degree
  <2>5. Settled(e, d)
    BY <2>2, <2>3, <2>4 DEF Maintains, Fit
  <2>6. e.maxPeers = c.maxPeers
    BY <2>3 DEF Kept
  <2> QED
    BY <2>3, <2>4, <2>5, <2>6 DEF Settled, Kept
<1> QED
  BY <1>1, <1>2

\* noteIntentionalShed touches neither edges nor slots.
LEMMA BackoffAlike ==
    ASSUME NEW c \in Mesh, NEW p \in Peers
    PROVE  Alike(c, [c EXCEPT !.backoff[p] = Pause["shed"]])
<1>1. Pause["shed"] \in 0..(Pause["backoffCap"] + Pause["shed"])
  BY ConstantFacts
<1>2. [c EXCEPT !.backoff[p] = Pause["shed"]] \in Mesh
  BY <1>1 DEF Mesh
<1> QED
  BY <1>2 DEF Alike, Mesh

\* The pause after a trim touches neither edges nor slots.
LEMMA CooldownAlike ==
    ASSUME NEW c \in Mesh
    PROVE  Alike(c, [c EXCEPT !.cooldown = Greatest(@, Pause["trim"])])
<1>1. Greatest(c.cooldown, Pause["trim"]) \in 0..(Pause["trim"] + Pause["rebalance"])
  <2>1. c.cooldown \in 0..(Pause["trim"] + Pause["rebalance"])
    BY DEF Mesh
  <2>2. Pause["trim"] \in Nat /\ Pause["rebalance"] \in Nat
    BY ConstantFacts
  <2> QED
    BY <2>1, <2>2 DEF Greatest
<1>2. [c EXCEPT !.cooldown = Greatest(c.cooldown, Pause["trim"])] \in Mesh
  BY <1>1 DEF Mesh
<1> QED
  BY <1>2 DEF Alike, Mesh

\* noteIntentionalShed and disconnectFromPeer
LEMMA ShedFacts ==
    ASSUME NEW c, Fit(c), NEW p \in Peers, NEW n \in Nat, NEW maintain, Maintains(maintain, n),
           Cardinality(Connected(c) \ {p}) < n, NEW d, d = Shed(maintain)[p][c]
    PROVE  /\ Fit(d)
           /\ d.maxPeers = c.maxPeers
           /\ Connected(d) \subseteq Connected(c) \ {p}
           /\ Kept(c, d)
           /\ Cardinality(Connected(c) \ {p}) <= c.maxPeers
                => Connected(d) = Connected(c) \ {p} /\ Degree(d) <= d.maxPeers
<1> DEFINE e == [c EXCEPT !.backoff[p] = Pause["shed"]]
<1>1. c \in Mesh
  BY DEF Fit
<1>2. d = RemovePeer(maintain, e, p)
  BY <1>1 DEF Shed
<1>3. Alike(c, e)
  BY <1>1, BackoffAlike
<1> HIDE DEF e
<1>4. Fit(e) /\ Connected(e) = Connected(c) /\ e.maxPeers = c.maxPeers /\ Kept(c, e)
  BY <1>3, AlikeIsFit DEF Alike
<1>5. /\ Fit(d) /\ d.maxPeers = e.maxPeers /\ Kept(e, d)
      /\ Connected(d) \subseteq Connected(e) \ {p}
      /\ Cardinality(Connected(e) \ {p}) <= e.maxPeers
           => Connected(d) = Connected(e) \ {p} /\ Degree(d) <= d.maxPeers
  BY <1>2, <1>4, RemovePeerFacts
<1> QED
  BY <1>4, <1>5 DEF Kept

\* trimExcessPeers sheds as many edges as there are too many, at least.
LEMMA TrimFacts ==
    ASSUME setup \in Setups, NEW c, Fit(c), NEW n \in Nat, NEW maintain, Maintains(maintain, n),
           Degree(c) <= n
    PROVE  Settled(c, Trim(maintain)[c])
<1> DEFINE k == Excess(c)
           ps == DropOrder(c)
           start == [c EXCEPT !.cooldown = Greatest(@, Pause["trim"])]
           shed(i) == {ps[j] : j \in 1..i}
           J == [i \in 0..k |-> {d \in Mesh : /\ Fit(d) /\ Kept(c, d)
                                              /\ Connected(d) \subseteq Connected(c) \ shed(i)}]
<1>1. c \in Mesh /\ c.maxPeers \in Nat /\ Degree(c) \in Nat
  BY DegreeFacts DEF Fit, Mesh
<1>2. k = Degree(c) - c.maxPeers
  BY DEF Excess, Degree
<1>3. CASE k <= 0
  <2>1. Trim(maintain)[c] = c
    BY <1>1, <1>3 DEF Trim
  <2>2. Degree(c) <= c.maxPeers
    BY <1>1, <1>2, <1>3
  <2> QED
    BY <2>1, <2>2 DEF Settled, Kept
<1>4. CASE k > 0
  <2>1. k \in Nat /\ k <= Degree(c) /\ k - 1 \in Nat /\ Degree(c) \in Nat
    BY <1>1, <1>2, <1>4
  <2>2. Trim(maintain)[c] = ForEach(k, ps, start, Shed(maintain))
    <3>1. ~(Excess(c) <= 0)
      BY <1>2, <1>4, <2>1
    <3> QED
      BY <1>1, <3>1 DEF Trim
  <2>3. Lists(ps, Connected(c))
    BY <1>1, DropOrderFacts
  <2>4. start \in J[0]
    <3>1. Alike(c, start)
      BY <1>1, CooldownAlike
    <3> HIDE DEF start, ps
    <3>2. Fit(start) /\ Connected(start) = Connected(c) /\ Kept(c, start) /\ start \in Mesh
      BY <3>1, AlikeIsFit DEF Alike
    <3>3. shed(0) = {}
      OBVIOUS
    <3> QED
      BY <2>1, <3>2, <3>3
  <2>5. ASSUME NEW i \in 1..k, NEW d \in J[i - 1]
        PROVE  Shed(maintain)[ps[i]][d] \in J[i]
    <3> DEFINE e == Shed(maintain)[ps[i]][d]
    <3>1. /\ i - 1 \in 0..k /\ i \in 0..k /\ i \in 1..Degree(c) /\ 1 \in 1..Degree(c)
          /\ i \in 1..i /\ 1 \in 1..i
      BY <2>1
    <3>2. Fit(d) /\ Kept(c, d) /\ Connected(d) \subseteq Connected(c) \ shed(i - 1)
      BY <3>1
    <3> HIDE DEF k, ps, J, shed, e
    <3>3. ps[i] \in Connected(c) /\ ps[1] \in Connected(c)
      BY <2>3, <3>1 DEF Lists, Degree
    <3>4. ps[i] \in Peers /\ IsFiniteSet(Connected(c))
      BY <3>3, DegreeFacts
    <3>5. Connected(d) \ {ps[i]} \in SUBSET (Connected(c) \ {ps[1]})
      <4>1. CASE i = 1
        BY <3>2, <4>1
      <4>2. CASE i # 1
        <5>1. 1 \in 1..(i - 1)
          BY <2>1, <4>2
        <5>2. ps[1] \in shed(i - 1)
          BY <5>1 DEF shed
        <5> QED
          BY <3>2, <5>2
      <4> QED
        BY <4>1, <4>2
    <3>6. Cardinality(Connected(d) \ {ps[i]}) < n
      <4>1. /\ IsFiniteSet(Connected(c) \ {ps[1]})
            /\ Cardinality(Connected(c) \ {ps[1]}) = Degree(c) - 1
        BY <3>3, <3>4, FS_RemoveElement DEF Degree
      <4>2. /\ Cardinality(Connected(d) \ {ps[i]}) <= Degree(c) - 1
            /\ Cardinality(Connected(d) \ {ps[i]}) \in Nat
        BY <3>5, <4>1, FS_Subset, FS_CardinalityType
      <4> QED
        BY <1>1, <4>2
    <3>7. /\ Fit(e) /\ Kept(d, e)
          /\ Connected(e) \subseteq Connected(d) \ {ps[i]}
      BY <3>2, <3>4, <3>6, ShedFacts DEF e
    <3>8. shed(i) \subseteq shed(i - 1) \cup {ps[i]}
      <4>1. \A j \in 1..i : j = i \/ j \in 1..(i - 1)
        BY <2>1
      <4> QED
        BY <4>1 DEF shed
    <3>9. Kept(c, e)
      BY <3>2, <3>7 DEF Kept
    <3>10. Connected(e) \subseteq Connected(c) \ shed(i)
      BY <3>2, <3>7, <3>8
    <3> QED
      BY <3>1, <3>7, <3>9, <3>10 DEF J, e, Fit
  <2> DEFINE d == Trim(maintain)[c]
  <2>6. d \in J[k]
    <3> HIDE DEF J, k, ps, start
    <3> QED
      BY <2>1, <2>2, <2>4, <2>5, LoopInvariant
  <2>7. Fit(d) /\ Kept(c, d) /\ Connected(d) \subseteq Connected(c) \ shed(k)
    <3> HIDE DEF d, shed
    <3>1. k \in 0..k
      BY <2>1
    <3> QED
      BY <2>6, <3>1
  <2>8. Cardinality(Connected(c) \ shed(k)) = c.maxPeers /\ IsFiniteSet(Connected(c) \ shed(k))
    <3>1. [j \in 1..k |-> ps[j]] \in Bijection(1..k, shed(k))
      <4>1. \A j \in 1..k : j \in 1..Cardinality(Connected(c))
        BY <2>1 DEF Degree
      <4> HIDE DEF ps, k
      <4>2. \A i, j \in 1..k : ps[i] = ps[j] => i = j
        BY <2>3, <4>1 DEF Lists
      <4> QED
        BY <4>2 DEF Bijection, Injection, Surjection, IsInjective
    <3>2. IsFiniteSet(1..k) /\ Cardinality(1..k) = k
      <4>1. 1 \in Int /\ k \in Int /\ (IF 1 > k THEN 0 ELSE k - 1 + 1) = k
        BY <2>1
      <4> HIDE DEF k
      <4> QED
        BY <4>1, FS_Interval
    <3>3. shed(k) \subseteq Connected(c)
      <4>1. \A j \in 1..k : j \in 1..Cardinality(Connected(c))
        BY <2>1 DEF Degree
      <4> HIDE DEF ps, k
      <4> QED
        BY <2>3, <4>1 DEF Lists
    <3> HIDE DEF shed, k
    <3>4. Cardinality(shed(k)) = k
      BY <3>1, <3>2, FS_Bijection DEF ExistsBijection
    <3>5. Connected(c) \cap shed(k) = shed(k)
      BY <3>3
    <3>6. /\ IsFiniteSet(Connected(c) \ shed(k))
          /\ Cardinality(Connected(c) \ shed(k)) = Degree(c) - k
      <4>1. IsFiniteSet(Connected(c))
        BY DegreeFacts
      <4>2. /\ IsFiniteSet(Connected(c) \ shed(k))
            /\ Cardinality(Connected(c) \ shed(k))
                 = Cardinality(Connected(c)) - Cardinality(Connected(c) \cap shed(k))
        BY <4>1, FS_Difference
      <4> QED
        BY <3>4, <3>5, <4>2 DEF Degree
    <3> QED
      BY <1>1, <1>2, <3>6
  <2>9. Degree(d) <= d.maxPeers
    <3> HIDE DEF d, shed, k
    <3>1. Connected(d) \in SUBSET (Connected(c) \ shed(k))
      BY <2>7
    <3>2. Degree(d) <= c.maxPeers
      BY <2>8, <3>1, FS_Subset DEF Degree
    <3> QED
      BY <2>7, <3>2 DEF Kept
  <2>10. ~(Degree(c) <= c.maxPeers)
    BY <1>1, <1>2, <1>4
  <2> HIDE DEF d
  <2> QED
    BY <2>7, <2>9, <2>10 DEF Settled, d
<1>5. k \in Int
  BY <1>1, <1>2
<1> QED
  BY <1>3, <1>4, <1>5

\* The dial of a rebalance, and the plan it is for.
LEMMA RebalanceFacts ==
    ASSUME setup \in Setups, NEW c, Fit(c), NEW available \in SUBSET Peers,
           \A p \in available : c.conn[p] = "none", NEW d, d = Rebalance(c, available)
    PROVE  Fit(d) /\ Connected(d) = Connected(c) /\ Kept(c, d)
<1> DEFINE edges == Connected(c) \ {c.drop[t] : t \in Peers}
           ready == {p \in available : c.knownFor[p] >= 1 /\ c.attempt[p] = 0}
           farthest == InOrder({<<Flag(p \notin Protected(c)), setup.distance[p],
                                  setup.order[p], p>> : p \in edges})[Cardinality(edges)]
           closest == InOrder({<<OverlayPriority(c, p), setup.capacity[p], setup.distance[p],
                                 setup.order[p], p>> : p \in ready})[1]
           tried == [c EXCEPT !.cooldown = Pause["rebalance"],
                              !.attempt[closest] = Pause["attempt"],
                              !.attempt[farthest] = Pause["attempt"],
                              !.drop[closest] = farthest]
           dialled == ConnectTo(tried, closest, TRUE)
<1>1. c \in Mesh
  BY DEF Fit
<1>2. \/ d = c
      \/ /\ edges # {} /\ ready # {}
         /\ d = IF dialled.conn[closest] = "none" THEN [dialled EXCEPT !.drop[closest] = None]
                ELSE dialled
  BY DEF Rebalance
<1>3. CASE d = c
  BY <1>3 DEF Kept
<1>4. CASE /\ edges # {} /\ ready # {}
           /\ d = IF dialled.conn[closest] = "none" THEN [dialled EXCEPT !.drop[closest] = None]
                  ELSE dialled
  <2>1. /\ edges \in SUBSET Peers /\ ready \in SUBSET Peers
        /\ Cardinality(edges) \in Nat \ {0} /\ Cardinality(ready) \in Nat \ {0}
    <3>1. edges \in SUBSET Peers /\ ready \in SUBSET Peers
      BY DegreeFacts
    <3> HIDE DEF edges, ready
    <3>2. IsFiniteSet(edges) /\ IsFiniteSet(ready)
      BY <3>1, ConstantFacts, FS_Subset
    <3> QED
      BY <1>4, <3>1, <3>2, FS_CardinalityType, FS_EmptySet
  <2>2. farthest \in edges
    <3> DEFINE a == [p \in edges |-> Flag(p \notin Protected(c))]
               b == [p \in edges |-> setup.distance[p]]
    <3>1. a \in [edges -> Int] /\ b \in [edges -> Int]
      BY <2>1, SetupFacts DEF Flag
    <3>2. {<<Flag(p \notin Protected(c)), setup.distance[p], setup.order[p], p>> : p \in edges}
            = {<<a[p], b[p], setup.order[p], p>> : p \in edges}
      OBVIOUS
    <3> DEFINE ps == InOrder({<<a[p], b[p], setup.order[p], p>> : p \in edges})
    <3>3. farthest = ps[Cardinality(edges)]
      BY <3>2
    <3> HIDE DEF edges, a, b, farthest
    <3>4. Lists(ps, edges)
      BY <2>1, <3>1, OrderedByTwo
    <3> HIDE DEF ps
    <3> QED
      BY <2>1, <3>3, <3>4 DEF Lists
  <2>3. closest \in ready
    <3> DEFINE a == [p \in ready |-> OverlayPriority(c, p)]
               b == [p \in ready |-> setup.capacity[p]]
               e == [p \in ready |-> setup.distance[p]]
    <3>1. a \in [ready -> Int] /\ b \in [ready -> Int] /\ e \in [ready -> Int]
      BY <2>1, SetupFacts DEF OverlayPriority
    <3>2. {<<OverlayPriority(c, p), setup.capacity[p], setup.distance[p], setup.order[p], p>> :
              p \in ready}
            = {<<a[p], b[p], e[p], setup.order[p], p>> : p \in ready}
      OBVIOUS
    <3> DEFINE ps == InOrder({<<a[p], b[p], e[p], setup.order[p], p>> : p \in ready})
    <3>3. closest = ps[1]
      BY <3>2
    <3> HIDE DEF ready, a, b, e, closest
    <3>4. Lists(ps, ready)
      BY <2>1, <3>1, OrderedByThree
    <3> HIDE DEF ps
    <3> QED
      BY <2>1, <3>3, <3>4 DEF Lists
  <2>4. /\ farthest \in Peers /\ c.conn[farthest] = "connected"
        /\ \A t \in Peers : c.drop[t] # farthest
    BY <2>1, <2>2 DEF Connected
  <2>5. closest \in Peers /\ c.conn[closest] = "none"
    BY <2>3
  <2> HIDE DEF edges, ready, farthest, closest
  <2>6. /\ tried \in Mesh /\ tried.maxPeers = c.maxPeers /\ tried.conn = c.conn
        /\ tried.connecting = c.connecting /\ tried.startedFor = c.startedFor
        /\ tried.rtc = c.rtc /\ tried.drop = [c.drop EXCEPT ![closest] = farthest]
    <3>1. /\ Pause["rebalance"] \in 0..(Pause["trim"] + Pause["rebalance"])
          /\ Pause["attempt"] \in 0..Pause["attempt"]
      BY ConstantFacts
    <3>2. tried \in Mesh
      BY <1>1, <2>4, <2>5, <3>1 DEF Mesh
    <3> QED
      BY <1>1, <3>2 DEF Mesh
  <2> HIDE DEF tried
  <2>7. Alike(tried, dialled) \/ Dialled(tried, dialled, closest)
    BY <2>5, <2>6, ConnectToFacts
  <2> HIDE DEF dialled
  <2>8. /\ c.drop \in [Peers -> Peers \cup {None}] /\ None \notin Peers /\ None \notin Nat
        /\ c.conn \in [Peers -> {"none", "pending", "connected"}]
        /\ c.rtc \in [Peers -> {"none", "negotiating", "open", "dead"}]
        /\ c.startedFor \in [Peers -> 0..Pause["stalled"] \cup {None}]
    BY <1>1, ConstantFacts DEF Mesh
  <2>9. c.drop[closest] = None
    BY <2>5 DEF Fit, RebalanceTracked
  <2>10. CASE Alike(tried, dialled)
    <3>1. dialled.conn[closest] = "none" /\ dialled \in Mesh
      BY <2>5, <2>6, <2>10 DEF Alike
    <3>2. d = [dialled EXCEPT !.drop[closest] = None]
      BY <1>4, <3>1
    <3>3. /\ d \in Mesh /\ d.maxPeers = dialled.maxPeers /\ d.conn = dialled.conn
          /\ d.connecting = dialled.connecting /\ d.startedFor = dialled.startedFor
          /\ d.rtc = dialled.rtc /\ d.drop = [dialled.drop EXCEPT ![closest] = None]
      <4>1. [dialled.drop EXCEPT ![closest] = None] \in [Peers -> Peers \cup {None}]
        BY <3>1 DEF Mesh
      <4>2. d \in Mesh
        BY <3>1, <3>2, <4>1 DEF Mesh
      <4> QED
        BY <3>1, <3>2, <4>2 DEF Mesh
    <3>4. d.drop = c.drop
      BY <2>6, <2>8, <2>9, <2>10, <3>3 DEF Alike
    <3>5. Alike(c, d)
      BY <2>6, <2>10, <3>3, <3>4 DEF Alike
    <3> QED
      BY <3>5, AlikeIsFit
  <2>11. CASE Dialled(tried, dialled, closest)
    <3>1. dialled.conn[closest] = "pending"
      BY <2>5, <2>6, <2>8, <2>11 DEF Dialled
    <3>2. d = dialled
      BY <1>4, <3>1
    <3>3. /\ d \in Mesh
          /\ d.maxPeers = c.maxPeers
          /\ d.conn = [c.conn EXCEPT ![closest] = "pending"]
          /\ d.connecting = c.connecting \cup {closest}
          /\ d.startedFor[closest] # None
          /\ \A q \in Peers \ {closest} : d.startedFor[q] = c.startedFor[q]
          /\ c.rtc[closest] # "open" /\ d.rtc = [c.rtc EXCEPT ![closest] = "negotiating"]
          /\ d.drop = [c.drop EXCEPT ![closest] = farthest]
      BY <2>6, <2>11, <3>2 DEF Dialled
    <3>4. Connected(d) = Connected(c)
      BY <2>5, <2>8, <3>3 DEF Connected
    <3>5. RebalanceTracked(d)
      <4>1. RebalanceTracked(c)
        BY DEF Fit
      <4>2. ASSUME NEW t \in Peers, d.drop[t] # None
            PROVE  /\ d.conn[t] = "pending"
                   /\ d.conn[d.drop[t]] = "connected"
                   /\ \A u \in Peers \ {t} : d.drop[u] # d.drop[t]
        <5>1. CASE t = closest
          <6>1. d.drop[t] = farthest /\ farthest # closest
            BY <2>4, <2>5, <2>8, <3>3, <5>1
          <6>2. \A u \in Peers \ {t} : d.drop[u] = c.drop[u]
            BY <2>8, <3>3, <5>1
          <6> QED
            BY <2>4, <2>5, <2>8, <3>3, <5>1, <6>1, <6>2
        <5>2. CASE t # closest
          <6>1. d.drop[t] = c.drop[t]
            BY <2>8, <3>3, <5>2
          <6>2. /\ c.conn[t] = "pending" /\ c.conn[c.drop[t]] = "connected"
                /\ \A u \in Peers \ {t} : c.drop[u] # c.drop[t]
            BY <4>1, <4>2, <6>1 DEF RebalanceTracked
          <6>3. c.drop[t] \in Peers /\ c.drop[t] # closest
            BY <2>5, <2>8, <4>2, <6>1, <6>2
          <6>4. \A u \in Peers : d.drop[u] = c.drop[u] \/ d.drop[u] = farthest
            BY <2>8, <3>3
          <6> QED
            BY <2>4, <2>8, <3>3, <5>2, <6>1, <6>2, <6>3, <6>4
        <5> QED
          BY <5>1, <5>2
      <4> QED
        BY <4>2 DEF RebalanceTracked
    <3>6. Fit(d)
      BY <2>5, <2>8, <3>3, <3>5 DEF Fit
    <3>7. Timed(c) => Timed(d)
      <4>1. Pending(d) \subseteq Pending(c) \cup {closest} /\ Pending(c) \subseteq Peers
        BY <1>1, <2>8, <3>3 DEF Pending, Mesh
      <4> QED
        BY <2>8, <3>3, <4>1 DEF Timed, TimedBut
    <3> QED
      BY <3>3, <3>4, <3>6, <3>7 DEF Kept
  <2> QED
    BY <2>7, <2>10, <2>11
<1> QED
  BY <1>2, <1>3, <1>4

\* The dials of one turn of maintenance.
LEMMA DialsFacts ==
    ASSUME setup \in Setups, NEW c, Fit(c), NEW S \in SUBSET Peers, NEW k \in Nat,
           k <= Cardinality(S), NEW d, d = ForEach(k, DialOrder(c, S), c, Dial)
    PROVE  Fit(d) /\ Connected(d) = Connected(c) /\ Kept(c, d)
<1> DEFINE ps == DialOrder(c, S)
           I == {e \in Mesh : Fit(e) /\ Connected(e) = Connected(c) /\ Kept(c, e)}
           J == [i \in 0..k |-> I]
<1>1. Lists(ps, S)
  BY DialOrderFacts DEF Fit
<1>2. c \in I
  BY DEF Kept, Fit
<1>3. ASSUME NEW i \in 1..k, NEW e \in I
      PROVE  Dial[ps[i]][e] \in I
  <2>1. ps[i] \in Peers
    <3> HIDE DEF ps
    <3>1. i \in 1..Cardinality(S)
      BY <1>1 DEF Lists
    <3> QED
      BY <1>1, <3>1 DEF Lists
  <2> DEFINE f == Dial[ps[i]][e]
  <2> HIDE DEF ps
  <2>2. f = ConnectTo(e, ps[i], FALSE)
    BY <2>1 DEF Dial
  <2> HIDE DEF f
  <2>3. Fit(f) /\ Connected(f) = Connected(e) /\ Kept(e, f)
    <3>1. Fit(e)
      OBVIOUS
    <3> HIDE DEF I, J
    <3>2. PICK q \in Peers : q = ps[i]
      BY <2>1
    <3>3. f = ConnectTo(e, q, FALSE)
      BY <2>2, <3>2
    <3> QED
      BY <3>1, <3>3, ConnectToIsFit
  <2>4. f \in I
    BY <2>3 DEF Kept, Fit
  <2> QED
    BY <2>4 DEF f
<1> HIDE DEF ps, I
<1>4. c \in J[0] /\ \A i \in 1..k : \A e \in J[i - 1] : Dial[ps[i]][e] \in J[i]
  <2>1. \A i \in 1..k : i - 1 \in 0..k /\ i \in 0..k
    OBVIOUS
  <2>2. 0 \in 0..k
    OBVIOUS
  <2> QED
    BY <1>2, <1>3, <2>1, <2>2
<1>5. d = ForEach(k, ps, c, Dial)
  BY DEF ps
<1>6. d \in J[k]
  <2> HIDE DEF J
  <2> QED
    BY <1>4, <1>5, LoopInvariant
<1>7. d \in I
  BY <1>6
<1> QED
  BY <1>7 DEF I

\* maintainPeerConnections, if the calls of maintenance it causes do their part.
LEMMA BalanceFacts ==
    ASSUME setup \in Setups, NEW c, Fit(c), NEW n \in Nat, NEW maintain, Maintains(maintain, n),
           Degree(c) <= n
    PROVE  Settled(c, Balance(maintain)[c])
<1> DEFINE connected == Cardinality(Connected(c))
           available == {p \in Candidates(c, connected = 0) \ (Pending(c) \cup Connected(c)) :
                           c.backoff[p] = 0}
           many == Cardinality(available)
           needed == setup.minPeers - Slots(c)
           burst == IF Isolated(c) THEN Greatest(needed, Least(3, Greatest(2, many))) ELSE needed
           tries == IF many <= 2 * c.maxPeers THEN many ELSE Greatest(burst, setup.minPeers + 1)
           dials(k) == ForEach(Least(k, many), DialOrder(c, available), c, Dial)
           d == Balance(maintain)[c]
<1>1. c \in Mesh /\ c.maxPeers \in Nat /\ setup.minPeers \in Nat /\ setup.minPeers <= c.maxPeers
  BY SetupFacts DEF Fit, Mesh
<1>2. d = IF needed > 0 THEN dials(tries)
          ELSE IF Slots(c) < c.maxPeers /\ available # {}
          THEN IF c.cooldown > 0 THEN c ELSE dials(1)
          ELSE IF Excess(c) > 0 THEN Trim(maintain)[c]
          ELSE IF /\ connected >= c.maxPeers
                  /\ Cardinality(Pending(c)) < setup.tolerantPeers
                  /\ available # {}
          THEN Rebalance(c, available)
          ELSE c
  BY <1>1 DEF Balance
<1>3. /\ available \in SUBSET Peers
      /\ \A p \in available : c.conn[p] = "none"
  <2>1. Candidates(c, connected = 0) \subseteq Peers
    BY <1>1, SetupFacts DEF Candidates, Mesh
  <2>2. available \in SUBSET Peers
    BY <2>1
  <2>3. \A p \in available : p \notin Pending(c) /\ p \notin Connected(c) /\ p \in Peers
    BY <2>1
  <2>4. \A p \in Peers : p \notin Pending(c) /\ p \notin Connected(c) => c.conn[p] = "none"
    BY <1>1 DEF Pending, Connected, Mesh
  <2> HIDE DEF available
  <2> QED
    BY <2>2, <2>3, <2>4
<1>4. many \in Nat
  <2> HIDE DEF available
  <2> QED
    BY <1>3, ConstantFacts, FS_Subset, FS_CardinalityType
<1>5. Slots(c) \in Nat /\ Degree(c) \in Nat /\ Degree(c) <= Slots(c)
  <2>1. Pending(c) \in SUBSET Peers
    BY <1>1 DEF Pending, Mesh
  <2>2. Cardinality(Pending(c)) \in Nat
    BY <2>1, ConstantFacts, FS_Subset, FS_CardinalityType
  <2>3. Degree(c) \in Nat
    BY DegreeFacts
  <2> QED
    BY <2>2, <2>3 DEF Slots, Degree
<1>6. Excess(c) = Degree(c) - c.maxPeers
  BY DEF Excess, Degree
<1>7. tries \in Nat
  <2>1. many \in Int /\ needed \in Int
    BY <1>1, <1>4, <1>5
  <2> HIDE DEF many, needed
  <2>2. burst \in Int
    BY <2>1 DEF Greatest, Least
  <2> HIDE DEF burst
  <2>3. Greatest(burst, setup.minPeers + 1) \in Nat
    BY <1>1, <2>2 DEF Greatest
  <2> QED
    BY <1>4, <2>3 DEF many
<1> HIDE DEF available, needed, tries, d
<1>8. ASSUME NEW k \in Nat
      PROVE  Fit(dials(k)) /\ Connected(dials(k)) = Connected(c) /\ Kept(c, dials(k))
  <2>1. Least(k, many) \in Nat /\ Least(k, many) <= many
    BY <1>4 DEF Least
  <2> HIDE DEF many
  <2>2. Least(k, many) <= Cardinality(available)
    BY <2>1 DEF many
  <2> QED
    BY <1>3, <2>1, <2>2, DialsFacts
<1>9. ASSUME Degree(c) <= c.maxPeers, Connected(d) = Connected(c), Kept(c, d)
      PROVE  Settled(c, d)
  BY <1>9 DEF Settled, Kept, Degree
<1> HIDE DEF dials, many
<1>10. CASE needed > 0
  <2>1. Degree(c) <= c.maxPeers
    BY <1>1, <1>5, <1>10 DEF needed
  <2>2. d = dials(tries)
    BY <1>2, <1>10
  <2> QED
    BY <1>7, <1>8, <1>9, <2>1, <2>2 DEF d
<1>11. CASE ~(needed > 0) /\ Slots(c) < c.maxPeers /\ available # {}
  <2>1. Degree(c) <= c.maxPeers
    BY <1>1, <1>5, <1>11
  <2>2. d = c \/ d = dials(1)
    BY <1>2, <1>11
  <2>3. Connected(d) = Connected(c) /\ Kept(c, d)
    BY <1>8, <2>2 DEF Kept
  <2> QED
    BY <1>9, <2>1, <2>3 DEF d
<1>12. CASE ~(needed > 0) /\ ~(Slots(c) < c.maxPeers /\ available # {}) /\ Excess(c) > 0
  <2>1. d = Trim(maintain)[c]
    BY <1>2, <1>12
  <2> QED
    BY <2>1, TrimFacts DEF d
<1>13. CASE ~(needed > 0) /\ ~(Slots(c) < c.maxPeers /\ available # {}) /\ ~(Excess(c) > 0)
  <2>1. Degree(c) <= c.maxPeers
    BY <1>1, <1>5, <1>6, <1>13
  <2>2. d = c \/ d = Rebalance(c, available)
    BY <1>2, <1>13
  <2>3. Connected(d) = Connected(c) /\ Kept(c, d)
    <3>1. CASE d = c
      BY <3>1 DEF Kept
    <3>2. CASE d = Rebalance(c, available)
      BY <1>3, <3>2, RebalanceFacts
    <3> QED
      BY <2>2, <3>1, <3>2
  <2> QED
    BY <1>9, <2>1, <2>3 DEF d
<1> QED
  BY <1>10, <1>11, <1>12, <1>13

-----------------------------------------------------------------------------
(* Maintenance, which sheds edges, which runs maintenance                    *)

\* The function that Maintaining is defined to be exists.
LEMMA MaintainingIs ==
    Maintaining = [n \in 0..MaxDepth |->
      [c \in Mesh |->
         IF n = 0 THEN c ELSE Balance(Maintaining[n - 1])[RecoverOrphans[NoteStable(c)]]]]
<1> DEFINE Level(g, n) == [c \in Mesh |-> IF n = 0 THEN c
                             ELSE Balance(g[n - 1])[RecoverOrphans[NoteStable(c)]]]
           Levels(g, k) == g = [n \in 0..k |-> Level(g, n)]
           T == {k \in 0..MaxDepth : \E g : Levels(g, k)}
<1>0. MaxDepth \in Nat
  BY DegreeFacts DEF MaxDepth
<1>1. 0 \in T
  <2> DEFINE g0 == [n \in 0..0 |-> [c \in Mesh |-> c]]
  <2>1. 0..0 = {0}
    OBVIOUS
  <2>2. g0 = [n \in 0..0 |-> Level(g0, n)]
    <3> HIDE DEF g0
    <3>1. Level(g0, 0) = [c \in Mesh |-> c]
      OBVIOUS
    <3> HIDE DEF Level
    <3> QED
      BY <2>1, <3>1 DEF g0
  <2> HIDE DEF g0, Level
  <2>3. \E g : Levels(g, 0)
    BY <2>2
  <2> HIDE DEF Levels
  <2> QED
    BY <1>0, <2>3
<1>2. ASSUME NEW k \in 1..MaxDepth, k - 1 \in T
      PROVE  k \in T
  <2>1. PICK g : Levels(g, k - 1)
    BY <1>2
  <2> DEFINE h == [n \in 0..k |-> IF n = k THEN Level(g, k) ELSE g[n]]
  <2>2. ASSUME NEW n \in 0..k
        PROVE  h[n] = Level(h, n)
    <3>1. n # 0 => n - 1 \in 0..k /\ n - 1 # k /\ h[n - 1] = g[n - 1]
      BY <1>0
    <3>2. Level(h, n) = Level(g, n)
      <4> HIDE DEF h
      <4>1. CASE n = 0
        BY <4>1
      <4>2. CASE n # 0
        BY <3>1, <4>2
      <4> QED
        BY <4>1, <4>2
    <3>3. n # k => g[n] = Level(g, n)
      <4>1. n # k => n \in 0..(k - 1)
        BY <1>0
      <4> HIDE DEF Level
      <4> QED
        BY <2>1, <4>1
    <3>4. h[n] = IF n = k THEN Level(g, k) ELSE g[n]
      <4> HIDE DEF Level
      <4> QED
        OBVIOUS
    <3> HIDE DEF Level, h
    <3> QED
      BY <3>2, <3>3, <3>4
  <2>3. h = [n \in 0..k |-> Level(h, n)]
    <3>1. h = [n \in 0..k |-> h[n]]
      OBVIOUS
    <3> HIDE DEF h, Level
    <3> QED
      BY <2>2, <3>1
  <2> HIDE DEF h, Level
  <2>4. \E f : Levels(f, k)
    BY <2>3
  <2> HIDE DEF Levels
  <2> QED
    BY <1>0, <2>4
<1>3. \E g : Levels(g, MaxDepth)
  <2> HIDE DEF T
  <2>1. 0..MaxDepth \subseteq T
    BY <1>0, <1>1, <1>2, Upwards
  <2>2. MaxDepth \in T
    BY <1>0, <2>1
  <2> QED
    BY <2>2 DEF T
<1> DEFINE M == CHOOSE g : Levels(g, MaxDepth)
<1>4. Levels(M, MaxDepth)
  <2> HIDE DEF Levels
  <2> QED
    BY <1>3
<1>5. Maintaining = M
  BY DEF Maintaining
<1> HIDE DEF M
<1>6. M = [n \in 0..MaxDepth |->
             [c \in Mesh |-> IF n = 0 THEN c
                ELSE Balance(M[n - 1])[RecoverOrphans[NoteStable(c)]]]]
  BY <1>4
<1> QED
  BY <1>5, <1>6

\* Two calls in turn keep the tables in order.
LEMMA KeptTransitive ==
    ASSUME NEW b, NEW c, NEW d, Kept(b, c), Kept(c, d)
    PROVE  Kept(b, d)
  BY DEF Kept

\* A call that keeps every edge, then one that settles the mesh.
LEMMA SettledAfterKept ==
    ASSUME NEW b, NEW c, NEW d, Kept(b, c), Connected(c) = Connected(b), Settled(c, d)
    PROVE  Settled(b, d)
<1>1. Kept(b, d)
  BY KeptTransitive DEF Settled
<1>2. Degree(b) = Degree(c) /\ c.maxPeers = b.maxPeers
  BY DEF Degree, Kept
<1> QED
  BY <1>1, <1>2 DEF Settled

\* Each level of maintenance does its part, if the one below does.
LEMMA LevelMaintains ==
    ASSUME setup \in Setups, NEW n \in 1..MaxDepth, Maintains(Maintaining[n - 1], n - 1)
    PROVE  Maintains(Maintaining[n], n)
<1>0. MaxDepth \in Nat
  BY DegreeFacts DEF MaxDepth
<1> SUFFICES ASSUME NEW c \in Mesh, Fit(c), Degree(c) < n
             PROVE  Settled(c, Maintaining[n][c])
  BY DEF Maintains
<1> DEFINE b == NoteStable(c)
           d == RecoverOrphans[b]
           e == Balance(Maintaining[n - 1])[d]
<1>1. Maintaining[n][c] = e
  <2>1. n \in 0..MaxDepth /\ n # 0
    BY <1>0
  <2>2. Maintaining[n] = [m \in Mesh |-> IF n = 0 THEN m
          ELSE Balance(Maintaining[n - 1])[RecoverOrphans[NoteStable(m)]]]
    BY <2>1, MaintainingIs
  <2> QED
    BY <2>1, <2>2
<1>2. Fit(b) /\ Connected(b) = Connected(c) /\ Kept(c, b)
  BY NoteStableAlike, AlikeIsFit
<1> HIDE DEF b
<1>3. Fit(d) /\ Connected(d) = Connected(b) /\ Kept(b, d)
  BY <1>2, RecoverOrphansAlike, AlikeIsFit
<1> HIDE DEF d
<1>4. n - 1 \in Nat /\ Degree(d) <= n - 1
  <2>1. Degree(d) = Degree(c) /\ Degree(c) \in Nat
    BY <1>2, <1>3, DegreeFacts DEF Degree
  <2> QED
    BY <1>0, <2>1
<1>5. Settled(d, e)
  BY <1>3, <1>4, BalanceFacts
<1> HIDE DEF e
<1>6. Kept(c, d) /\ Connected(d) = Connected(c)
  BY <1>2, <1>3, KeptTransitive
<1> QED
  BY <1>1, <1>5, <1>6, SettledAfterKept

\* No more than MaxDepth calls of maintenance are ever under way.
LEMMA MaintenanceMaintains ==
    ASSUME setup \in Setups
    PROVE  MaxDepth \in Nat /\ Maintains(Maintenance, MaxDepth)
<1>0. MaxDepth \in Nat
  BY DegreeFacts DEF MaxDepth
<1> DEFINE T == {n \in 0..MaxDepth : Maintains(Maintaining[n], n)}
<1>1. 0 \in T
  <2>1. \A d : ~(Degree(d) < 0)
    BY DegreeFacts
  <2>2. Maintains(Maintaining[0], 0)
    BY <2>1 DEF Maintains
  <2> QED
    BY <1>0, <2>2
<1>2. ASSUME NEW n \in 1..MaxDepth, n - 1 \in T
      PROVE  n \in T
  BY <1>0, <1>2, LevelMaintains
<1> HIDE DEF T
<1>3. 0..MaxDepth \subseteq T
  BY <1>0, <1>1, <1>2, Upwards
<1>4. MaxDepth \in T
  BY <1>0, <1>3
<1> QED
  BY <1>0, <1>4 DEF T, Maintenance

-----------------------------------------------------------------------------
(* What handlers are made of                                                 *)

\* There are fewer edges than levels of maintenance.
LEMMA DegreeIsLow ==
    ASSUME NEW c
    PROVE  Degree(c) < MaxDepth /\ Degree(c) <= MaxDepth
  BY DegreeFacts DEF MaxDepth

\* Maintenance settles the mesh, whatever it nests.
LEMMA MaintainFacts ==
    ASSUME setup \in Setups, NEW c, Fit(c), NEW d, d = Maintain(c)
    PROVE  Settled(c, d)
  BY MaintenanceMaintains, DegreeIsLow DEF Maintain, Maintains, Fit

\* So does trimExcessPeers.
LEMMA TrimmedFacts ==
    ASSUME setup \in Setups, NEW c, Fit(c), NEW d, d = Trim(Maintenance)[c]
    PROVE  Settled(c, d)
  BY MaintenanceMaintains, DegreeIsLow, TrimFacts

\* removePeer frees every slot of its peer.
LEMMA DiscardFacts ==
    ASSUME setup \in Setups, NEW c, Fit(c), NEW p \in Peers, NEW d, d = Discard(c, p)
    PROVE  /\ Fit(d)
           /\ d.maxPeers = c.maxPeers
           /\ Connected(d) \subseteq Connected(c) \ {p}
           /\ TimedBut(c, p) => Timed(d)
           /\ Kept(c, d)
<1>1. Cardinality(Connected(c) \ {p}) < MaxDepth
  <2>1. Cardinality(Connected(c) \ {p}) <= Degree(c)
    BY DegreeFacts, FS_Subset DEF Degree
  <2>2. Cardinality(Connected(c) \ {p}) \in Nat
    <3>1. IsFiniteSet(Connected(c) \ {p})
      BY DegreeFacts, FS_Subset
    <3> QED
      BY <3>1, FS_CardinalityType
  <2> QED
    BY <2>1, <2>2, DegreeIsLow, DegreeFacts, MaintenanceMaintains
<1>2. d = RemovePeer(Maintenance, c, p)
  BY DEF Discard
<1> QED
  BY <1>1, <1>2, MaintenanceMaintains, RemovePeerFacts

\* noteDialFailure, then removePeer.
LEMMA FailedDialFacts ==
    ASSUME setup \in Setups, NEW c, Fit(c), NEW p \in Peers,
           NEW d, d = Discard(NoteDialFailure(c, p), p)
    PROVE  Kept(c, d)
<1> DEFINE b == NoteDialFailure(c, p)
<1>1. Fit(b) /\ Kept(c, b)
  BY NoteDialFailureAlike, AlikeIsFit DEF Fit
<1> HIDE DEF b
<1>2. d = Discard(b, p)
  BY DEF b
<1> QED
  BY <1>1, <1>2, DiscardFacts, KeptTransitive

\* rtc:disconnected
LEMMA LostFacts ==
    ASSUME setup \in Setups, NEW c, Fit(c), NEW p \in Peers, NEW failed,
           NEW d, d = Lost(c, p, failed)
    PROVE  Kept(c, d) /\ p \notin Connected(d)
<1> DEFINE a == [c EXCEPT !.rtc[p] = "none"]
           b == ForgetRebalance(a, p)
           e == IF c.conn[p] = "connected" /\ failed THEN NoteTransportDisconnect(b, p) ELSE b
           f == Forget(e, p)
<1>0. c \in Mesh
  BY DEF Fit
<1>1. /\ a \in Mesh /\ a.maxPeers = c.maxPeers /\ a.conn = c.conn /\ a.connecting = c.connecting
      /\ a.startedFor = c.startedFor /\ a.drop = c.drop /\ a.rtc = [c.rtc EXCEPT ![p] = "none"]
      /\ c.rtc \in [Peers -> {"none", "negotiating", "open", "dead"}]
  BY <1>0 DEF Mesh
<1>2. CASE c.conn[p] = "none"
  <2>1. d = b
    BY <1>2 DEF Lost
  <2>2. Alike(c, a)
    BY <1>1, <1>2 DEF Alike, Fit
  <2> HIDE DEF a
  <2>3. Fit(a) /\ Kept(c, a) /\ Connected(a) = Connected(c)
    BY <2>2, AlikeIsFit
  <2>4. Kept(a, b) /\ Connected(b) = Connected(a)
    BY <2>3, ForgetRebalanceIsFit
  <2>5. p \notin Connected(c)
    BY <1>2 DEF Connected
  <2> HIDE DEF b
  <2> QED
    BY <2>1, <2>3, <2>4, <2>5, KeptTransitive
<1>3. CASE c.conn[p] # "none"
  <2>1. d = Maintain(f)
    BY <1>3 DEF Lost
  <2> HIDE DEF a
  <2>2. /\ b \in Mesh /\ b.maxPeers = a.maxPeers /\ b.conn = a.conn
        /\ b.connecting = a.connecting /\ b.startedFor = a.startedFor /\ b.rtc = a.rtc
        /\ b.drop = [t \in Peers |-> IF t = p \/ a.drop[t] = p THEN None ELSE a.drop[t]]
    BY <1>1, ForgetRebalanceFacts
  <2> HIDE DEF b
  <2>3. /\ e \in Mesh /\ e.maxPeers = b.maxPeers /\ e.conn = b.conn
        /\ e.connecting = b.connecting /\ e.startedFor = b.startedFor /\ e.rtc = b.rtc
        /\ e.drop = b.drop
    <3>1. NoteDialFailure(b, p) \in Mesh /\ NoteDialSuccess(b, p) \in Mesh
      BY <2>2, NoteDialFailureAlike, NoteDialSuccessAlike DEF Alike
    <3>2. e = b \/ e = NoteDialFailure(b, p) \/ e = NoteDialSuccess(b, p)
      BY DEF NoteTransportDisconnect
    <3>3. CASE e = b
      BY <2>2, <3>3
    <3>4. CASE e = NoteDialFailure(b, p)
      BY <2>2, <3>1, <3>4 DEF NoteDialFailure, Mesh
    <3>5. CASE e = NoteDialSuccess(b, p)
      BY <2>2, <3>1, <3>5 DEF NoteDialSuccess, Mesh
    <3> QED
      BY <3>2, <3>3, <3>4, <3>5
  <2> HIDE DEF e
  <2>4. /\ f \in Mesh /\ f.maxPeers = e.maxPeers /\ f.drop = e.drop /\ f.rtc = e.rtc
        /\ f.conn = [e.conn EXCEPT ![p] = "none"]
        /\ f.connecting = e.connecting \ {p}
        /\ f.startedFor = [e.startedFor EXCEPT ![p] = None]
    BY <2>3 DEF Forget, Mesh
  <2> HIDE DEF f
  <2>5. TornDown(c, f, p)
    BY <1>1, <2>2, <2>3, <2>4 DEF TornDown
  <2>6. Fit(f) /\ Connected(f) = Connected(c) \ {p} /\ Kept(c, f)
    BY <2>5, TornDownIsFit
  <2>7. Settled(f, d)
    BY <2>1, <2>6, MaintainFacts
  <2> QED
    BY <2>6, <2>7, KeptTransitive DEF Settled, Kept
<1> QED
  BY <1>2, <1>3

\* rtc:connected
LEMMA OpenedFacts ==
    ASSUME NEW c, Fit(c), NEW p \in Peers, c.rtc[p] = "negotiating", NEW d, d = Opened(c, p)
    PROVE  /\ Fit(d)
           /\ d.maxPeers = c.maxPeers
           /\ Connected(d) = Connected(c) \cup {p}
           /\ p \notin Connected(c)
           /\ Timed(c) => Timed(d)
<1>0. c \in Mesh /\ None \notin Peers /\ 0 \in 0..Pause["stable"] /\ Connected(c) \in SUBSET Peers
  BY ConstantFacts, DegreeFacts DEF Fit
<1>1. /\ [c.conn EXCEPT ![p] = "connected"] \in [Peers -> {"none", "pending", "connected"}]
      /\ c.connecting \ {p} \in SUBSET Peers
      /\ [c.startedFor EXCEPT ![p] = None] \in [Peers -> 0..Pause["stalled"] \cup {None}]
      /\ [c.elder EXCEPT ![p] = Connected(c)] \in [Peers -> SUBSET Peers]
      /\ [c.heldFor EXCEPT ![p] = 0] \in [Peers -> 0..Pause["stable"] \cup {None}]
      /\ [c.rtc EXCEPT ![p] = "open"] \in [Peers -> {"none", "negotiating", "open", "dead"}]
      /\ [c.orphanFor EXCEPT ![p] = None] \in [Peers -> 0..Pause["stalled"] \cup {None}]
      /\ [c.drop EXCEPT ![p] = None] \in [Peers -> Peers \cup {None}]
  BY <1>0 DEF Mesh
<1>2. d \in Mesh
  BY <1>0, <1>1 DEF Mesh, Opened
<1>3. /\ d.maxPeers = c.maxPeers
      /\ d.conn = [c.conn EXCEPT ![p] = "connected"]
      /\ d.connecting = c.connecting \ {p}
      /\ d.startedFor = [c.startedFor EXCEPT ![p] = None]
      /\ d.rtc = [c.rtc EXCEPT ![p] = "open"]
      /\ d.drop = [c.drop EXCEPT ![p] = None]
  BY <1>0 DEF Mesh, Opened
<1>4. /\ c.conn \in [Peers -> {"none", "pending", "connected"}]
      /\ c.rtc \in [Peers -> {"none", "negotiating", "open", "dead"}]
      /\ c.startedFor \in [Peers -> 0..Pause["stalled"] \cup {None}]
      /\ c.drop \in [Peers -> Peers \cup {None}]
      /\ c.connecting \in SUBSET Peers
  BY <1>0 DEF Mesh
<1>5. Connected(d) = Connected(c) \cup {p} /\ p \notin Connected(c)
  BY <1>3, <1>4 DEF Connected, Fit
<1>6. RebalanceTracked(d)
  <2>1. RebalanceTracked(c)
    BY DEF Fit
  <2>2. ASSUME NEW t \in Peers, d.drop[t] # None
        PROVE  /\ d.conn[t] = "pending"
               /\ d.conn[d.drop[t]] = "connected"
               /\ \A u \in Peers \ {t} : d.drop[u] # d.drop[t]
    <3>1. t # p /\ d.drop[t] = c.drop[t] /\ c.drop[t] \in Peers
      BY <1>3, <1>4, <2>2
    <3>2. /\ c.conn[t] = "pending" /\ c.conn[c.drop[t]] = "connected"
          /\ \A u \in Peers \ {t} : c.drop[u] # c.drop[t]
      BY <2>1, <2>2, <3>1 DEF RebalanceTracked
    <3>3. \A u \in Peers : d.drop[u] = None \/ d.drop[u] = c.drop[u]
      BY <1>3, <1>4
    <3> QED
      BY <1>3, <1>4, <2>2, <3>1, <3>2, <3>3
  <2> QED
    BY <2>2 DEF RebalanceTracked
<1>7. Fit(d)
  BY <1>2, <1>3, <1>4, <1>6 DEF Fit
<1>8. Timed(c) => Timed(d)
  <2>1. Pending(d) \subseteq Pending(c) \ {p} /\ Pending(c) \subseteq Peers
    BY <1>3, <1>4 DEF Pending
  <2>2. \A q \in Peers \ {p} : d.startedFor[q] = c.startedFor[q]
    BY <1>3, <1>4
  <2> QED
    BY <1>0, <2>1, <2>2 DEF Timed, TimedBut
<1> QED
  BY <1>3, <1>5, <1>7, <1>8

\* The edge that a completed rebalance replaces.
LEMMA ReplacedFacts ==
    ASSUME setup \in Setups, NEW c \in Mesh, NEW e, Fit(e), NEW p \in Peers,
           NEW d, d = Replaced(c, e, p)
    PROVE  Kept(e, d)
<1>1. CASE d = e
  BY <1>1 DEF Kept
<1>2. CASE d # e
  <2>1. c.drop[p] \in Peers /\ d = Discard(e, c.drop[p])
    BY <1>2 DEF Replaced, Mesh
  <2> QED
    BY <2>1, DiscardFacts
<1> QED
  BY <1>1, <1>2

\* reconcileSignalingPeers
LEMMA ReconciledFacts ==
    ASSUME setup \in Setups, NEW c, Fit(c), NEW v \in setup.snapshots,
           NEW d, d = Reconciled(c, v)
    PROVE  Kept(c, d)
<1> DEFINE b == [c EXCEPT !.snapshot = TRUE, !.active = v.active, !.discovered = v.peers,
                          !.knownFor = [p \in Peers |-> IF p \in v.peers THEN @[p] ELSE 0]]
           absent == {p \in Peers : b.conn[p] = "pending" /\ p \notin v.active /\ v.active # {}}
           replace == [p \in Peers |-> [e \in Mesh |-> Discard(NoteDialFailure(e, p), p)]]
           ps == Entries(absent)
           k == Cardinality(absent)
           I == {e \in Mesh : Fit(e) /\ Kept(c, e)}
           J == [i \in 0..k |-> I]
<1>1. Alike(c, b)
  <2>1. /\ c \in Mesh /\ v.active \in SUBSET Peers /\ v.peers \in SUBSET Peers
        /\ 0 \in 0..Pause["grace"]
    BY SetupFacts, ConstantFacts DEF Fit
  <2>2. b \in Mesh
    BY <2>1 DEF Mesh
  <2> QED
    BY <2>1, <2>2 DEF Alike, Mesh
<1>2. d = ForEach(k, ps, b, replace)
  BY DEF Reconciled
<1> HIDE DEF b
<1>3. absent \in SUBSET Peers
  OBVIOUS
<1> HIDE DEF absent
<1>4. Lists(ps, absent)
  BY <1>3, EntriesFacts
<1>5. k \in Nat
  BY <1>4 DEF Lists
<1>6. b \in I
  BY <1>1, AlikeIsFit DEF Alike
<1>7. ASSUME NEW i \in 1..k, NEW e \in I
      PROVE  replace[ps[i]][e] \in I
  <2>1. ps[i] \in Peers
    <3> HIDE DEF ps
    <3> QED
      BY <1>3, <1>4 DEF Lists
  <2>2. PICK q \in Peers : q = ps[i]
    BY <2>1
  <2> DEFINE f == replace[ps[i]][e]
  <2> HIDE DEF ps
  <2>3. f = Discard(NoteDialFailure(e, q), q)
    BY <2>2
  <2> HIDE DEF f
  <2>4. Fit(e) /\ Kept(c, e)
    OBVIOUS
  <2> HIDE DEF I, J
  <2>5. Kept(e, f)
    BY <2>3, <2>4, FailedDialFacts
  <2>6. f \in I
    BY <2>4, <2>5, KeptTransitive DEF I, Kept, Fit
  <2> QED
    BY <2>6 DEF f
<1> HIDE DEF ps, I, replace
<1>8. b \in J[0] /\ \A i \in 1..k : \A e \in J[i - 1] : replace[ps[i]][e] \in J[i]
  <2>1. \A i \in 1..k : i - 1 \in 0..k /\ i \in 0..k
    BY <1>5
  <2>2. 0 \in 0..k
    BY <1>5
  <2> HIDE DEF k
  <2> QED
    BY <1>6, <1>7, <2>1, <2>2
<1>9. d \in J[k]
  <2> HIDE DEF J, k
  <2> QED
    BY <1>2, <1>5, <1>8, LoopInvariant
<1>10. k \in 0..k
  BY <1>5
<1>11. d \in I
  <2> HIDE DEF k
  <2> QED
    BY <1>9, <1>10
<1> QED
  BY <1>11 DEF I

\* hardReset leaves no edge, and no plan.
LEMMA ResetFacts ==
    ASSUME setup \in Setups, NEW c, Fit(c), NEW d, d = Reset(c)
    PROVE  Kept(c, d) /\ Timed(d)
<1> DEFINE base == [c EXCEPT !.startedFor = All(None), !.heldFor = All(None),
                             !.elder = All({}), !.drop = All(None)]
           owned == Pending(c) \cup Connected(c) \cup {p \in Peers : c.rtc[p] # "none"}
           close == [p \in Peers |-> [m \in Mesh |->
                       IF m.rtc[p] = "none" THEN m ELSE Lost(m, p, FALSE)]]
           ps == Entries(owned)
           k == Cardinality(owned)
           closed == ForEach(k, ps, base, close)
           final == [closed EXCEPT !.conn = All("none"), !.connecting = {}, !.orphanFor = All(None)]
           gone(i) == {ps[j] : j \in 1..i}
           J == [i \in 0..k |-> {e \in Mesh : /\ Fit(e) /\ e.maxPeers = c.maxPeers
                                              /\ Connected(e) \subseteq Connected(c) \ gone(i)}]
<1>0. c \in Mesh
  BY DEF Fit
<1>1. d = Maintain(final)
  BY DEF Reset
<1>2. /\ base \in Mesh /\ Fit(base) /\ base.maxPeers = c.maxPeers /\ Connected(base) = Connected(c)
  <2>1. base \in Mesh
    BY <1>0 DEF Mesh, All
  <2>2. /\ base.maxPeers = c.maxPeers /\ base.conn = c.conn /\ base.connecting = c.connecting
        /\ base.rtc = c.rtc /\ base.drop = All(None)
    BY <1>0 DEF Mesh
  <2>3. RebalanceTracked(base)
    BY <2>2 DEF RebalanceTracked, All
  <2> HIDE DEF base
  <2> QED
    BY <2>1, <2>2, <2>3 DEF Fit, Connected
<1>3. owned \in SUBSET Peers /\ Connected(c) \subseteq owned
  BY <1>0, DegreeFacts DEF Pending, Mesh
<1> HIDE DEF base, owned
<1>4. Lists(ps, owned)
  BY <1>3, EntriesFacts
<1>5. k \in Nat
  BY <1>4 DEF Lists
<1>6. base \in J[0]
  <2>1. gone(0) = {} /\ 0 \in 0..k
    BY <1>5
  <2> HIDE DEF gone, k
  <2> QED
    BY <1>2, <2>1
<1>7. ASSUME NEW i \in 1..k, NEW e \in J[i - 1]
      PROVE  close[ps[i]][e] \in J[i]
  <2> DEFINE f == close[ps[i]][e]
  <2>1. i - 1 \in 0..k /\ i \in 0..k
    BY <1>5
  <2>2. PICK q \in Peers : q = ps[i]
    <3> HIDE DEF ps
    <3> QED
      BY <1>3, <1>4 DEF Lists
  <2> HIDE DEF ps, k
  <2>3. e \in Mesh /\ Fit(e) /\ e.maxPeers = c.maxPeers
        /\ Connected(e) \subseteq Connected(c) \ gone(i - 1)
    <3> HIDE DEF gone
    <3> QED
      BY <2>1
  <2>4. f = IF e.rtc[q] = "none" THEN e ELSE Lost(e, q, FALSE)
    BY <2>2, <2>3
  <2> HIDE DEF f, J
  <2>5. Fit(f) /\ f.maxPeers = e.maxPeers /\ Connected(f) \subseteq Connected(e) \ {q}
    <3>1. CASE e.rtc[q] = "none"
      <4>1. f = e /\ q \notin Connected(e)
        BY <2>3, <2>4, <3>1 DEF Fit, Connected
      <4> QED
        BY <2>3, <4>1
    <3>2. CASE e.rtc[q] # "none"
      <4>1. PICK b : b = FALSE
        OBVIOUS
      <4>2. f = Lost(e, q, b)
        BY <2>4, <3>2, <4>1
      <4> QED
        BY <2>3, <4>2, LostFacts DEF Kept
    <3> QED
      BY <3>1, <3>2
  <2>6. gone(i) \subseteq gone(i - 1) \cup {q}
    <3>1. \A j \in 1..i : j = i \/ j \in 1..(i - 1)
      BY <1>5
    <3> QED
      BY <2>2, <3>1 DEF gone
  <2> HIDE DEF gone
  <2>7. f \in J[i]
    BY <2>1, <2>3, <2>5, <2>6 DEF J, Fit
  <2> QED
    BY <2>7 DEF f
<1>8. closed \in J[k]
  <2> HIDE DEF J, k, ps, close
  <2> QED
    BY <1>5, <1>6, <1>7, LoopInvariant
<1>9. /\ closed \in Mesh /\ Fit(closed) /\ closed.maxPeers = c.maxPeers
      /\ Connected(closed) \subseteq Connected(c) \ gone(k)
  <2>1. k \in 0..k
    BY <1>5
  <2> HIDE DEF gone, k, closed
  <2> QED
    BY <1>8, <2>1
<1>10. owned \subseteq gone(k)
  <2> HIDE DEF ps
  <2> QED
    BY <1>4 DEF Lists
<1> HIDE DEF closed, gone
<1>11. Connected(closed) = {}
  BY <1>3, <1>9, <1>10
<1>12. /\ final \in Mesh /\ final.maxPeers = c.maxPeers /\ final.conn = All("none")
       /\ final.connecting = {} /\ final.rtc = closed.rtc /\ final.drop = closed.drop
  <2>1. final \in Mesh
    BY <1>9 DEF Mesh, All
  <2> QED
    BY <1>9, <2>1 DEF Mesh
<1>13. \A p \in Peers : closed.drop[p] = None
  <2>1. ASSUME NEW p \in Peers, closed.drop[p] # None
        PROVE  closed.drop[p] \in Connected(closed)
    <3>1. closed.drop[p] \in Peers
      BY <1>9, <2>1 DEF Mesh
    <3>2. closed.conn[closed.drop[p]] = "connected"
      BY <1>9, <2>1 DEF Fit, RebalanceTracked
    <3> QED
      BY <3>1, <3>2 DEF Connected
  <2> QED
    BY <1>11, <2>1
<1>14. \A p \in Peers : closed.rtc[p] # "open"
  BY <1>9, <1>11 DEF Fit, Connected
<1> HIDE DEF final
<1>15. Fit(final) /\ Timed(final) /\ Connected(final) = {}
  <2>1. RebalanceTracked(final)
    BY <1>12, <1>13 DEF RebalanceTracked
  <2>2. Fit(final)
    BY <1>12, <1>14, <2>1, <1>9 DEF Fit, All
  <2>3. Pending(final) = {} /\ Connected(final) = {}
    BY <1>12 DEF Pending, Connected, All
  <2> QED
    BY <2>2, <2>3 DEF Timed, TimedBut
<1>16. Settled(final, d)
  BY <1>1, <1>15, MaintainFacts
<1> QED
  BY <1>12, <1>15, <1>16 DEF Settled, Kept

\* recoverStalledNegotiations
LEMMA RecoverStalledFacts ==
    ASSUME setup \in Setups, NEW c, Fit(c), NEW p \in Stalled(c), NEW d, d = RecoverStalled(c, p)
    PROVE  Kept(c, d)
  BY FailedDialFacts DEF RecoverStalled, Stalled

\* The time that passes touches neither edges nor slots.
LEMMA AgedAlike ==
    ASSUME NEW c \in Mesh
    PROVE  Alike(c, Aged(c))
<1> DEFINE older(age, max) == IF age = None THEN None ELSE Least(age + 1, max)
           startedFor == [p \in Peers |-> older(c.startedFor[p], Pause["stalled"])]
           orphanFor == [p \in Peers |-> older(c.orphanFor[p], Pause["stalled"])]
           heldFor == [p \in Peers |-> older(c.heldFor[p], Pause["stable"])]
           knownFor == [p \in Peers |-> IF p \in c.discovered
                                        THEN older(c.knownFor[p], Pause["grace"]) ELSE 0]
           backoff == [p \in Peers |-> Greatest(c.backoff[p] - 1, 0)]
           attempt == [p \in Peers |-> Greatest(c.attempt[p] - 1, 0)]
           cooldown == Greatest(c.cooldown - 1, 0)
<1>1. /\ None \notin Nat
      /\ \A s \in {"grace", "stalled", "backoffCap", "shed", "trim", "rebalance",
                   "attempt", "stable"} : Pause[s] \in Nat
  BY ConstantFacts
<1>2. \A m \in Nat : \A a \in 0..m \cup {None} : older(a, m) \in 0..m \cup {None}
  BY <1>1 DEF Least
<1>3. \A m \in Nat : \A a \in 0..m : older(a, m) \in 0..m /\ Greatest(a - 1, 0) \in 0..m
  BY <1>1 DEF Least, Greatest
<1>4. \A m \in Nat : \A a \in 0..m \cup {None} : older(a, m) = None => a = None
  BY <1>1 DEF Least
<1>5. Pause["stalled"] \in Nat /\ Pause["stable"] \in Nat /\ Pause["grace"] \in Nat
      /\ Pause["attempt"] \in Nat /\ Pause["backoffCap"] + Pause["shed"] \in Nat
      /\ Pause["trim"] + Pause["rebalance"] \in Nat
  BY <1>1
<1> HIDE DEF older
<1>6. /\ startedFor \in [Peers -> 0..Pause["stalled"] \cup {None}]
      /\ orphanFor \in [Peers -> 0..Pause["stalled"] \cup {None}]
      /\ heldFor \in [Peers -> 0..Pause["stable"] \cup {None}]
  BY <1>2, <1>5 DEF Mesh
<1>7. /\ knownFor \in [Peers -> 0..Pause["grace"]]
      /\ attempt \in [Peers -> 0..Pause["attempt"]]
  <2>1. /\ c.knownFor \in [Peers -> 0..Pause["grace"]]
        /\ c.attempt \in [Peers -> 0..Pause["attempt"]]
    BY DEF Mesh
  <2>2. 0 \in 0..Pause["grace"]
    BY <1>5
  <2> QED
    BY <1>3, <1>5, <2>1, <2>2
<1>8. /\ backoff \in [Peers -> 0..(Pause["backoffCap"] + Pause["shed"])]
      /\ cooldown \in 0..(Pause["trim"] + Pause["rebalance"])
  <2>1. /\ c.backoff \in [Peers -> 0..(Pause["backoffCap"] + Pause["shed"])]
        /\ c.cooldown \in 0..(Pause["trim"] + Pause["rebalance"])
    BY DEF Mesh
  <2> QED
    BY <1>3, <1>5, <2>1
<1>9. \A p \in Peers : startedFor[p] = None => c.startedFor[p] = None
  BY <1>4, <1>5 DEF Mesh
<1>10. Aged(c) = [c EXCEPT !.startedFor = startedFor, !.orphanFor = orphanFor,
                           !.heldFor = heldFor, !.knownFor = knownFor, !.backoff = backoff,
                           !.attempt = attempt, !.cooldown = cooldown]
  BY DEF Aged, older, Mesh
<1> HIDE DEF startedFor, orphanFor, heldFor, knownFor, backoff, attempt, cooldown
<1>11. Aged(c) \in Mesh
  BY <1>6, <1>7, <1>8, <1>10 DEF Mesh
<1> QED
  BY <1>9, <1>10, <1>11 DEF Alike, Mesh

\* A mesh between two events.
Sound(c) == Fit(c) /\ Timed(c) /\ Degree(c) <= c.maxPeers

\* The inductive invariant.
IInv == TypeOK /\ Sound(mesh)

\* The state after an event that ended with the tables d.
Ends(d) ==
    /\ setup' = setup
    /\ mesh' = [d EXCEPT !.dialled = {}]
    /\ registered' \in BOOLEAN
    /\ unsettled' \subseteq Peers
    /\ faults' \in 0..MaxFaults

-----------------------------------------------------------------------------
\* What the inductive invariant says of the variables.
LEMMA IInvFacts ==
    ASSUME IInv
    PROVE  /\ setup \in Setups /\ Fit(mesh) /\ Timed(mesh) /\ mesh \in Mesh
           /\ Degree(mesh) <= mesh.maxPeers
           /\ registered \in BOOLEAN /\ unsettled \subseteq Peers /\ faults \in 0..MaxFaults
  BY DEF IInv, TypeOK, Sound

\* A call that makes no edge keeps a mesh within its limit.
LEMMA KeptIsSound ==
    ASSUME NEW c, Sound(c), NEW d, Kept(c, d)
    PROVE  Sound(d)
<1>1. Degree(d) <= Degree(c) /\ Degree(d) \in Nat /\ Degree(c) \in Nat
  BY DegreeMonotone, DegreeFacts DEF Kept
<1>2. c.maxPeers \in Nat /\ d.maxPeers = c.maxPeers
  BY DEF Kept, Sound, Fit, Mesh
<1> QED
  BY <1>1, <1>2 DEF Sound, Kept

\* A call that settles the mesh brings it within its limit.
LEMMA SettledIsSound ==
    ASSUME NEW c, Fit(c), Timed(c), NEW d, Settled(c, d)
    PROVE  Sound(d)
  BY DEF Sound, Settled, Kept

\* An event that ends with sound tables keeps the inductive invariant.
LEMMA EndsSound ==
    ASSUME IInv, NEW d, Sound(d), Ends(d)
    PROVE  IInv' /\ Connected(mesh') = Connected(d)
<1> DEFINE e == [d EXCEPT !.dialled = {}]
<1>1. d \in Mesh
  BY DEF Sound, Fit
<1>2. Alike(d, e) /\ e.dialled = {}
  <2>1. e \in Mesh
    BY <1>1 DEF Mesh
  <2> QED
    BY <1>1, <2>1 DEF Alike, Mesh
<1>3. mesh' = e
  BY DEF Ends
<1> HIDE DEF e
<1>4. Kept(d, e) /\ Connected(e) = Connected(d)
  BY <1>2, AlikeIsFit DEF Sound
<1>5. Sound(e) /\ e \in Mesh
  BY <1>2, <1>4, KeptIsSound DEF Alike
<1>6. Sound(mesh)'
  <2>1. mesh' = e /\ setup' = setup
    BY <1>3 DEF Ends
  <2>2. Fit(mesh)'
    BY <2>1, <1>5 DEF Sound, Fit, RebalanceTracked
  <2>3. Timed(mesh)'
    BY <2>1, <1>5 DEF Sound, Timed, TimedBut, Pending
  <2>4. (Degree(mesh) <= mesh.maxPeers)'
    BY <2>1, <1>5 DEF Sound, Degree, Connected
  <2> QED
    BY <2>2, <2>3, <2>4 DEF Sound
<1>7. TypeOK'
  BY <1>2, <1>3, <1>5, IInvFacts DEF Ends, TypeOK
<1> QED
  BY <1>3, <1>4, <1>6, <1>7 DEF IInv

\* How the handlers end.
LEMMA BecomesEnds ==
    ASSUME IInv, NEW d, d \in Mesh, Becomes(d), setup' = setup, registered' \in BOOLEAN,
           faults' \in 0..MaxFaults
    PROVE  Ends(d)
<1>1. d.dialled \subseteq Peers
  BY DEF Mesh
<1> QED
  BY <1>1, IInvFacts DEF Ends, Becomes

\* A step whose handler keeps the tables in order, and makes no edge.
LEMMA KeptStep ==
    ASSUME IInv, NEW d, Kept(mesh, d), Becomes(d), setup' = setup, registered' \in BOOLEAN,
           faults' \in 0..MaxFaults
    PROVE  IInv' /\ Connected(mesh') \subseteq Connected(mesh)
<1>1. Sound(d) /\ d \in Mesh /\ Connected(d) \subseteq Connected(mesh)
  BY KeptIsSound DEF Kept, Fit, IInv
<1>2. Ends(d)
  BY <1>1, BecomesEnds
<1> QED
  BY <1>1, <1>2, EndsSound

\* The count of faults stays within its bound.
LEMMA FaultCounted ==
    ASSUME IInv, Fault
    PROVE  faults' \in 0..MaxFaults
<1>1. faults \in 0..MaxFaults /\ MaxFaults \in Nat
  BY IInvFacts, ConstantFacts
<1> QED
  BY <1>1 DEF Fault

-----------------------------------------------------------------------------
\* The inductive invariant holds at the start.
LEMMA InitIInv == Init => IInv
<1> SUFFICES ASSUME Init
             PROVE  IInv
  OBVIOUS
<1>1. /\ setup \in Setups /\ registered = TRUE /\ unsettled = {} /\ faults = 0
      /\ mesh = [maxPeers |-> setup.maxPeers, conn |-> All("none"), connecting |-> {},
             startedFor |-> All(None), heldFor |-> All(None), elder |-> All({}),
             failures |-> All(0), backoff |-> All(0), discovered |-> {}, active |-> {},
             snapshot |-> FALSE, knownFor |-> All(0), cooldown |-> 0, attempt |-> All(0),
             drop |-> All(None), orphanFor |-> All(None), rtc |-> All("none"),
             dialled |-> {}]
  BY DEF Init
<1>2. /\ setup.maxPeers \in Nat /\ setup.minPeers <= setup.maxPeers
  BY <1>1, SetupFacts
<1>3. /\ 0 \in 0..MaxFailures /\ 0 \in 0..(Pause["backoffCap"] + Pause["shed"])
      /\ 0 \in 0..Pause["grace"] /\ 0 \in 0..(Pause["trim"] + Pause["rebalance"])
      /\ 0 \in 0..Pause["attempt"] /\ 0 \in 0..MaxFaults
  BY ConstantFacts
<1>4. mesh \in Mesh
  BY <1>1, <1>2, <1>3 DEF Mesh, All
<1>5. TypeOK
  BY <1>1, <1>3, <1>4 DEF TypeOK
<1>6. Connected(mesh) = {} /\ Pending(mesh) = {}
  BY <1>1 DEF Connected, Pending, All
<1>7. Fit(mesh)
  BY <1>1, <1>2, <1>4 DEF Fit, RebalanceTracked, All
<1>8. Degree(mesh) = 0
  BY <1>6, FS_EmptySet DEF Degree
<1>9. Timed(mesh)
  BY <1>6 DEF Timed, TimedBut
<1>10. Degree(mesh) <= mesh.maxPeers
  <2>1. mesh.maxPeers = setup.maxPeers
    BY <1>1
  <2> QED
    BY <1>2, <1>8, <2>1
<1> QED
  BY <1>5, <1>7, <1>9, <1>10 DEF IInv, Sound

\* An answered offer keeps the invariant and makes no edge.
LEMMA InboundStep ==
    ASSUME IInv, NEW p \in Peers, Inbound(p)
    PROVE  IInv' /\ Connected(mesh') \subseteq Connected(mesh)
<1> DEFINE d == [mesh EXCEPT !.rtc[p] = "negotiating", !.conn[p] = "pending",
                             !.connecting = @ \cup {p}, !.orphanFor[p] = None,
                             !.startedFor[p] = IF @ = None THEN 0 ELSE @]
<1>1. mesh \in Mesh /\ Fit(mesh) /\ registered \in BOOLEAN /\ None \notin Nat
      /\ 0 \in 0..Pause["stalled"]
  BY IInvFacts, ConstantFacts
<1>2. d \in Mesh
  <2>1. /\ [mesh.rtc EXCEPT ![p] = "negotiating"]
             \in [Peers -> {"none", "negotiating", "open", "dead"}]
        /\ [mesh.conn EXCEPT ![p] = "pending"] \in [Peers -> {"none", "pending", "connected"}]
        /\ mesh.connecting \cup {p} \in SUBSET Peers
        /\ [mesh.orphanFor EXCEPT ![p] = None] \in [Peers -> 0..Pause["stalled"] \cup {None}]
        /\ [mesh.startedFor EXCEPT ![p] = IF @ = None THEN 0 ELSE @]
             \in [Peers -> 0..Pause["stalled"] \cup {None}]
    BY <1>1 DEF Mesh
  <2> QED
    BY <1>1, <2>1 DEF Mesh
<1>3. Dialled(mesh, d, p)
  <2>1. mesh.conn[p] = "none" /\ mesh.rtc[p] # "open"
    BY DEF Inbound
  <2> QED
    BY <1>1, <1>2, <2>1 DEF Dialled, Mesh
<1>4. Becomes(d) /\ setup' = setup /\ registered' = registered /\ Fault
  BY DEF Inbound
<1> HIDE DEF d
<1>5. Kept(mesh, d)
  BY <1>1, <1>3, DialledIsFit
<1> QED
  BY <1>1, <1>4, <1>5, FaultCounted, KeptStep

\* So does a broken transport.
LEMMA BreakStep ==
    ASSUME IInv, NEW p \in Peers, Break(p)
    PROVE  IInv' /\ Connected(mesh') \subseteq Connected(mesh)
<1> DEFINE d == Lost(mesh, p, TRUE)
<1>1. Becomes(d) /\ setup' = setup /\ registered' = registered /\ Fault
  BY DEF Break
<1>2. Kept(mesh, d)
  BY IInvFacts, LostFacts
<1> HIDE DEF d
<1> QED
  BY <1>1, <1>2, IInvFacts, FaultCounted, KeptStep

\* So does a connection that fails unnoticed.
LEMMA DieStep ==
    ASSUME IInv, NEW p \in Peers, Die(p)
    PROVE  IInv' /\ Connected(mesh') \subseteq Connected(mesh)
<1> DEFINE d == [mesh EXCEPT !.rtc[p] = "dead"]
<1>1. mesh \in Mesh /\ mesh.dialled = {}
  BY DEF IInv, TypeOK
<1>2. mesh.rtc[p] = "negotiating" /\ mesh' = d /\ setup' = setup
      /\ registered' = registered /\ unsettled' = unsettled /\ Fault
  BY DEF Die
<1>3. Alike(mesh, d)
  <2>1. d \in Mesh
    BY <1>1 DEF Mesh
  <2> QED
    BY <1>1, <1>2, <2>1 DEF Alike, Mesh
<1>4. d = [d EXCEPT !.dialled = {}]
  <2>1. d \in Mesh /\ d.dialled = {}
    BY <1>1, <1>3 DEF Alike, Mesh
  <2> HIDE DEF d
  <2> QED
    BY <2>1 DEF Mesh
<1> HIDE DEF d
<1>5. Kept(mesh, d) /\ Connected(d) = Connected(mesh)
  BY <1>3, AlikeIsFit, IInvFacts
<1>6. Ends(d)
  BY <1>2, <1>4, IInvFacts, FaultCounted DEF Ends
<1> QED
  BY <1>5, <1>6, EndsSound, KeptIsSound DEF IInv

\* So does a failed negotiation.
LEMMA NegotiationFailedStep ==
    ASSUME IInv, NEW p \in Peers, NegotiationFailed(p)
    PROVE  IInv' /\ Connected(mesh') \subseteq Connected(mesh)
<1> DEFINE a == NoteDialFailure(mesh, p)
           b == [a EXCEPT !.active = @ \ {p}]
           d == Lost(b, p, TRUE)
<1>1. Becomes(d) /\ setup' = setup /\ registered' = registered /\ Fault
  BY DEF NegotiationFailed
<1>2. Fit(a) /\ Kept(mesh, a) /\ a \in Mesh
  BY NoteDialFailureAlike, AlikeIsFit, IInvFacts DEF Alike
<1> HIDE DEF a
<1>3. Alike(a, b)
  <2>1. b \in Mesh
    BY <1>2 DEF Mesh
  <2> QED
    BY <1>2, <2>1 DEF Alike, Mesh
<1> HIDE DEF b
<1>4. Fit(b) /\ Kept(mesh, b)
  BY <1>2, <1>3, AlikeIsFit, KeptTransitive
<1>5. Kept(mesh, d)
  BY <1>4, LostFacts, IInvFacts, KeptTransitive
<1> HIDE DEF d
<1> QED
  BY <1>1, <1>5, IInvFacts, FaultCounted, KeptStep

\* So does a rejected dial: its slot may have lost its starting time when
\* removePeer is called, and is freed by that call.
LEMMA RejectStep ==
    ASSUME IInv, NEW p \in Peers, Reject(p)
    PROVE  IInv' /\ Connected(mesh') \subseteq Connected(mesh)
<1> DEFINE a == NoteDialFailure(mesh, p)
           b == [a EXCEPT !.connecting = @ \ {p}, !.startedFor[p] = None]
           d == Discard(b, p)
<1>1. /\ mesh' = [d EXCEPT !.dialled = {}] /\ unsettled' = (unsettled \ {p}) \cup d.dialled
      /\ setup' = setup /\ registered' = registered /\ Fault
  BY DEF Reject
<1>2. Fit(a) /\ Kept(mesh, a) /\ a \in Mesh /\ Timed(a) /\ None \notin Peers
  BY NoteDialFailureAlike, AlikeIsFit, IInvFacts, ConstantFacts DEF Alike, Kept
<1> HIDE DEF a
<1>3. /\ b \in Mesh /\ b.maxPeers = a.maxPeers /\ b.conn = a.conn
      /\ b.connecting = a.connecting \ {p} /\ b.drop = a.drop /\ b.rtc = a.rtc
      /\ \A q \in Peers \ {p} : b.startedFor[q] = a.startedFor[q]
  <2>1. b \in Mesh
    BY <1>2 DEF Mesh
  <2> QED
    BY <1>2, <2>1 DEF Mesh
<1> HIDE DEF b
<1>4. Fit(b)
  <2>1. RebalanceTracked(b)
    BY <1>2, <1>3 DEF Fit, RebalanceTracked
  <2> QED
    BY <1>2, <1>3, <2>1 DEF Fit
<1>5. TimedBut(b, p) /\ Connected(b) = Connected(a)
  <2>1. Pending(b) \subseteq Pending(a) /\ Pending(a) \subseteq Peers
    BY <1>2, <1>3 DEF Pending, Mesh
  <2>2. TimedBut(b, p)
    BY <1>2, <1>3, <2>1 DEF Timed, TimedBut
  <2> QED
    BY <1>3, <2>2 DEF Connected
<1>6. /\ Fit(d) /\ d.maxPeers = b.maxPeers /\ Connected(d) \subseteq Connected(b)
      /\ Timed(d)
  BY <1>4, <1>5, DiscardFacts, IInvFacts
<1> HIDE DEF d
<1>7. Kept(mesh, d) /\ d \in Mesh
  BY <1>2, <1>3, <1>5, <1>6 DEF Kept, Fit
<1>8. unsettled' \subseteq Peers
  BY <1>1, <1>7, IInvFacts DEF Mesh
<1>9. Ends(d)
  BY <1>1, <1>8, IInvFacts, FaultCounted DEF Ends
<1>10. Sound(d) /\ Connected(d) \subseteq Connected(mesh)
  BY <1>7, KeptIsSound DEF IInv, Kept
<1> QED
  BY <1>9, <1>10, EndsSound

\* So does a peer that leaves the relay.
LEMMA PeerLeftStep ==
    ASSUME IInv, NEW p \in Peers, PeerLeft(p)
    PROVE  IInv' /\ Connected(mesh') \subseteq Connected(mesh)
<1> DEFINE d == [mesh EXCEPT !.discovered = @ \ {p}, !.active = @ \ {p}, !.knownFor[p] = 0]
<1>1. mesh \in Mesh /\ mesh.dialled = {} /\ 0 \in 0..Pause["grace"]
  BY ConstantFacts DEF IInv, TypeOK
<1>2. mesh' = d /\ setup' = setup /\ registered' = registered /\ unsettled' = unsettled /\ Fault
  BY DEF PeerLeft
<1>3. Alike(mesh, d)
  <2>1. d \in Mesh
    BY <1>1 DEF Mesh
  <2> QED
    BY <1>1, <2>1 DEF Alike, Mesh
<1>4. d = [d EXCEPT !.dialled = {}]
  <2>1. d \in Mesh /\ d.dialled = {}
    BY <1>1, <1>3 DEF Alike, Mesh
  <2> HIDE DEF d
  <2> QED
    BY <2>1 DEF Mesh
<1> HIDE DEF d
<1>5. Kept(mesh, d) /\ Connected(d) = Connected(mesh)
  BY <1>3, AlikeIsFit, IInvFacts
<1>6. Ends(d)
  BY <1>2, <1>4, IInvFacts, FaultCounted DEF Ends
<1> QED
  BY <1>5, <1>6, EndsSound, KeptIsSound DEF IInv

\* So does disconnectFromPeer.
LEMMA DisconnectStep ==
    ASSUME IInv, NEW p \in Peers, Disconnect(p)
    PROVE  IInv' /\ Connected(mesh') \subseteq Connected(mesh)
<1> DEFINE d == Discard(mesh, p)
<1>1. Becomes(d) /\ setup' = setup /\ registered' = registered /\ Fault
  BY DEF Disconnect
<1>2. Kept(mesh, d)
  BY IInvFacts, DiscardFacts
<1> HIDE DEF d
<1> QED
  BY <1>1, <1>2, IInvFacts, FaultCounted, KeptStep

\* So does a snapshot of the relay.
LEMMA SnapshotStep ==
    ASSUME IInv, NEW v \in setup.snapshots, Snapshot(v)
    PROVE  IInv' /\ Connected(mesh') \subseteq Connected(mesh)
<1> DEFINE b == Reconciled(mesh, v)
           d == Maintain(b)
<1>1. Becomes(d) /\ setup' = setup /\ registered' = registered /\ faults' = faults
  BY DEF Snapshot
<1>2. Kept(mesh, b) /\ Fit(b)
  BY IInvFacts, ReconciledFacts DEF Kept
<1> HIDE DEF b
<1>3. Settled(b, d)
  BY <1>2, IInvFacts, MaintainFacts
<1> HIDE DEF d
<1>4. Kept(mesh, d)
  BY <1>2, <1>3, KeptTransitive DEF Settled
<1> QED
  BY <1>1, <1>4, IInvFacts, KeptStep

\* So does hardReset.
LEMMA HardResetStep ==
    ASSUME IInv, HardReset
    PROVE  IInv' /\ Connected(mesh') \subseteq Connected(mesh)
<1> DEFINE d == Reset(mesh)
<1>1. Becomes(d) /\ setup' = setup /\ registered' = registered /\ Fault
  BY DEF HardReset
<1>2. Kept(mesh, d)
  BY IInvFacts, ResetFacts
<1> HIDE DEF d
<1> QED
  BY <1>1, <1>2, IInvFacts, FaultCounted, KeptStep

\* With a lower limit, the edges above it are shed at once.
LEMMA UpdateConfigStep ==
    ASSUME IInv, NEW limit \in setup.limits, UpdateConfig(limit)
    PROVE  IInv' /\ Connected(mesh') \subseteq Connected(mesh)
<1> DEFINE b == [mesh EXCEPT !.maxPeers = limit]
           t == Trim(Maintenance)[b]
           d == Maintain(t)
<1>1. Becomes(d) /\ setup' = setup /\ registered' = registered /\ Fault
  BY DEF UpdateConfig
<1>2. Fit(b) /\ Timed(b) /\ Connected(b) = Connected(mesh)
  <2>1. limit \in Nat /\ setup.minPeers <= limit /\ mesh \in Mesh /\ Fit(mesh) /\ Timed(mesh)
    BY IInvFacts, SetupFacts DEF UpdateConfig
  <2>2. b \in Mesh
    BY <2>1 DEF Mesh
  <2>3. /\ b.maxPeers = limit /\ b.conn = mesh.conn /\ b.connecting = mesh.connecting
        /\ b.rtc = mesh.rtc /\ b.drop = mesh.drop /\ b.startedFor = mesh.startedFor
    BY <2>1 DEF Mesh
  <2> HIDE DEF b
  <2>4. RebalanceTracked(b)
    BY <2>1, <2>3 DEF Fit, RebalanceTracked
  <2>5. Fit(b)
    BY <2>1, <2>2, <2>3, <2>4 DEF Fit
  <2> QED
    BY <2>1, <2>3, <2>5 DEF Timed, TimedBut, Pending, Connected
<1> HIDE DEF b
<1>3. Settled(b, t)
  BY <1>2, IInvFacts, TrimmedFacts
<1> HIDE DEF t
<1>4. Fit(t) /\ Timed(t) /\ Connected(t) \subseteq Connected(mesh)
  BY <1>2, <1>3 DEF Settled, Kept
<1>5. Settled(t, d)
  BY <1>4, IInvFacts, MaintainFacts
<1> HIDE DEF d
<1>6. Sound(d) /\ d \in Mesh /\ Connected(d) \subseteq Connected(mesh)
  BY <1>4, <1>5, SettledIsSound DEF Sound, Fit, Settled, Kept
<1>7. Ends(d)
  BY <1>1, <1>6, IInvFacts, FaultCounted, BecomesEnds
<1> QED
  BY <1>6, <1>7, EndsSound

\* So does a registration that is lost or acknowledged.
LEMMA RegistrationStep ==
    ASSUME IInv, Registration
    PROVE  IInv' /\ Connected(mesh') \subseteq Connected(mesh)
<1>1. mesh' = mesh /\ setup' = setup /\ unsettled' = unsettled
  BY DEF Registration
<1>2. registered' \in BOOLEAN
  BY DEF Registration
<1>3. faults' \in 0..MaxFaults
  <2>1. faults \in 0..MaxFaults /\ MaxFaults \in Nat
    BY IInvFacts, ConstantFacts
  <2> QED
    BY <2>1 DEF Registration
<1>4. Sound(mesh)'
  BY <1>1 DEF IInv, Sound, Fit, Timed, TimedBut, Pending, RebalanceTracked, Degree, Connected
<1>5. TypeOK'
  BY <1>1, <1>2, <1>3 DEF IInv, TypeOK
<1> QED
  BY <1>1, <1>4, <1>5 DEF IInv

\* So does the recovery after inactivity.
LEMMA ResumeStep ==
    ASSUME IInv, Resume
    PROVE  IInv' /\ Connected(mesh') \subseteq Connected(mesh)
<1> DEFINE a == [mesh EXCEPT !.failures = All(0), !.backoff = All(0),
                             !.attempt = All(0), !.cooldown = 0]
           fresh == RecoverOrphans[a]
<1>1. Alike(mesh, a)
  <2>1. /\ mesh \in Mesh /\ 0 \in 0..MaxFailures
        /\ 0 \in 0..(Pause["backoffCap"] + Pause["shed"])
        /\ 0 \in 0..(Pause["trim"] + Pause["rebalance"]) /\ 0 \in 0..Pause["attempt"]
    BY IInvFacts, ConstantFacts
  <2>2. a \in Mesh
    BY <2>1 DEF Mesh, All
  <2> QED
    BY <2>1, <2>2 DEF Alike, Mesh
<1>2. /\ \/ Becomes(Maintain(fresh))
         \/ \E p \in Stalled(fresh) : Becomes(Maintain(RecoverStalled(fresh, p)))
      /\ setup' = setup /\ registered' = registered /\ Fault
  BY DEF Resume
<1> HIDE DEF a
<1>3. Fit(a) /\ Kept(mesh, a)
  BY <1>1, AlikeIsFit, IInvFacts
<1>4. Fit(fresh) /\ Kept(mesh, fresh)
  BY <1>3, RecoverOrphansAlike, AlikeIsFit, KeptTransitive
<1> HIDE DEF fresh
<1>5. ASSUME NEW e, Kept(mesh, e), Becomes(Maintain(e))
      PROVE  IInv' /\ Connected(mesh') \subseteq Connected(mesh)
  <2> DEFINE d == Maintain(e)
  <2>1. Settled(e, d)
    BY <1>5, IInvFacts, MaintainFacts DEF Kept
  <2>2. Becomes(d)
    BY <1>5
  <2> HIDE DEF d
  <2>3. Kept(mesh, d)
    BY <1>5, <2>1, KeptTransitive DEF Settled
  <2> QED
    BY <1>2, <2>2, <2>3, IInvFacts, FaultCounted, KeptStep
<1>6. ASSUME NEW p \in Stalled(fresh)
      PROVE  Kept(mesh, RecoverStalled(fresh, p))
  BY <1>4, IInvFacts, RecoverStalledFacts, KeptTransitive
<1> QED
  BY <1>2, <1>4, <1>5, <1>6

\* So does a turn of the timer.
LEMMA TickStep ==
    ASSUME IInv, Tick
    PROVE  IInv' /\ Connected(mesh') \subseteq Connected(mesh)
<1> DEFINE c == Aged(mesh)
<1>1. PICK d \in IF Stalled(c) = {} THEN {c} ELSE {RecoverStalled(c, p) : p \in Stalled(c)} :
        \E e \in {Maintain(d)} : \E r \in Recovered(e) : Becomes(r)
  BY DEF Tick
<1>2. setup' = setup /\ registered' = registered /\ faults' = faults
  BY DEF Tick
<1>3. Fit(c) /\ Kept(mesh, c)
  BY AgedAlike, AlikeIsFit, IInvFacts
<1> HIDE DEF c
<1>4. Kept(mesh, d)
  <2>1. CASE d = c
    BY <1>3, <2>1
  <2>2. CASE d # c
    <3>1. PICK p \in Stalled(c) : d = RecoverStalled(c, p)
      BY <2>2
    <3> QED
      BY <1>3, <3>1, IInvFacts, RecoverStalledFacts, KeptTransitive
  <2> QED
    BY <2>1, <2>2
<1>5. PICK e : e = Maintain(d) /\ \E r \in Recovered(e) : Becomes(r)
  BY <1>1
<1>6. Kept(mesh, e)
  BY <1>4, <1>5, IInvFacts, MaintainFacts, KeptTransitive DEF Settled, Kept
<1>7. PICK r \in Recovered(e) : Becomes(r)
  BY <1>5
<1>8. Kept(mesh, r)
  <2>1. r = e \/ r = Maintain(e)
    BY <1>7 DEF Recovered
  <2> QED
    BY <1>6, <2>1, IInvFacts, MaintainFacts, KeptTransitive DEF Settled, Kept
<1> QED
  BY <1>2, <1>7, <1>8, IInvFacts, KeptStep

\* An opened transport keeps the invariant: the edge above the limit that it
\* may make is replaced or shed by the same handler.
LEMMA OpenStep ==
    ASSUME IInv, NEW p \in Peers, Open(p)
    PROVE  IInv' /\ Connected(mesh') \subseteq Connected(mesh) \cup {p}
<1> DEFINE o == Opened(mesh, p)
           r == Replaced(mesh, o, p)
           t == Trim(Maintenance)[r]
           d == Maintain(t)
<1>1. Becomes(d) /\ setup' = setup /\ registered' = registered /\ faults' = faults
  BY DEF Open
<1>2. /\ Fit(o) /\ Timed(o) /\ o.maxPeers = mesh.maxPeers
      /\ Connected(o) = Connected(mesh) \cup {p}
  BY OpenedFacts, IInvFacts DEF Open
<1> HIDE DEF o
<1>3. Kept(o, r)
  BY <1>2, ReplacedFacts, IInvFacts
<1> HIDE DEF r
<1>4. Settled(r, t)
  BY <1>3, TrimmedFacts, IInvFacts DEF Kept
<1> HIDE DEF t
<1>5. Settled(t, d)
  BY <1>4, MaintainFacts, IInvFacts DEF Settled, Kept
<1> HIDE DEF d
<1>6. /\ Sound(d) /\ d \in Mesh
      /\ Connected(d) \subseteq Connected(mesh) \cup {p}
  BY <1>2, <1>3, <1>4, <1>5, SettledIsSound DEF Settled, Kept, Fit
<1>7. Ends(d)
  BY <1>1, <1>6, BecomesEnds, IInvFacts
<1> QED
  BY <1>6, <1>7, EndsSound

\* The components in reach are the image of the edges.
LEMMA ReachedFinite ==
    ASSUME NEW c
    PROVE  /\ IsFiniteSet(Reached(c))
           /\ [q \in Connected(c) |-> setup.component[q]] \in [Connected(c) -> Reached(c)]
<1> DEFINE f == [q \in Connected(c) |-> setup.component[q]]
<1>1. IsFiniteSet(Connected(c))
  BY DegreeFacts
<1>2. f \in Surjection(Connected(c), Reached(c))
  <2>1. f \in [Connected(c) -> Reached(c)]
    BY DEF Reached
  <2>2. \A t \in Reached(c) : \E q \in Connected(c) : f[q] = t
    BY DEF Reached
  <2> QED
    BY <2>1, <2>2 DEF Surjection
<1> HIDE DEF f
<1>3. IsFiniteSet(Reached(c)) /\ f \in [Connected(c) -> Reached(c)]
  BY <1>1, <1>2, FS_Surjection DEF Surjection
<1> QED
  BY <1>3 DEF f

\* Of more edges than components, one is not the only edge into its component,
\* and neither is then the first that trimExcessPeers sheds.
LEMMA FirstShedIsNoBridge ==
    ASSUME setup \in Setups, NEW c \in Mesh, Cardinality(Reached(c)) < Degree(c)
    PROVE  \E q \in Connected(c) \ {DropOrder(c)[1]} :
              setup.component[q] = setup.component[DropOrder(c)[1]]
<1> DEFINE f == [q \in Connected(c) |-> setup.component[q]]
           ps == DropOrder(c)
<1>1. IsFiniteSet(Connected(c)) /\ Connected(c) \subseteq Peers /\ Degree(c) \in Nat
  BY DegreeFacts
<1>3. IsFiniteSet(Reached(c)) /\ f \in [Connected(c) -> Reached(c)]
  BY ReachedFinite
<1>4. PICK x \in Connected(c), y \in Connected(c) : x # y /\ f[x] = f[y]
  <2> HIDE DEF f
  <2> QED
    BY <1>1, <1>3, FS_PigeonHole DEF Degree
<1>5. x \notin Bridges(c)
  BY <1>4 DEF Bridges
<1>6. Lists(ps, Connected(c)) /\ ps[1] \notin Bridges(c)
  BY <1>4, <1>5, DropOrderFacts
<1> HIDE DEF ps
<1>7. ps[1] \in Connected(c)
  <2>1. Cardinality(Connected(c)) # 0
    BY <1>1, <1>4, FS_EmptySet
  <2>2. 1 \in 1..Cardinality(Connected(c))
    BY <1>1, <2>1 DEF Degree
  <2> QED
    BY <1>6, <2>2 DEF Lists
<1>8. \E q \in Connected(c) \ {ps[1]} : setup.component[q] = setup.component[ps[1]]
  BY <1>6, <1>7 DEF Bridges
<1> QED
  BY <1>8 DEF ps

\* trimExcessPeers, for one edge too many.
LEMMA TrimOne ==
    ASSUME setup \in Setups, NEW c, Fit(c), Degree(c) = c.maxPeers + 1
    PROVE  /\ DropOrder(c)[1] \in Connected(c)
           /\ Connected(Trim(Maintenance)[c]) = Connected(c) \ {DropOrder(c)[1]}
<1> DEFINE ps == DropOrder(c)
           start == [c EXCEPT !.cooldown = Greatest(@, Pause["trim"])]
           shed == Shed(Maintenance)
<1>1. c \in Mesh /\ c.maxPeers \in Nat /\ Degree(c) \in Nat /\ Excess(c) = 1
  BY DegreeFacts DEF Fit, Mesh, Excess, Degree
<1>2. Trim(Maintenance)[c] = ForEach(1, ps, start, shed)
  <2>1. ~(Excess(c) <= 0)
    BY <1>1
  <2> QED
    BY <1>1, <2>1 DEF Trim
<1>3. Alike(c, start)
  BY <1>1, CooldownAlike
<1>4. ps[1] \in Connected(c)
  <2>1. Lists(ps, Connected(c))
    BY <1>1, DropOrderFacts
  <2>2. 1 \in 1..Degree(c)
    BY <1>1
  <2> HIDE DEF ps
  <2> QED
    BY <2>1, <2>2 DEF Lists, Degree
<1> HIDE DEF start, shed, ps
<1>5. Fit(start) /\ start.maxPeers = c.maxPeers /\ Connected(start) = Connected(c)
  BY <1>3, AlikeIsFit DEF Alike
<1>6. ForEach(1, ps, start, shed) = shed[ps[1]][start]
  <2>1. PICK after : /\ after[0] = start
                     /\ \A i \in 1..1 : after[i] = shed[ps[i]][after[i - 1]]
                     /\ ForEach(1, ps, start, shed) = after[1]
    BY LoopRuns
  <2>2. 1 \in 1..1 /\ 1 - 1 = 0
    OBVIOUS
  <2> QED
    BY <2>1, <2>2
<1>7. PICK q \in Connected(c) : q = ps[1]
  BY <1>4
<1>8. q \in Peers /\ Cardinality(Connected(start) \ {q}) = c.maxPeers
  <2>1. q \in Peers /\ IsFiniteSet(Connected(c))
    BY <1>7, DegreeFacts
  <2>2. Cardinality(Connected(c) \ {q}) = Cardinality(Connected(c)) - 1
    BY <2>1, <1>7, FS_RemoveElement
  <2> QED
    BY <1>1, <1>5, <2>1, <2>2 DEF Degree
<1>9. c.maxPeers < MaxDepth /\ MaxDepth \in Nat /\ Maintains(Maintenance, MaxDepth)
  <2>1. Degree(c) < MaxDepth
    BY DegreeIsLow
  <2> QED
    BY <1>1, <2>1, MaintenanceMaintains
<1>10. PICK e : e = shed[q][start]
  OBVIOUS
<1>11. Connected(e) = Connected(c) \ {q}
  <2>1. Cardinality(Connected(start) \ {q}) < MaxDepth
    BY <1>8, <1>9
  <2>2. Cardinality(Connected(start) \ {q}) <= start.maxPeers
    BY <1>1, <1>5, <1>8
  <2>3. e = Shed(Maintenance)[q][start]
    BY <1>10 DEF shed
  <2> QED
    BY <1>5, <1>8, <1>9, <2>1, <2>2, <2>3, ShedFacts
<1>12. Trim(Maintenance)[c] = e
  BY <1>2, <1>6, <1>7, <1>10
<1> QED
  BY <1>4, <1>7, <1>11, <1>12 DEF ps

\* The handler of an opened transport sheds at most one edge, and none that is
\* the only one into its component while another edge is not.
LEMMA OpenKeepsReach ==
    ASSUME IInv, NEW p \in Peers, Open(p), mesh.drop[p] = None,
           Cardinality(Reached(mesh) \cup {setup.component[p]}) <= mesh.maxPeers
    PROVE  Reached(mesh) \subseteq Reached(mesh')
<1> DEFINE o == Opened(mesh, p)
           t == Trim(Maintenance)[o]
           d == Maintain(t)
<1>1. Becomes(d) /\ setup' = setup /\ registered' = registered /\ faults' = faults
  BY DEF Open, Replaced
<1>2. /\ Fit(o) /\ Timed(o) /\ o.maxPeers = mesh.maxPeers
      /\ Connected(o) = Connected(mesh) \cup {p} /\ p \notin Connected(mesh)
  BY OpenedFacts, IInvFacts DEF Open
<1>3. Settled(o, t)
  BY <1>2, TrimmedFacts, IInvFacts
<1>4. Connected(t) = Connected(o)
      \/ /\ Degree(o) = o.maxPeers + 1
         /\ Connected(t) = Connected(o) \ {DropOrder(o)[1]}
  <2> HIDE DEF o
  <2>1. Degree(o) = Degree(mesh) + 1
    BY <1>2, DegreeFacts, FS_AddElement DEF Degree
  <2>2. Degree(mesh) <= mesh.maxPeers /\ Degree(mesh) \in Nat /\ mesh.maxPeers \in Nat
    BY IInvFacts, DegreeFacts DEF Mesh
  <2>3. CASE Degree(o) <= o.maxPeers
    BY <1>3, <2>3 DEF Settled
  <2>4. CASE ~(Degree(o) <= o.maxPeers)
    <3>1. Degree(o) = o.maxPeers + 1
      BY <1>2, <2>1, <2>2, <2>4
    <3> QED
      BY <1>2, <3>1, TrimOne, IInvFacts
  <2> QED
    BY <2>3, <2>4
<1> HIDE DEF o, t
<1>5. Settled(t, d)
  BY <1>3, MaintainFacts, IInvFacts DEF Settled, Kept
<1> HIDE DEF d
<1>6. Connected(mesh') = Connected(t)
  <2>1. Sound(d) /\ d \in Mesh /\ Connected(d) = Connected(t)
    BY <1>3, <1>5, <1>2, SettledIsSound DEF Settled, Kept, Fit
  <2>2. Ends(d)
    BY <1>1, <2>1, BecomesEnds, IInvFacts
  <2> QED
    BY <2>1, <2>2, EndsSound
<1>7. Reached(o) = Reached(mesh) \cup {setup.component[p]}
  BY <1>2 DEF Reached
<1>8. Reached(o) \subseteq Reached(t)
  <2>1. CASE Connected(t) = Connected(o)
    BY <2>1 DEF Reached
  <2>2. CASE /\ Degree(o) = o.maxPeers + 1
             /\ Connected(t) = Connected(o) \ {DropOrder(o)[1]}
    <3>1. Cardinality(Reached(o)) < Degree(o)
      <4>1. IsFiniteSet(Reached(o))
        BY ReachedFinite
      <4> QED
        BY <1>2, <1>7, <2>2, <4>1, FS_CardinalityType, IInvFacts DEF Mesh
    <3>2. PICK q \in Connected(o) \ {DropOrder(o)[1]} :
             setup.component[q] = setup.component[DropOrder(o)[1]]
      BY <1>2, <3>1, FirstShedIsNoBridge, IInvFacts DEF Fit
    <3>3. ASSUME NEW x \in Connected(o)
          PROVE  setup.component[x] \in Reached(t)
      <4>1. CASE x = DropOrder(o)[1]
        BY <2>2, <3>2, <4>1 DEF Reached
      <4>2. CASE x # DropOrder(o)[1]
        BY <2>2, <4>2 DEF Reached
      <4> QED
        BY <4>1, <4>2
    <3> QED
      BY <3>3 DEF Reached
  <2> QED
    BY <1>4, <2>1, <2>2
<1> QED
  BY <1>6, <1>7, <1>8 DEF Reached

-----------------------------------------------------------------------------
\* A stuttering step keeps the invariant.
LEMMA UnchangedStep ==
    ASSUME IInv, UNCHANGED vars
    PROVE  IInv' /\ Connected(mesh') \subseteq Connected(mesh)
<1>1. /\ mesh' = mesh /\ setup' = setup /\ unsettled' = unsettled
      /\ registered' = registered /\ faults' = faults
  BY DEF vars
<1>2. Sound(mesh)'
  BY <1>1 DEF IInv, Sound, Fit, Timed, TimedBut, Pending, RebalanceTracked, Degree, Connected
<1>3. TypeOK'
  BY <1>1 DEF IInv, TypeOK
<1> QED
  BY <1>1, <1>2, <1>3 DEF IInv

\* Only an opened transport adds an edge, and only its own.
LEMMA NextStep ==
    ASSUME IInv, [Next]_vars
    PROVE  /\ IInv'
           /\ \/ Connected(mesh') \subseteq Connected(mesh)
              \/ \E p \in Peers : Open(p) /\ Connected(mesh') \subseteq Connected(mesh) \cup {p}
<1>1. ASSUME NEW p \in Peers, Inbound(p)
      PROVE  IInv' /\ Connected(mesh') \subseteq Connected(mesh)
  BY <1>1, InboundStep
<1>2. ASSUME NEW p \in Peers, Open(p)
      PROVE  IInv' /\ Connected(mesh') \subseteq Connected(mesh) \cup {p}
  BY <1>2, OpenStep
<1>3. ASSUME NEW p \in Peers, Break(p)
      PROVE  IInv' /\ Connected(mesh') \subseteq Connected(mesh)
  BY <1>3, BreakStep
<1>4. ASSUME NEW p \in Peers, Die(p)
      PROVE  IInv' /\ Connected(mesh') \subseteq Connected(mesh)
  BY <1>4, DieStep
<1>5. ASSUME NEW p \in Peers, NegotiationFailed(p)
      PROVE  IInv' /\ Connected(mesh') \subseteq Connected(mesh)
  BY <1>5, NegotiationFailedStep
<1>6. ASSUME NEW p \in Peers, Reject(p)
      PROVE  IInv' /\ Connected(mesh') \subseteq Connected(mesh)
  BY <1>6, RejectStep
<1>7. ASSUME NEW p \in Peers, PeerLeft(p)
      PROVE  IInv' /\ Connected(mesh') \subseteq Connected(mesh)
  BY <1>7, PeerLeftStep
<1>8. ASSUME NEW p \in Peers, Disconnect(p)
      PROVE  IInv' /\ Connected(mesh') \subseteq Connected(mesh)
  BY <1>8, DisconnectStep
<1>9. ASSUME NEW v \in setup.snapshots, Snapshot(v)
      PROVE  IInv' /\ Connected(mesh') \subseteq Connected(mesh)
  BY <1>9, SnapshotStep
<1>10. ASSUME NEW limit \in setup.limits, UpdateConfig(limit)
       PROVE  IInv' /\ Connected(mesh') \subseteq Connected(mesh)
  BY <1>10, UpdateConfigStep
<1>11. ASSUME HardReset
       PROVE  IInv' /\ Connected(mesh') \subseteq Connected(mesh)
  BY <1>11, HardResetStep
<1>12. ASSUME Registration
       PROVE  IInv' /\ Connected(mesh') \subseteq Connected(mesh)
  BY <1>12, RegistrationStep
<1>13. ASSUME Resume
       PROVE  IInv' /\ Connected(mesh') \subseteq Connected(mesh)
  BY <1>13, ResumeStep
<1>14. ASSUME Tick
       PROVE  IInv' /\ Connected(mesh') \subseteq Connected(mesh)
  BY <1>14, TickStep
<1>15. ASSUME UNCHANGED vars
       PROVE  IInv' /\ Connected(mesh') \subseteq Connected(mesh)
  BY <1>15, UnchangedStep
<1> QED
  BY <1>1, <1>2, <1>3, <1>4, <1>5, <1>6, <1>7, <1>8, <1>9, <1>10, <1>11, <1>12, <1>13,
     <1>14, <1>15 DEF Next

\* The inductive invariant holds throughout.
LEMMA Invariance == Spec => []IInv
<1>1. Init => IInv
  BY InitIInv
<1>2. IInv /\ [Next]_vars => IInv'
  BY NextStep
<1> QED
  BY <1>1, <1>2, PTL DEF Spec

\* TypeOK: every table keeps its shape, and no dial is left over from a handler.
THEOREM TypeCorrect == Spec => []TypeOK
<1>1. IInv => TypeOK
  BY DEF IInv
<1> QED
  BY <1>1, Invariance, PTL

\* DegreeBound: "maxPeers is the steady-state target".  Whatever connects,
\* however many edges maintenance sheds inside maintenance, no handler ends
\* with more edges than maxPeers.
THEOREM DegreeStaysBounded == Spec => []DegreeBound
<1>1. IInv => DegreeBound
  BY DEF IInv, Sound, Degree, DegreeBound
<1> QED
  BY <1>1, Invariance, PTL

\* SlotsAccounted: the entries agree with the transports, every slot taken has
\* a starting time for the watchdog, and every planned rebalance waits for a
\* live dial to replace a live edge that no other one replaces.
THEOREM SlotsAreAccounted == Spec => []SlotsAccounted
<1>1. ASSUME IInv
      PROVE  SlotsAccounted
  <2>1. Fit(mesh) /\ Timed(mesh) /\ mesh \in Mesh
    BY <1>1, IInvFacts
  <2>2. \A p \in Pending(mesh) : mesh.startedFor[p] # None
    <3>1. Pending(mesh) \subseteq Peers /\ None \notin Peers
      BY <2>1, ConstantFacts DEF Pending, Mesh
    <3> QED
      BY <2>1, <3>1 DEF Timed, TimedBut
  <2> QED
    BY <2>1, <2>2 DEF SlotsAccounted, Fit
<1> QED
  BY <1>1, Invariance, PTL

\* AdmissionKeepsReach: an edge that trimExcessPeers sheds for a new one leaves
\* every component in reach, as long as there are no more of them than edges.
THEOREM AdmissionsKeepReach == Spec => AdmissionKeepsReach
<1> DEFINE Keeps ==
      \A p \in Peers :
         (/\ mesh.conn[p] # "connected" /\ mesh'.conn[p] = "connected"
          /\ mesh.drop[p] = None
          /\ Cardinality(Reached(mesh) \cup {setup.component[p]}) <= mesh.maxPeers)
         => Reached(mesh) \subseteq Reached(mesh')
<1>1. ASSUME IInv, [Next]_vars
      PROVE  Keeps
  <2> SUFFICES ASSUME NEW p \in Peers,
                      mesh.conn[p] # "connected", mesh'.conn[p] = "connected",
                      mesh.drop[p] = None,
                      Cardinality(Reached(mesh) \cup {setup.component[p]}) <= mesh.maxPeers
               PROVE  Reached(mesh) \subseteq Reached(mesh')
    OBVIOUS
  <2>1. p \in Connected(mesh') /\ p \notin Connected(mesh)
    BY DEF Connected
  <2>2. PICK q \in Peers : Open(q) /\ Connected(mesh') \subseteq Connected(mesh) \cup {q}
    BY <1>1, <2>1, NextStep
  <2>3. q = p
    BY <2>1, <2>2
  <2> QED
    BY <1>1, <2>2, <2>3, OpenKeepsReach
<1> HIDE DEF Keeps
<1>2. Spec => [][Keeps]_vars
  BY <1>1, Invariance, PTL DEF Spec
<1> QED
  BY <1>2 DEF AdmissionKeepsReach, Keeps

-----------------------------------------------------------------------------
(* Direct routing                                                            *)

USE DEF Copy

\* Copies under way have left their sender and belong to a sent message; so
\* does every message that was received.
Provenance ==
    /\ \A c \in net : Len(c.path) >= 2 /\ sent[c.id] # Unsent
    /\ \A m \in Msg : received[m] > 0 => sent[m] # Unsent

\* The inductive invariant.
RoutingIInv == RoutingTypeOK /\ Provenance /\ StrictProgress /\ SingleInstance

\* Progress of one copy, as StrictProgress states it of all.
Progressing(c) ==
    \A i, j \in 1..Len(c.path) :
        i < j => Distance[c.path[j]][c.to] < Distance[c.path[i]][c.to]

-----------------------------------------------------------------------------
\* Distances are natural numbers, zero only from a peer to itself.
LEMMA DistanceFacts ==
    \A p, q \in Peer : Distance[p][q] \in Nat /\ (Distance[p][q] = 0 <=> p = q)
  BY DirectRoutingAssumption

\* A lower bucket means a smaller distance.
LEMMA LowerBucketIsCloser ==
    ASSUME NEW a \in Nat, NEW b \in Nat, LowerBucket(a, b)
    PROVE  a < b
<1>1. PICK k \in Bounds : a < k /\ k <= b
  BY DEF LowerBucket, Bucket
<1>2. k \in Nat
  BY DirectRoutingAssumption
<1> QED
  BY <1>1, <1>2

\* Whatever the connections and the view, a peer other than the target hands
\* a copy only to a peer strictly closer to the target.
LEMMA NextHopIsCloser ==
    ASSUME RoutingTypeOK, NEW p \in Peer, NEW c \in Copy, NEW exclude, c.to # p,
           NEW next \in NextHops(p, c, exclude)
    PROVE  /\ next \in Peer
           /\ Distance[next][c.to] < Distance[p][c.to]
<1>1. c.to \in Peer /\ conn[p] \subseteq Peer
  BY DEF RoutingTypeOK
<1>2. next \in conn[p]
  BY DEF NextHops, RouteCandidates
<1>3. next \in Peer
  BY <1>1, <1>2
<1>4. /\ Distance[next][c.to] \in Nat
      /\ Distance[p][c.to] \in Nat
  BY <1>1, <1>3, DistanceFacts
<1>5. CASE c.to \in conn[p]
  <2>1. next = c.to
    BY <1>5 DEF NextHops
  <2>2. Distance[c.to][c.to] = 0 /\ Distance[p][c.to] # 0
    BY <1>1, DistanceFacts
  <2> QED
    BY <1>3, <1>4, <2>1, <2>2
<1>6. CASE c.to \notin conn[p]
  <2>1. next \in RouteCandidates(p, c.to, exclude)
    BY <1>6 DEF NextHops
  <2>2. \/ LowerBucket(Distance[next][c.to], Distance[p][c.to])
        \/ Distance[next][c.to] < Distance[p][c.to]
    BY <2>1 DEF RouteCandidates
  <2> QED
    BY <1>3, <1>4, <2>2, LowerBucketIsCloser
<1> QED
  BY <1>5, <1>6

\* Forwarding to a closer peer keeps a copy well formed and progressing.
LEMMA ForwardedProgresses ==
    ASSUME NEW c \in Copy, Len(c.path) >= 1, Progressing(c), NEW next \in Peer,
           Distance[next][c.to] < Distance[Holder(c)][c.to]
    PROVE  /\ Forwarded(c, next) \in Copy
           /\ Forwarded(c, next).id = c.id
           /\ Len(Forwarded(c, next).path) = Len(c.path) + 1
           /\ Progressing(Forwarded(c, next))
<1> DEFINE d == Forwarded(c, next)
           n == Len(c.path)
<1>1. c.path \in Seq(Peer) /\ n \in Nat /\ c.to \in Peer /\ c.hops \in Nat
  OBVIOUS
<1>2. d = [id |-> c.id, to |-> c.to, hops |-> c.hops + 1,
           path |-> Append(c.path, next)]
  BY DEF Forwarded
<1>3. /\ Append(c.path, next) \in Seq(Peer)
      /\ Len(Append(c.path, next)) = n + 1
      /\ \A i \in 1..n : Append(c.path, next)[i] = c.path[i]
      /\ Append(c.path, next)[n + 1] = next
  BY <1>1
<1>4. d \in Copy /\ d.id = c.id /\ d.to = c.to /\ Len(d.path) = n + 1
  BY <1>1, <1>2, <1>3
<1>5. \A i \in 1..n : Distance[c.path[i]][c.to] \in Nat
  <2>1. \A i \in 1..n : c.path[i] \in Peer
    BY <1>1
  <2> QED
    BY <1>1, <2>1, DistanceFacts
<1>6. Distance[next][c.to] \in Nat
  BY <1>1, DistanceFacts
<1>7. ASSUME NEW i \in 1..(n + 1), NEW j \in 1..(n + 1), i < j
      PROVE  Distance[d.path[j]][c.to] < Distance[d.path[i]][c.to]
  <2>1. i \in 1..n /\ d.path[i] = c.path[i]
    BY <1>1, <1>2, <1>3, <1>7
  <2>2. CASE j \in 1..n
    <3>1. d.path[j] = c.path[j]
      BY <1>2, <1>3, <2>2
    <3> QED
      BY <1>7, <2>1, <2>2, <3>1 DEF Progressing
  <2>3. CASE j = n + 1
    <3>1. d.path[j] = next
      BY <1>2, <1>3, <2>3
    <3>2. Distance[next][c.to] < Distance[c.path[n]][c.to]
      BY DEF Holder
    <3>3. i = n \/ Distance[c.path[n]][c.to] < Distance[c.path[i]][c.to]
      BY <1>1, <2>1 DEF Progressing
    <3> QED
      BY <1>1, <1>5, <1>6, <2>1, <3>1, <3>2, <3>3
  <2> QED
    BY <1>1, <2>2, <2>3
<1> QED
  BY <1>1, <1>4, <1>7 DEF Progressing

-----------------------------------------------------------------------------
\* What one routing step of a copy c, absent from `rest', preserves: the
\* copies stay well formed, sent and progressing, and c lives on at most once.
LEMMA RouteDirectStep ==
    ASSUME RoutingTypeOK, NEW p \in Peer, NEW c \in Copy, NEW exclude, NEW rest,
           Len(c.path) >= 1, Holder(c) = p, Progressing(c),
           rest \subseteq net, received[c.id] = 0,
           \A d \in rest : d.id # c.id,
           \A d \in rest : Len(d.path) >= 2 /\ received[d.id] = 0,
           \A d, e \in rest : d.id = e.id => d = e,
           \A m \in Msg : received[m] <= 1,
           StrictProgress,
           RouteDirect(p, c, exclude, rest)
    PROVE  /\ net' \subseteq Copy
           /\ \A d \in net' : Len(d.path) >= 2 /\ (d \in rest \/ d.id = c.id)
           /\ StrictProgress'
           /\ SingleInstance'
           /\ received' \in [Msg -> Nat]
           /\ \A m \in Msg : received'[m] > 0 => received[m] > 0 \/ m = c.id
           /\ failures' \in Nat
<1>1. /\ rest \subseteq Copy /\ c.id \in Msg /\ failures \in Nat
      /\ received \in [Msg -> Nat]
  BY DEF RoutingTypeOK
<1>2. \A d \in rest : Progressing(d)
  BY DEF StrictProgress, Progressing
<1>3. CASE c.to = p
  <2>1. /\ net' = rest /\ failures' = failures
        /\ received' = [received EXCEPT ![c.id] = @ + 1]
    BY <1>3 DEF RouteDirect
  <2>2. \A m \in Msg : received'[m] = IF m = c.id THEN 1 ELSE received[m]
    BY <1>1, <2>1
  <2>3. StrictProgress'
    BY <1>2, <2>1 DEF StrictProgress, Progressing
  <2>4. SingleInstance'
    BY <1>1, <2>1, <2>2 DEF SingleInstance
  <2> QED
    BY <1>1, <2>1, <2>2, <2>3, <2>4
<1>4. CASE c.to # p /\ net' = rest
  <2>1. received' = received /\ failures' \in Nat
    BY <1>1, <1>4 DEF RouteDirect
  <2>2. StrictProgress'
    BY <1>2, <1>4 DEF StrictProgress, Progressing
  <2>3. SingleInstance'
    BY <1>1, <1>4, <2>1 DEF SingleInstance
  <2> QED
    BY <1>1, <1>4, <2>1, <2>2, <2>3
<1>5. CASE c.to # p /\ net' # rest
  <2>1. PICK next \in NextHops(p, c, exclude) :
           /\ net' = rest \cup {Forwarded(c, next)}
           /\ received' = received /\ failures' = failures
    BY <1>5 DEF RouteDirect
  <2>2. next \in Peer /\ Distance[next][c.to] < Distance[Holder(c)][c.to]
    BY <1>5, NextHopIsCloser
  <2> DEFINE d == Forwarded(c, next)
  <2>3. d \in Copy /\ d.id = c.id /\ Len(d.path) >= 2 /\ Progressing(d)
    <3>1. /\ d \in Copy /\ d.id = c.id /\ Progressing(d)
          /\ Len(d.path) = Len(c.path) + 1
      BY <2>2, ForwardedProgresses
    <3>2. Len(c.path) \in Nat
      OBVIOUS
    <3> QED
      BY <3>1, <3>2
  <2> HIDE DEF d
  <2>4. \A e \in net' : e \in rest \/ e = d
    BY <2>1 DEF d
  <2>5. \A e \in net' : Progressing(e)
    BY <1>2, <2>3, <2>4
  <2>6. StrictProgress'
    BY <2>5 DEF StrictProgress, Progressing
  <2>7. SingleInstance'
    BY <1>1, <2>1, <2>3, <2>4 DEF SingleInstance
  <2> QED
    BY <1>1, <2>1, <2>3, <2>4, <2>6, <2>7
<1> QED
  BY <1>3, <1>4, <1>5

-----------------------------------------------------------------------------
LEMMA RoutingInitIInv == RoutingInit => RoutingIInv
  BY DirectRoutingAssumption
     DEF RoutingInit, RoutingIInv, RoutingTypeOK, Provenance, StrictProgress, SingleInstance

LEMMA SendDirectStep ==
    ASSUME RoutingIInv, NEW p \in Peer, NEW target \in Peer, NEW m \in Msg,
           SendDirect(p, m, target)
    PROVE  RoutingIInv'
<1> DEFINE c == [id |-> m, to |-> target, hops |-> 0, path |-> <<p>>]
<1>1. /\ sent[m] = Unsent
      /\ sent' = [sent EXCEPT ![m] = [from |-> p, to |-> target]]
      /\ seen' = [seen EXCEPT ![p] = @ \cup {m}]
      /\ RouteDirect(p, c, {}, net)
      /\ UNCHANGED <<conn, view, changes>>
  BY DEF SendDirect
<1>2. /\ RoutingTypeOK /\ Provenance /\ StrictProgress /\ SingleInstance
      /\ net \subseteq Copy /\ received \in [Msg -> Nat]
      /\ sent \in [Msg -> [from : Peer, to : Peer] \cup {Unsent}]
  BY DEF RoutingIInv, RoutingTypeOK
<1>3. <<p>> \in Seq(Peer) /\ Len(<<p>>) = 1 /\ <<p>>[1] = p
  OBVIOUS
<1>4. c \in Copy /\ c.id = m /\ Len(c.path) >= 1 /\ Holder(c) = p
  BY <1>3 DEF Holder
<1>5. Progressing(c)
  <2>1. \A i, j \in 1..Len(c.path) : ~(i < j)
    BY <1>3
  <2> QED
    BY <2>1 DEF Progressing
<1>6. received[m] = 0 /\ \A d \in net : d.id # m
  BY <1>1, <1>2 DEF Provenance
<1> HIDE DEF c
<1>7. /\ \A d \in net : d.id # c.id /\ Len(d.path) >= 2 /\ received[d.id] = 0
      /\ \A d, e \in net : d.id = e.id => d = e
      /\ \A n \in Msg : received[n] <= 1
      /\ received[c.id] = 0
  BY <1>2, <1>4, <1>6 DEF Provenance, SingleInstance
<1>8. /\ net' \subseteq Copy
      /\ \A d \in net' : Len(d.path) >= 2 /\ (d \in net \/ d.id = c.id)
      /\ StrictProgress' /\ SingleInstance'
      /\ received' \in [Msg -> Nat]
      /\ \A n \in Msg : received'[n] > 0 => received[n] > 0 \/ n = c.id
      /\ failures' \in Nat
  <2>1. /\ RoutingTypeOK /\ StrictProgress /\ p \in Peer /\ net \subseteq net
        /\ c \in Copy /\ Len(c.path) >= 1 /\ Holder(c) = p /\ Progressing(c)
    BY <1>2, <1>4, <1>5
  <2>2. RouteDirect(p, c, {}, net)
    BY <1>1
  <2> QED
    BY <1>2, <1>7, <2>1, <2>2, RouteDirectStep
<1>9. RoutingTypeOK'
  BY <1>1, <1>2, <1>8 DEF RoutingTypeOK
<1>10. sent'[m] # Unsent /\ \A n \in Msg : sent[n] # Unsent => sent'[n] # Unsent
  BY <1>1, <1>2, DirectRoutingAssumption
<1>11. Provenance'
  BY <1>2, <1>4, <1>8, <1>10 DEF Provenance
<1> QED
  BY <1>8, <1>9, <1>11 DEF RoutingIInv

LEMMA HandleDirectStep ==
    ASSUME RoutingIInv, NEW c \in net, HandleDirect(c)
    PROVE  RoutingIInv'
<1> DEFINE p == Holder(c)
<1>1. /\ RoutingTypeOK /\ Provenance /\ StrictProgress /\ SingleInstance
      /\ c \in Copy /\ c.id \in Msg /\ net \subseteq Copy
      /\ Len(c.path) >= 2 /\ Len(c.path) \in Nat /\ c.path \in Seq(Peer)
  BY DEF RoutingIInv, RoutingTypeOK, Provenance
<1>2. p \in Peer
  BY <1>1 DEF Holder
<1>3. UNCHANGED <<conn, view, sent, changes>>
  BY DEF HandleDirect
<1>4. CASE c.id \in seen[p]
  <2>1. net' = net \ {c} /\ UNCHANGED <<seen, received, failures>>
    BY <1>4 DEF HandleDirect
  <2>2. RoutingTypeOK' /\ Provenance' /\ StrictProgress' /\ SingleInstance'
    BY <1>1, <1>3, <2>1
       DEF RoutingTypeOK, Provenance, StrictProgress, SingleInstance
  <2> QED
    BY <2>2 DEF RoutingIInv
<1>5. CASE c.id \notin seen[p]
  <2>1. /\ seen' = [seen EXCEPT ![p] = @ \cup {c.id}]
        /\ RouteDirect(p, c, {Previous(c)}, net \ {c})
    BY <1>5 DEF HandleDirect
  <2>2. Progressing(c) /\ Len(c.path) >= 1
    BY <1>1 DEF StrictProgress, Progressing
  <2>3. /\ \A d \in net \ {c} : /\ d.id # c.id
                                /\ Len(d.path) >= 2 /\ received[d.id] = 0
        /\ \A d, e \in net \ {c} : d.id = e.id => d = e
        /\ \A m \in Msg : received[m] <= 1
        /\ received[c.id] = 0
    BY <1>1 DEF Provenance, SingleInstance
  <2> HIDE DEF p
  <2>4. /\ net' \subseteq Copy
        /\ \A d \in net' : Len(d.path) >= 2 /\ (d \in net \ {c} \/ d.id = c.id)
        /\ StrictProgress' /\ SingleInstance'
        /\ received' \in [Msg -> Nat]
        /\ \A m \in Msg : received'[m] > 0 => received[m] > 0 \/ m = c.id
        /\ failures' \in Nat
    <3>1. Holder(c) = p
      BY DEF p
    <3> QED
      BY <1>1, <1>2, <2>1, <2>2, <2>3, <3>1, RouteDirectStep
  <2>5. RoutingTypeOK'
    BY <1>1, <1>2, <1>3, <2>1, <2>4 DEF RoutingTypeOK
  <2>6. Provenance'
    BY <1>1, <1>3, <2>4 DEF Provenance
  <2> QED
    BY <2>4, <2>5, <2>6 DEF RoutingIInv
<1> QED
  BY <1>4, <1>5

LEMMA RoutingNextIInv == RoutingIInv /\ [RoutingNext]_routingVars => RoutingIInv'
<1> SUFFICES ASSUME RoutingIInv, [RoutingNext]_routingVars
             PROVE  RoutingIInv'
  OBVIOUS
<1> USE DEF RoutingIInv
<1>1. ASSUME NEW p \in Peer, NEW target \in Peer, NEW m \in Msg,
             SendDirect(p, m, target)
      PROVE  RoutingIInv'
  BY <1>1, SendDirectStep
<1>2. ASSUME NEW c \in net, HandleDirect(c)
      PROVE  RoutingIInv'
  BY <1>2, HandleDirectStep
<1>3. ASSUME NEW c \in net, Lose(c)
      PROVE  RoutingIInv'
  BY <1>3 DEF Lose, RoutingTypeOK, Provenance, StrictProgress, SingleInstance
<1>4. ASSUME NEW p \in Peer, NEW m \in Msg, ForgetDirect(p, m)
      PROVE  RoutingIInv'
  BY <1>4 DEF ForgetDirect, RoutingTypeOK, Provenance, StrictProgress, SingleInstance
<1>5. ASSUME NEW p \in Peer, NEW q \in Peer, ConnectionChange(p, q)
      PROVE  RoutingIInv'
  BY <1>5 DEF ConnectionChange, RoutingTypeOK, Provenance, StrictProgress, SingleInstance
<1>6. ASSUME NEW p \in Peer, NEW q \in Peer, ViewChange(p, q)
      PROVE  RoutingIInv'
  BY <1>6 DEF ViewChange, RoutingTypeOK, Provenance, StrictProgress, SingleInstance
<1>7. CASE UNCHANGED routingVars
  BY <1>7 DEF routingVars, RoutingTypeOK, Provenance, StrictProgress, SingleInstance
<1> QED
  BY <1>1, <1>2, <1>3, <1>4, <1>5, <1>6, <1>7 DEF RoutingNext

LEMMA RoutingInvariance == RoutingSpec => []RoutingIInv
  BY RoutingInitIInv, RoutingNextIInv, PTL DEF RoutingSpec

-----------------------------------------------------------------------------
\* Type correctness, of every run of the specification.
THEOREM RoutesTypeCorrect == RoutingSpec => []RoutingTypeOK
  BY RoutingInvariance, PTL DEF RoutingIInv

\* Every hop of every route is strictly closer to the target, under any
\* interleaving of routing with connection and membership changes.
THEOREM RoutesProgress == RoutingSpec => []StrictProgress
  BY RoutingInvariance, PTL DEF RoutingIInv

\* No route visits a peer twice, with no help from the de-duplication of ids.
THEOREM RoutesAreLoopFree == RoutingSpec => []NoRouteLoop
<1>1. RoutingIInv => NoRouteLoop
  <2> SUFFICES ASSUME RoutingIInv, NEW c \in net, NEW i \in 1..Len(c.path),
                      NEW j \in 1..Len(c.path), i < j
               PROVE  c.path[i] # c.path[j]
    BY DEF NoRouteLoop, RoutingIInv, RoutingTypeOK
  <2>1. c \in Copy /\ c.path \in Seq(Peer)
    BY DEF RoutingIInv, RoutingTypeOK
  <2>2. c.path[j] \in Peer /\ c.to \in Peer
    BY <2>1
  <2>3. Distance[c.path[j]][c.to] < Distance[c.path[i]][c.to]
    BY DEF RoutingIInv, StrictProgress
  <2>4. Distance[c.path[j]][c.to] \in Nat
    BY <2>2, DistanceFacts
  <2> QED
    BY <2>3, <2>4
<1> QED
  BY <1>1, RoutingInvariance, PTL

\* A direct message is raised at most once and never again once raised.
THEOREM MessagesAreSingle == RoutingSpec => []SingleInstance
  BY RoutingInvariance, PTL DEF RoutingIInv
=============================================================================
