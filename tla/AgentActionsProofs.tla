------------------------ MODULE AgentActionsProofs --------------------------
(***************************************************************************)
(* Theorems about the agent actions file and its live configuration, for   *)
(* every set of projects, patterns, contents and changes.                  *)
(*                                                                         *)
(* The pattern operators of AgentActions are recursive functions: that a   *)
(* function satisfies such a definition is proved here (RecursionExists),  *)
(* not assumed.  From it follows that the greedy scan matches what a       *)
(* pattern means, although it goes back to its last star only, and that    *)
(* the overlap test is exact; from these, that no conversation is lost.    *)
(***************************************************************************)
EXTENDS AgentActionsManager, NaturalsInduction, WellFoundedInduction, TLAPS

-----------------------------------------------------------------------------
(* Recursive functions *)

\* A set of natural numbers has a least element.
LEMMA LeastNat ==
    ASSUME NEW S \in SUBSET Nat, S # {}
    PROVE  \E n \in S : \A m \in S : n <= m
<1>1. PICK n \in S : \A m \in S : <<m, n>> \notin OpToRel(<, Nat)
  BY Zenon, NatLessThanWellFounded, WFMin
<1>2. ASSUME NEW m \in S PROVE n <= m
  <2>1. ~(m < n)
    BY Zenon, <1>1, <1>2 DEF OpToRel
  <2> QED BY <2>1
<1> QED BY <1>2

\* H gives the right-hand side of a recursive definition over D, whose value at a point
\* depends on the values at the points of lower rank only.
Recursive(H, D, V, rank, N) ==
    /\ V # {} /\ N \in Nat /\ rank \in [D -> 0 .. N]
    /\ H \in [[D -> V] -> [D -> V]]
    /\ \A f, g \in [D -> V] : \A s \in D :
         (\A t \in D : rank[t] < rank[s] => f[t] = g[t]) => H[f][s] = H[g][s]

\* Such a definition has a function that satisfies it.
LEMMA RecursionExists ==
    ASSUME NEW H, NEW D, NEW V, NEW rank, NEW N, Recursive(H, D, V, rank, N)
    PROVE  \E f \in [D -> V] : f = H[f]
<1> USE DEF Recursive
<1> PICK d \in V : TRUE
  OBVIOUS
<1> DEFINE Upto(f, n) == \A s \in D : rank[s] < n => f[s] = H[f][s]
           Bad == {n \in Nat : ~ \E f \in [D -> V] : Upto(f, n)}
<1>1. Bad = {}
  <2> SUFFICES ASSUME Bad # {} PROVE FALSE
    OBVIOUS
  <2>1. PICK n \in Bad : \A m \in Bad : n <= m
    <3> HIDE DEF Bad
    <3>1. Bad \in SUBSET Nat
      BY DEF Bad
    <3> QED BY <3>1, LeastNat
  <2>2. n # 0
    <3> SUFFICES ASSUME n = 0 PROVE FALSE
      OBVIOUS
    <3> DEFINE f == [s \in D |-> d]
    <3>1. f \in [D -> V] /\ Upto(f, n)
      OBVIOUS
    <3> HIDE DEF f, Upto
    <3> QED BY <2>1, <3>1
  <2>3. n - 1 \in Nat /\ n - 1 \notin Bad
    <3> HIDE DEF Bad
    <3>1. n \in Nat
      BY <2>1 DEF Bad
    <3>2. n - 1 \in Nat
      BY <2>2, <3>1
    <3>3. ~(n <= n - 1)
      BY <3>1
    <3> QED BY <2>1, <3>2, <3>3
  <2>4. PICK f \in [D -> V] : Upto(f, n - 1)
    <3> HIDE DEF Upto
    <3> QED BY <2>3
  <2>5. H[f] \in [D -> V]
    OBVIOUS
  <2>6. ASSUME NEW s \in D, rank[s] < n PROVE H[f][s] = H[H[f]][s]
    <3>1. ASSUME NEW t \in D, rank[t] < rank[s] PROVE f[t] = H[f][t]
      <4>1. n \in Nat
        BY <2>1
      <4>2. rank[t] < n - 1
        BY <2>6, <3>1, <4>1
      <4> QED BY <2>4, <4>2
    <3> QED BY <2>5, <3>1
  <2>7. Upto(H[f], n)
    BY <2>6
  <2> HIDE DEF Upto
  <2> QED BY <2>1, <2>5, <2>7
<1>2. N + 1 \in Nat /\ N + 1 \notin Bad
  <2> HIDE DEF Bad
  <2> QED BY <1>1
<1>3. PICK f \in [D -> V] : Upto(f, N + 1)
  <2> HIDE DEF Upto
  <2> QED BY <1>2
<1>4. \A s \in D : f[s] = H[f][s]
  BY <1>3
<1>5. f = H[f]
  <2>1. H[f] \in [D -> V]
    OBVIOUS
  <2> QED BY <1>4, <2>1
<1> QED BY <1>5

-----------------------------------------------------------------------------
(* What a pattern means *)

\* The meaning of a pattern, from each of its positions and of the name.
Places(p, name) == (1 .. Len(p) + 1) \X (1 .. Len(name) + 1)
IsGlob(G, p, name) ==
    /\ G \in [Places(p, name) -> BOOLEAN]
    /\ \A i \in 1 .. Len(p) + 1 : \A j \in 1 .. Len(name) + 1 :
         G[<<i, j>>] <=> IF i > Len(p) THEN j > Len(name)
                         ELSE IF p[i] = Star THEN \E k \in j .. Len(name) + 1 : G[<<i + 1, k>>]
                         ELSE j <= Len(name) /\ p[i] = name[j] /\ G[<<i + 1, j + 1>>]

\* A function satisfies the definition of Glob, which is its value at the start.
LEMMA GlobExists ==
    ASSUME NEW p \in Names, NEW name \in Names
    PROVE  \E G : IsGlob(G, p, name) /\ (Glob(p, name) <=> p = <<>> \/ G[<<1, 1>>])
<1> DEFINE D == (1 .. Len(p) + 1) \X (1 .. Len(name) + 1)
           B(f, s) == IF s[1] > Len(p) THEN s[2] > Len(name)
                      ELSE IF p[s[1]] = Star
                      THEN \E k \in s[2] .. Len(name) + 1 : f[<<s[1] + 1, k>>]
                      ELSE /\ s[2] <= Len(name) /\ p[s[1]] = name[s[2]]
                           /\ f[<<s[1] + 1, s[2] + 1>>]
           H == [f \in [D -> BOOLEAN] |-> [s \in D |-> B(f, s)]]
           rank == [s \in D |-> Len(p) + 1 - s[1]]
<1>0. Len(p) \in Nat /\ Len(name) \in Nat
  BY DEF Names
<1>b. ASSUME NEW f, NEW s \in D PROVE B(f, s) \in BOOLEAN
  <2>1. CASE s[1] > Len(p)
    BY <1>0, <2>1
  <2>2. CASE ~(s[1] > Len(p)) /\ p[s[1]] = Star
    BY <2>2
  <2>3. CASE ~(s[1] > Len(p)) /\ p[s[1]] # Star
    BY <2>3
  <2> QED BY <2>1, <2>2, <2>3
<1>1. \E G \in [D -> BOOLEAN] : G = H[G]
  <2>1. rank \in [D -> 0 .. Len(p)]
    BY <1>0
  <2>2. H \in [[D -> BOOLEAN] -> [D -> BOOLEAN]]
    <3> HIDE DEF B, D
    <3> QED BY <1>b
  <2>3. ASSUME NEW f \in [D -> BOOLEAN], NEW g \in [D -> BOOLEAN], NEW s \in D,
               \A t \in D : rank[t] < rank[s] => f[t] = g[t]
        PROVE  H[f][s] = H[g][s]
    <3>1. s[1] \in 1 .. Len(p) + 1 /\ s[2] \in 1 .. Len(name) + 1
      OBVIOUS
    <3>2. ASSUME s[1] <= Len(p), NEW k \in 1 .. Len(name) + 1
          PROVE  f[<<s[1] + 1, k>>] = g[<<s[1] + 1, k>>]
      <4>1. <<s[1] + 1, k>> \in D
        BY <1>0, <3>1, <3>2
      <4>2. rank[<<s[1] + 1, k>>] < rank[s]
        BY <1>0, <3>1, <3>2, <4>1
      <4> QED BY <2>3, <4>1, <4>2
    <3>3. B(f, s) = B(g, s)
      <4>1. CASE s[1] > Len(p)
        BY <4>1
      <4>2. CASE ~(s[1] > Len(p)) /\ p[s[1]] = Star
        <5>1. s[1] <= Len(p) /\ \A k \in s[2] .. Len(name) + 1 : k \in 1 .. Len(name) + 1
          BY <1>0, <3>1, <4>2
        <5> QED BY <3>2, <4>2, <5>1
      <4>3. CASE ~(s[1] > Len(p)) /\ p[s[1]] # Star
        <5>1. s[1] <= Len(p) /\ (s[2] <= Len(name) => s[2] + 1 \in 1 .. Len(name) + 1)
          BY <1>0, <3>1, <4>3
        <5> QED BY <3>2, <4>3, <5>1
      <4> QED BY <4>1, <4>2, <4>3
    <3> HIDE DEF B
    <3> QED BY <3>3
  <2>4. \A f, g \in [D -> BOOLEAN] : \A s \in D :
            (\A t \in D : rank[t] < rank[s] => f[t] = g[t]) => H[f][s] = H[g][s]
    <3> HIDE DEF D, H, rank
    <3> QED BY <2>3
  <2>5. Recursive(H, D, BOOLEAN, rank, Len(p))
    <3> HIDE DEF D, H, rank
    <3> QED BY <1>0, <2>1, <2>2, <2>4 DEF Recursive
  <2> HIDE DEF D, H, rank
  <2> QED BY <2>5, RecursionExists
<1> DEFINE Gl == CHOOSE G : G = [s \in D |-> B(G, s)]
<1>2. Gl = [s \in D |-> B(Gl, s)]
  <2>1. \E G : G = [s \in D |-> B(G, s)]
    <3> HIDE DEF B
    <3> QED BY <1>1
  <2> HIDE DEF B, D
  <2> QED BY <2>1
<1>3. Glob(p, name) <=> p = <<>> \/ Gl[<<1, 1>>]
  <2> HIDE DEF Gl
  <2> QED BY DEF Glob, Gl
<1> HIDE DEF Gl
<1>4. IsGlob(Gl, p, name)
  <2>1. Gl \in [D -> BOOLEAN]
    <3> HIDE DEF B, D
    <3> QED BY <1>2, <1>b
  <2>2. ASSUME NEW i \in 1 .. Len(p) + 1, NEW j \in 1 .. Len(name) + 1
        PROVE  Gl[<<i, j>>] = B(Gl, <<i, j>>)
    <3> HIDE DEF B
    <3> QED BY <1>2
  <2> QED BY <2>1, <2>2 DEF IsGlob, Places
<1> QED BY <1>3, <1>4

-----------------------------------------------------------------------------
(* The scan of matchProjectPattern *)

\* The right-hand side of the scan: as the function of MatchProjectPattern has it, and
\* with the parts of the point apart.
Step(p, name, f, s) ==
    IF s.v = Len(name) THEN \A k \in s.g + 1 .. Len(p) : p[k] = Star
    ELSE IF s.g < Len(p) /\ p[s.g + 1] = Star THEN f[At(s.g + 1, s.v, s.g, s.v)]
    ELSE IF s.g < Len(p) /\ p[s.g + 1] = name[s.v + 1]
    THEN f[At(s.g + 1, s.v + 1, s.starG, s.starV)]
    ELSE s.starG # -1 /\ f[At(s.starG + 1, s.starV + 1, s.starG, s.starV + 1)]
StepAt(p, name, f, g, v, a, b) ==
    IF v = Len(name) THEN \A k \in g + 1 .. Len(p) : p[k] = Star
    ELSE IF g < Len(p) /\ p[g + 1] = Star THEN f[At(g + 1, v, g, v)]
    ELSE IF g < Len(p) /\ p[g + 1] = name[v + 1] THEN f[At(g + 1, v + 1, a, b)]
    ELSE a # -1 /\ f[At(a + 1, b + 1, a, b + 1)]

\* The scan from each point.
IsScan(S, p, name) ==
    \A g \in 0 .. Len(p) : \A v \in 0 .. Len(name) :
    \A a \in -1 .. Len(p) - 1 : \A b \in 0 .. Len(name) :
        b <= v => S[At(g, v, a, b)] = StepAt(p, name, S, g, v, a, b)

\* The scan never goes back without its star swallowing more of the name.
LEMMA ScanRank ==
    ASSUME NEW P \in Nat, NEW V \in Nat, NEW g \in 0 .. P, NEW b \in 0 .. V
    PROVE  /\ (V - b) * (P + 1) + (P - g) \in 0 .. V * (P + 1) + P
           /\ \A h \in 0 .. P : \A c \in b .. V : c > b \/ h > g =>
                (V - c) * (P + 1) + (P - h) < (V - b) * (P + 1) + (P - g)
<1>1. (V - b) * (P + 1) + b * (P + 1) = V * (P + 1)
  OBVIOUS
<1>2. b * (P + 1) >= 0 /\ (V - b) * (P + 1) >= 0
  OBVIOUS
<1>3. ASSUME NEW h \in 0 .. P, NEW c \in b .. V, c > b \/ h > g
      PROVE  (V - c) * (P + 1) + (P - h) < (V - b) * (P + 1) + (P - g)
  <2>1. CASE c = b
    BY <1>3, <2>1
  <2>2. CASE c > b
    <3> DEFINE d == c - b - 1
    <3>1. d \in Nat
      BY <2>2
    <3>2. (V - b) * (P + 1) = (V - c) * (P + 1) + d * (P + 1) + (P + 1)
      OBVIOUS
    <3>3. d * (P + 1) >= 0
      BY <3>1
    <3> HIDE DEF d
    <3>4. (V - c) * (P + 1) \in Int /\ (V - b) * (P + 1) \in Int /\ d * (P + 1) \in Int
      BY <3>1
    <3> QED BY <3>2, <3>3, <3>4
  <2> QED BY <2>1, <2>2
<1> QED BY <1>1, <1>2, <1>3

\* Each point of the scan is given by its parts, and the other way round.
LEMMA AtPoint ==
    ASSUME NEW p \in Names, NEW name \in Names
    PROVE  /\ \A s \in Points(p, name) :
                \E g \in 0 .. Len(p) : \E v \in 0 .. Len(name) :
                \E a \in -1 .. Len(p) - 1 : \E b \in 0 .. Len(name) :
                    b <= v /\ s = At(g, v, a, b)
           /\ \A g \in 0 .. Len(p) : \A v \in 0 .. Len(name) :
              \A a \in -1 .. Len(p) - 1 : \A b \in 0 .. Len(name) :
                b <= v => At(g, v, a, b) \in Points(p, name)
           /\ Len(p) \in Nat /\ Len(name) \in Nat
<1>1. Len(p) \in Nat /\ Len(name) \in Nat
  BY DEF Names
<1>2. ASSUME NEW s \in Points(p, name)
      PROVE  \E g \in 0 .. Len(p) : \E v \in 0 .. Len(name) :
             \E a \in -1 .. Len(p) - 1 : \E b \in 0 .. Len(name) :
                    b <= v /\ s = At(g, v, a, b)
  <2>1. /\ s.g \in 0 .. Len(p) /\ s.v \in 0 .. Len(name)
        /\ s.starG \in -1 .. Len(p) - 1 /\ s.starV \in 0 .. Len(name)
        /\ s.starV <= s.v
    BY DEF Points
  <2>2. s = At(s.g, s.v, s.starG, s.starV)
    BY DEF Points, At
  <2> QED BY <2>1, <2>2
<1>3. ASSUME NEW g \in 0 .. Len(p), NEW v \in 0 .. Len(name),
             NEW a \in -1 .. Len(p) - 1, NEW b \in 0 .. Len(name), b <= v
      PROVE  At(g, v, a, b) \in Points(p, name)
  BY <1>1, <1>3 DEF Points, At
<1> QED BY <1>1, <1>2, <1>3

\* The two forms of the right-hand side agree.
LEMMA StepForms ==
    ASSUME NEW p, NEW name, NEW f, NEW g, NEW v, NEW a, NEW b
    PROVE  Step(p, name, f, At(g, v, a, b)) = StepAt(p, name, f, g, v, a, b)
<1>1. \A t : t = At(g, v, a, b) => t.g = g /\ t.v = v /\ t.starG = a /\ t.starV = b
  BY DEF At
<1>2. \A t : t = At(g, v, a, b) => Step(p, name, f, t) = StepAt(p, name, f, g, v, a, b)
  BY <1>1 DEF Step, StepAt
<1> QED BY <1>2

\* Two functions agree on the points of lower rank than one with g and starV = b.
AgreeBelow(f, h, p, name, g, b) ==
    \A g2 \in 0 .. Len(p) : \A v2 \in 0 .. Len(name) :
    \A a2 \in -1 .. Len(p) - 1 : \A b2 \in 0 .. Len(name) :
        b2 <= v2 /\ (b2 > b \/ (b2 = b /\ g2 > g))
            => f[At(g2, v2, a2, b2)] = h[At(g2, v2, a2, b2)]

\* Where the scan goes on from a point: to points of lower rank.
LEMMA StepDepends ==
    ASSUME NEW p \in Names, NEW name \in Names, NEW f, NEW h,
           NEW g \in 0 .. Len(p), NEW v \in 0 .. Len(name),
           NEW a \in -1 .. Len(p) - 1, NEW b \in 0 .. Len(name), b <= v,
           AgreeBelow(f, h, p, name, g, b)
    PROVE  StepAt(p, name, f, g, v, a, b) = StepAt(p, name, h, g, v, a, b)
<1>0. Len(p) \in Nat /\ Len(name) \in Nat
  BY DEF Names
<1>1. CASE v = Len(name)
  BY <1>1 DEF StepAt
<1>2. CASE v # Len(name) /\ g < Len(p) /\ p[g + 1] = Star
  <2>1. /\ g + 1 \in 0 .. Len(p) /\ g \in -1 .. Len(p) - 1 /\ v <= v
        /\ v > b \/ (v = b /\ g + 1 > g)
    BY <1>0, <1>2
  <2>2. f[At(g + 1, v, g, v)] = h[At(g + 1, v, g, v)]
    BY <2>1 DEF AgreeBelow
  <2> QED BY <1>2, <2>2 DEF StepAt
<1>3. CASE v # Len(name) /\ g < Len(p) /\ p[g + 1] # Star /\ p[g + 1] = name[v + 1]
  <2>1. g + 1 \in 0 .. Len(p) /\ v + 1 \in 0 .. Len(name) /\ b <= v + 1 /\ g + 1 > g
    BY <1>0, <1>3
  <2>2. f[At(g + 1, v + 1, a, b)] = h[At(g + 1, v + 1, a, b)]
    BY <2>1 DEF AgreeBelow
  <2> QED BY <1>3, <2>2 DEF StepAt
<1>4. CASE v # Len(name) /\ ~(g < Len(p) /\ (p[g + 1] = Star \/ p[g + 1] = name[v + 1]))
  <2>1. CASE a = -1
    BY <1>4, <2>1 DEF StepAt
  <2>2. CASE a # -1
    <3>1. a + 1 \in 0 .. Len(p) /\ b + 1 \in 0 .. Len(name) /\ b + 1 <= b + 1 /\ b + 1 > b
      BY <1>0, <1>4, <2>2
    <3>2. f[At(a + 1, b + 1, a, b + 1)] = h[At(a + 1, b + 1, a, b + 1)]
      BY <3>1 DEF AgreeBelow
    <3> QED BY <1>4, <2>2, <3>2 DEF StepAt
  <2> QED BY <2>1, <2>2
<1> QED BY <1>1, <1>2, <1>3, <1>4

\* The scan tells whether the rest of the name matches.
LEMMA StepBoolean ==
    ASSUME NEW p \in Names, NEW name \in Names,
           NEW f \in [Points(p, name) -> BOOLEAN],
           NEW g \in 0 .. Len(p), NEW v \in 0 .. Len(name),
           NEW a \in -1 .. Len(p) - 1, NEW b \in 0 .. Len(name), b <= v
    PROVE  StepAt(p, name, f, g, v, a, b) \in BOOLEAN
<1>0. Len(p) \in Nat /\ Len(name) \in Nat
  BY DEF Names
<1>b. \A t \in Points(p, name) : f[t] \in BOOLEAN
  OBVIOUS
<1>1. CASE v = Len(name)
  BY <1>1 DEF StepAt
<1>2. CASE v # Len(name) /\ g < Len(p) /\ p[g + 1] = Star
  <2>1. g + 1 \in 0 .. Len(p) /\ g \in -1 .. Len(p) - 1 /\ v <= v
    BY <1>0, <1>2
  <2>2. f[At(g + 1, v, g, v)] \in BOOLEAN
    BY <1>b, <2>1, AtPoint
  <2> QED BY <1>2, <2>2 DEF StepAt
<1>3. CASE v # Len(name) /\ g < Len(p) /\ p[g + 1] # Star /\ p[g + 1] = name[v + 1]
  <2>1. g + 1 \in 0 .. Len(p) /\ v + 1 \in 0 .. Len(name) /\ b <= v + 1
    BY <1>0, <1>3
  <2>2. f[At(g + 1, v + 1, a, b)] \in BOOLEAN
    BY <1>b, <2>1, AtPoint
  <2> QED BY <1>3, <2>2 DEF StepAt
<1>4. CASE v # Len(name) /\ ~(g < Len(p) /\ (p[g + 1] = Star \/ p[g + 1] = name[v + 1]))
  BY <1>4 DEF StepAt
<1> QED BY <1>1, <1>2, <1>3, <1>4

\* matchProjectPattern is the scan from the start of the pattern and of the name.
LEMMA ScanExists ==
    ASSUME NEW p \in Names, NEW name \in Names
    PROVE  \E S :
                /\ IsScan(S, p, name)
                /\ MatchProjectPattern(p, name) <=> p = <<>> \/ S[At(0, 0, -1, 0)]
<1> DEFINE P == Len(p)
           V == Len(name)
           D == Points(p, name)
           H == [f \in [D -> BOOLEAN] |-> [s \in D |-> Step(p, name, f, s)]]
           rank == [s \in D |-> (V - s.starV) * (P + 1) + (P - s.g)]
           N == V * (P + 1) + P
<1>0. P \in Nat /\ V \in Nat /\ N \in Nat
  BY DEF Names
<1>1. H \in [[D -> BOOLEAN] -> [D -> BOOLEAN]]
  <2>1. ASSUME NEW f \in [D -> BOOLEAN], NEW s \in D PROVE Step(p, name, f, s) \in BOOLEAN
    <3>1. PICK g \in 0 .. P, v \in 0 .. V, a \in -1 .. P - 1, b \in 0 .. V :
              b <= v /\ s = At(g, v, a, b)
      BY AtPoint
    <3>2. StepAt(p, name, f, g, v, a, b) \in BOOLEAN
      <4> HIDE DEF H, rank
      <4> QED BY <3>1, StepBoolean
    <3> QED BY <3>1, <3>2, StepForms
  <2> QED BY <2>1
<1>2. rank \in [D -> 0 .. N]
  <2>1. ASSUME NEW s \in D
        PROVE  (V - s.starV) * (P + 1) + (P - s.g) \in 0 .. N
    <3>1. s.g \in 0 .. P /\ s.starV \in 0 .. V
      BY DEF Points
    <3> QED BY <1>0, <3>1, ScanRank
  <2> HIDE DEF D, N
  <2> QED BY <2>1
<1>3. ASSUME NEW f \in [D -> BOOLEAN], NEW h \in [D -> BOOLEAN], NEW s \in D,
             \A t \in D : rank[t] < rank[s] => f[t] = h[t]
      PROVE  Step(p, name, f, s) = Step(p, name, h, s)
  <2>1. PICK g \in 0 .. P, v \in 0 .. V, a \in -1 .. P - 1, b \in 0 .. V :
              b <= v /\ s = At(g, v, a, b)
    BY AtPoint
  <2>2. ASSUME NEW g2 \in 0 .. P, NEW v2 \in 0 .. V, NEW a2 \in -1 .. P - 1,
               NEW b2 \in 0 .. V, b2 <= v2, b2 > b \/ (b2 = b /\ g2 > g)
        PROVE  f[At(g2, v2, a2, b2)] = h[At(g2, v2, a2, b2)]
    <3> DEFINE t == At(g2, v2, a2, b2)
    <3>1. t \in D /\ t.g = g2 /\ t.starV = b2 /\ s.g = g /\ s.starV = b
      BY <2>1, <2>2, AtPoint DEF At
    <3>2. b2 \in b .. V /\ b \in 0 .. V /\ (b2 > b \/ g2 > g)
      BY <1>0, <2>1, <2>2
    <3>3. (V - b2) * (P + 1) + (P - g2) < (V - b) * (P + 1) + (P - g)
      BY <1>0, <2>1, <3>2, ScanRank
    <3> HIDE DEF t
    <3>4. /\ rank[t] = (V - b2) * (P + 1) + (P - g2)
          /\ rank[s] = (V - b) * (P + 1) + (P - g)
      <4> HIDE DEF D, P, V
      <4> QED BY <3>1
    <3>5. rank[t] < rank[s]
      <4> HIDE DEF rank
      <4> QED BY <3>3, <3>4
    <3>6. f[t] = h[t]
      <4> HIDE DEF D, rank
      <4> QED BY <1>3, <3>1, <3>5
    <3> QED BY <3>6 DEF t
  <2>3. StepAt(p, name, f, g, v, a, b) = StepAt(p, name, h, g, v, a, b)
    <3>1. AgreeBelow(f, h, p, name, g, b)
      <4> HIDE DEF rank, H, D
      <4> QED BY <2>2 DEF AgreeBelow
    <3> QED BY <2>1, <3>1, StepDepends
  <2> QED BY <2>1, <2>3, StepForms
<1>4. Recursive(H, D, BOOLEAN, rank, N)
  <2>1. \A f, h \in [D -> BOOLEAN] : \A s \in D :
            (\A t \in D : rank[t] < rank[s] => f[t] = h[t]) => H[f][s] = H[h][s]
    <3>1. \A f, h \in [D -> BOOLEAN] : \A s \in D :
            (\A t \in D : rank[t] < rank[s] => f[t] = h[t])
                => Step(p, name, f, s) = Step(p, name, h, s)
      <4> HIDE DEF D, H, rank
      <4> QED BY <1>3
    <3>2. \A f \in [D -> BOOLEAN] : \A s \in D : H[f][s] = Step(p, name, f, s)
      <4> HIDE DEF D
      <4> QED OBVIOUS
    <3> HIDE DEF D, H, rank
    <3> QED BY <3>1, <3>2
  <2> HIDE DEF D, H, rank, N
  <2> QED BY <1>0, <1>1, <1>2, <2>1 DEF Recursive
<1>5. \E S \in [D -> BOOLEAN] : S = H[S]
  <2> HIDE DEF D, H, rank, N
  <2> QED BY <1>4, RecursionExists
<1> DEFINE Scan == CHOOSE S : S = [s \in D |-> Step(p, name, S, s)]
<1>6. Scan = [s \in D |-> Step(p, name, Scan, s)] 
  <2>1. PICK S \in [D -> BOOLEAN] : S = [s \in D |-> Step(p, name, S, s)]
    <3> HIDE DEF D
    <3> QED BY <1>5
  <2> HIDE DEF D
  <2> QED BY <2>1
<1>7. MatchProjectPattern(p, name) <=> p = <<>> \/ Scan[At(0, 0, -1, 0)]
  <2> HIDE DEF Scan
  <2> QED BY DEF MatchProjectPattern, Scan, At, Points, Step
<1> HIDE DEF Scan
<1>8. IsScan(Scan, p, name)
  <2>1. ASSUME NEW g \in 0 .. P, NEW v \in 0 .. V, NEW a \in -1 .. P - 1,
               NEW b \in 0 .. V, b <= v
        PROVE  Scan[At(g, v, a, b)] = StepAt(p, name, Scan, g, v, a, b)
    <3>1. At(g, v, a, b) \in D
      BY <2>1, AtPoint
    <3>2. Scan[At(g, v, a, b)] = Step(p, name, Scan, At(g, v, a, b))
      <4> HIDE DEF D
      <4> QED BY <1>6, <3>1
    <3> QED BY <3>2, StepForms
  <2> QED BY <2>1 DEF IsScan
<1> QED BY <1>6, <1>7, <1>8

-----------------------------------------------------------------------------
(* The scan decides what the pattern means *)

\* The rest of the pattern from g on matches the rest of the name from v on.
Matches(G, g, v) == G[<<g + 1, v + 1>>]
GlobRule(G, p, name) ==
    \A g \in 0 .. Len(p) : \A v \in 0 .. Len(name) :
        Matches(G, g, v) <=>
            IF g = Len(p) THEN v = Len(name)
            ELSE IF p[g + 1] = Star THEN \E k \in v .. Len(name) : Matches(G, g + 1, k)
            ELSE v < Len(name) /\ p[g + 1] = name[v + 1] /\ Matches(G, g + 1, v + 1)

\* The definition of Glob, with positions counted from 0 as in the code.
LEMMA GlobRules ==
    ASSUME NEW p \in Names, NEW name \in Names, NEW G, IsGlob(G, p, name)
    PROVE  GlobRule(G, p, name)
<1>0. Len(p) \in Nat /\ Len(name) \in Nat
  BY DEF Names
<1> SUFFICES ASSUME NEW g \in 0 .. Len(p), NEW v \in 0 .. Len(name)
             PROVE  Matches(G, g, v) <=>
                        IF g = Len(p) THEN v = Len(name)
                        ELSE IF p[g + 1] = Star
                        THEN \E k \in v .. Len(name) : Matches(G, g + 1, k)
                        ELSE v < Len(name) /\ p[g + 1] = name[v + 1] /\ Matches(G, g + 1, v + 1)
  BY DEF GlobRule
<1>1. g + 1 \in 1 .. Len(p) + 1 /\ v + 1 \in 1 .. Len(name) + 1
  BY <1>0
<1>2. G[<<g + 1, v + 1>>] <=>
        IF g + 1 > Len(p) THEN v + 1 > Len(name)
        ELSE IF p[g + 1] = Star
        THEN \E k \in v + 1 .. Len(name) + 1 : G[<<g + 1 + 1, k>>]
        ELSE v + 1 <= Len(name) /\ p[g + 1] = name[v + 1] /\ G[<<g + 1 + 1, v + 1 + 1>>]
  BY <1>1 DEF IsGlob
<1>3. CASE g = Len(p)
  BY <1>0, <1>2, <1>3 DEF Matches
<1>4. CASE g # Len(p) /\ p[g + 1] = Star
  <2>1. ~(g + 1 > Len(p))
    BY <1>0, <1>4
  <2>2. ASSUME NEW k \in v + 1 .. Len(name) + 1, G[<<g + 1 + 1, k>>]
        PROVE  k - 1 \in v .. Len(name) /\ Matches(G, g + 1, k - 1)
    <3>1. k - 1 \in v .. Len(name) /\ k - 1 + 1 = k
      BY <1>0
    <3> QED BY <2>2, <3>1 DEF Matches
  <2>3. ASSUME NEW k \in v .. Len(name), Matches(G, g + 1, k)
        PROVE  k + 1 \in v + 1 .. Len(name) + 1 /\ G[<<g + 1 + 1, k + 1>>]
    BY <1>0, <2>3 DEF Matches
  <2>4. (\E k \in v + 1 .. Len(name) + 1 : G[<<g + 1 + 1, k>>])
            <=> \E k \in v .. Len(name) : Matches(G, g + 1, k)
    BY <2>2, <2>3
  <2> QED BY <1>2, <1>4, <2>1, <2>4 DEF Matches
<1>5. CASE g # Len(p) /\ p[g + 1] # Star
  <2>1. ~(g + 1 > Len(p)) /\ (v + 1 <= Len(name) <=> v < Len(name))
    BY <1>0, <1>5
  <2> QED BY <1>2, <1>5, <2>1 DEF Matches
<1> QED BY <1>3, <1>4, <1>5

\* At the end of the name only stars are left to match.
LEMMA OnlyStarsMatchNothing ==
    ASSUME NEW p \in Names, NEW name \in Names, NEW G, GlobRule(G, p, name)
    PROVE  \A g \in 0 .. Len(p) :
               Matches(G, g, Len(name)) <=> \A k \in g + 1 .. Len(p) : p[k] = Star
<1> DEFINE P == Len(p)
           V == Len(name)
           Ok(g) == Matches(G, g, V) <=> \A k \in g + 1 .. P : p[k] = Star
           Bad == {n \in 0 .. P : ~Ok(P - n)}
<1>0. P \in Nat /\ V \in Nat
  BY DEF Names
<1>1. ASSUME NEW g \in 0 .. P, g # P => Ok(g + 1) PROVE Ok(g)
  <2>1. CASE g = P
    BY <1>0, <2>1 DEF GlobRule
  <2>2. CASE g # P /\ p[g + 1] = Star
    <3>1. Matches(G, g, V) <=> Matches(G, g + 1, V)
      <4>1. \A k \in V .. V : k = V
        BY <1>0
      <4>2. V \in V .. V /\ V \in 0 .. V
        BY <1>0
      <4> QED BY <2>2, <4>1, <4>2 DEF GlobRule
    <3>2. g + 1 \in g + 1 .. P /\ \A k \in g + 1 .. P : k = g + 1 \/ k \in g + 1 + 1 .. P
      BY <1>0, <2>2
    <3>3. \A k \in g + 1 + 1 .. P : k \in g + 1 .. P
      BY <1>0
    <3> QED BY <1>1, <2>2, <3>1, <3>2, <3>3
  <2>3. CASE g # P /\ p[g + 1] # Star
    <3>1. g + 1 \in g + 1 .. P /\ V \in 0 .. V /\ ~(V < V)
      BY <1>0, <2>3
    <3>2. ~Matches(G, g, V)
      BY <2>3, <3>1 DEF GlobRule
    <3> QED BY <2>3, <3>1, <3>2
  <2> QED BY <2>1, <2>2, <2>3
<1>2. Bad = {}
  <2> SUFFICES ASSUME Bad # {} PROVE FALSE
    OBVIOUS
  <2>1. PICK n \in Bad : \A m \in Bad : n <= m
    <3>1. Bad \in SUBSET Nat
      BY <1>0
    <3> HIDE DEF Bad
    <3> QED BY <3>1, LeastNat
  <2>2. n \in 0 .. P /\ ~Ok(P - n)
    <3> HIDE DEF Ok
    <3> QED BY <2>1
  <2>3. P - n \in 0 .. P /\ (P - n # P => n - 1 \in 0 .. P /\ P - (n - 1) = P - n + 1)
    BY <1>0, <2>2
  <2>4. ASSUME P - n # P PROVE Ok(P - n + 1)
    <3>1. n - 1 \notin Bad
      <4>1. ~(n <= n - 1)
        BY <2>2
      <4> HIDE DEF Bad
      <4> QED BY <2>1, <4>1
    <3> HIDE DEF Ok
    <3> QED BY <2>3, <2>4, <3>1
  <2> HIDE DEF Ok
  <2> QED BY <1>1, <2>2, <2>3, <2>4
<1>3. ASSUME NEW g \in 0 .. P PROVE Ok(g)
  <2>1. P - g \in 0 .. P /\ P - (P - g) = g
    BY <1>0
  <2> HIDE DEF Ok
  <2> QED BY <1>2, <2>1
<1> QED BY <1>3

\* What follows a star up to g is literal, and equal to the name from b to v.
Literal(p, name, a, b, L) ==
    \A t \in 1 .. L : p[a + t] # Star /\ p[a + t] = name[b + t]

\* There is no star among L characters of the pattern.
NoStar(p, a, L) == \A t \in 1 .. L : p[a + t] # Star

\* Literal characters take as many characters of the name.
LEMMA LiteralsAdvance ==
    ASSUME NEW p \in Names, NEW name \in Names, NEW G, GlobRule(G, p, name),
           NEW a \in 0 .. Len(p), NEW k \in 0 .. Len(name), Matches(G, a, k),
           NEW L \in Nat, a + L <= Len(p), NoStar(p, a, L)
    PROVE  k + L <= Len(name) /\ Matches(G, a + L, k + L)
<1> DEFINE Ok(n) == k + n <= Len(name) /\ Matches(G, a + n, k + n)
           Bad == {n \in 0 .. L : ~Ok(n)}
<1>0. Len(p) \in Nat /\ Len(name) \in Nat
  BY DEF Names
<1>1. Ok(0)
  BY <1>0
<1>2. ASSUME NEW n \in 0 .. L, n # L, Ok(n) PROVE Ok(n + 1)
  <2>1. /\ a + n \in 0 .. Len(p) /\ a + n # Len(p) /\ k + n \in 0 .. Len(name)
        /\ n + 1 \in 1 .. L /\ a + n + 1 = a + (n + 1) /\ k + n + 1 = k + (n + 1)
    BY <1>0, <1>2
  <2>2. p[a + n + 1] # Star
    BY <2>1 DEF NoStar
  <2>3. k + n < Len(name) /\ Matches(G, a + n + 1, k + n + 1)
    BY <1>2, <2>1, <2>2 DEF GlobRule
  <2>4. k + (n + 1) <= Len(name)
    BY <1>0, <2>3
  <2> QED BY <2>1, <2>3, <2>4
<1>3. Bad = {}
  <2> SUFFICES ASSUME Bad # {} PROVE FALSE
    OBVIOUS
  <2>1. PICK n \in Bad : \A m \in Bad : n <= m
    <3>1. Bad \in SUBSET Nat
      OBVIOUS
    <3> HIDE DEF Bad
    <3> QED BY <3>1, LeastNat
  <2>2. n \in 0 .. L /\ ~Ok(n)
    <3> HIDE DEF Ok
    <3> QED BY <2>1
  <2>3. n # 0
    <3> HIDE DEF Ok
    <3> QED BY <1>1, <2>2
  <2>4. n - 1 \in 0 .. L /\ n - 1 # L /\ n - 1 + 1 = n /\ ~(n <= n - 1)
    BY <2>2, <2>3
  <2>5. n - 1 \notin Bad
    <3> HIDE DEF Bad
    <3> QED BY <2>1, <2>4
  <2> HIDE DEF Ok
  <2> QED BY <1>2, <2>2, <2>4, <2>5
<1>4. L \in 0 .. L
  OBVIOUS
<1>5. Ok(L)
  <2> HIDE DEF Ok
  <2> QED BY <1>3, <1>4
<1> QED BY <1>5

\* A point of the scan is reached with its star behind it, and since then only literal
\* characters, which took as many characters of the name.
Reached(p, name, g, v, a, b) ==
    a # -1 => /\ a < g /\ p[a + 1] = Star
              /\ g - (a + 1) = v - b
              /\ Literal(p, name, a + 1, b, v - b)

\* What the scan decides from there: the rest matches, or it does once the star has
\* swallowed more.
Outcome(G, name, g, v, a, b) ==
    Matches(G, g, v) \/ (a # -1 /\ \E k \in b + 1 .. Len(name) : Matches(G, a + 1, k))

Decides(S, G, p, name, g, v, a, b) ==
    Reached(p, name, g, v, a, b) =>
        (S[At(g, v, a, b)] <=> Outcome(G, name, g, v, a, b))

\* It decides so at the points of lower rank.
DecidesBelow(S, G, p, name, g, b) ==
    \A g2 \in 0 .. Len(p) : \A v2 \in 0 .. Len(name) :
    \A a2 \in -1 .. Len(p) - 1 : \A b2 \in 0 .. Len(name) :
        b2 <= v2 /\ (b2 > b \/ (b2 = b /\ g2 > g))
            => Decides(S, G, p, name, g2, v2, a2, b2)

\* A match that starts after the star has swallowed more goes through v or further on.
LEMMA StarAbsorbs ==
    ASSUME NEW p \in Names, NEW name \in Names, NEW G, GlobRule(G, p, name),
           NEW g \in 0 .. Len(p), NEW v \in 0 .. Len(name),
           NEW a \in -1 .. Len(p) - 1, NEW b \in 0 .. Len(name), b <= v, a # -1,
           Reached(p, name, g, v, a, b),
           NEW k \in b + 1 .. Len(name), Matches(G, a + 1, k)
    PROVE  \E j \in v + 1 .. Len(name) : Matches(G, g, j)
<1>0. Len(p) \in Nat /\ Len(name) \in Nat
  BY DEF Names
<1>1. g - (a + 1) = v - b /\ NoStar(p, a + 1, v - b)
  BY DEF Reached, Literal, NoStar
<1>2. /\ a + 1 \in 0 .. Len(p) /\ k \in 0 .. Len(name) /\ v - b \in Nat
      /\ a + 1 + (v - b) = g
  BY <1>0, <1>1
<1>3. k + (v - b) <= Len(name) /\ Matches(G, a + 1 + (v - b), k + (v - b))
  BY <1>1, <1>2, LiteralsAdvance
<1>4. k + (v - b) \in v + 1 .. Len(name)
  BY <1>0, <1>2, <1>3
<1> QED BY <1>2, <1>3, <1>4

\* One step of the scan decides what its pattern means, if the steps after it do.
LEMMA ScanDecides ==
    ASSUME NEW p \in Names, NEW name \in Names, NEW G, GlobRule(G, p, name),
           NEW S, IsScan(S, p, name),
           NEW g \in 0 .. Len(p), NEW v \in 0 .. Len(name),
           NEW a \in -1 .. Len(p) - 1, NEW b \in 0 .. Len(name), b <= v,
           DecidesBelow(S, G, p, name, g, b)
    PROVE  Decides(S, G, p, name, g, v, a, b)
<1>0. Len(p) \in Nat /\ Len(name) \in Nat
  BY DEF Names
<1> SUFFICES ASSUME Reached(p, name, g, v, a, b)
             PROVE  S[At(g, v, a, b)] <=> Outcome(G, name, g, v, a, b)
  BY DEF Decides
<1>s. S[At(g, v, a, b)] = StepAt(p, name, S, g, v, a, b)
  BY DEF IsScan
<1>a. a # -1 /\ (\E k \in b + 1 .. Len(name) : Matches(G, a + 1, k))
        => \E j \in v + 1 .. Len(name) : Matches(G, g, j)
  BY StarAbsorbs
<1>1. CASE v = Len(name)
  <2>1. S[At(g, v, a, b)] <=> Matches(G, g, v)
    BY <1>s, <1>1, OnlyStarsMatchNothing DEF StepAt
  <2>2. \A j \in v + 1 .. Len(name) : FALSE
    BY <1>0, <1>1
  <2> QED BY <1>a, <2>1, <2>2 DEF Outcome
<1>2. CASE v # Len(name) /\ g < Len(p) /\ p[g + 1] = Star
  <2>1. S[At(g, v, a, b)] = S[At(g + 1, v, g, v)]
    BY <1>s, <1>2 DEF StepAt
  <2>2. /\ g + 1 \in 0 .. Len(p) /\ g \in -1 .. Len(p) - 1 /\ v <= v
        /\ v > b \/ (v = b /\ g + 1 > g)
        /\ g < g + 1 /\ g + 1 - (g + 1) = v - v /\ v - v = 0 /\ g # -1 /\ g # Len(p)
    BY <1>0, <1>2
  <2>3. Reached(p, name, g + 1, v, g, v)
    <3>1. \A t \in 1 .. 0 : FALSE
      OBVIOUS
    <3> QED BY <1>2, <2>2, <3>1 DEF Reached, Literal
  <2>4. S[At(g + 1, v, g, v)] <=> Outcome(G, name, g + 1, v, g, v)
    BY <2>2, <2>3 DEF DecidesBelow, Decides
  <2>5. Outcome(G, name, g + 1, v, g, v) <=> Matches(G, g, v)
    <3>1. Matches(G, g, v) <=> \E k \in v .. Len(name) : Matches(G, g + 1, k)
      BY <1>2, <2>2 DEF GlobRule
    <3>2. /\ v \in v .. Len(name) /\ \A k \in v .. Len(name) : k = v \/ k \in v + 1 .. Len(name)
          /\ \A k \in v + 1 .. Len(name) : k \in v .. Len(name)
      BY <1>0
    <3> QED BY <2>2, <3>1, <3>2 DEF Outcome
  <2>6. ASSUME NEW j \in v + 1 .. Len(name), Matches(G, g, j) PROVE Matches(G, g, v)
    <3>1. j \in 0 .. Len(name) /\ \A k \in j .. Len(name) : k \in v .. Len(name)
      BY <1>0
    <3>2. \E k \in j .. Len(name) : Matches(G, g + 1, k)
      BY <1>2, <2>2, <2>6, <3>1 DEF GlobRule
    <3> QED BY <1>2, <2>2, <3>1, <3>2 DEF GlobRule
  <2> QED BY <1>a, <2>1, <2>4, <2>5, <2>6 DEF Outcome
<1>3. CASE v # Len(name) /\ g < Len(p) /\ p[g + 1] # Star /\ p[g + 1] = name[v + 1]
  <2>1. S[At(g, v, a, b)] = S[At(g + 1, v + 1, a, b)]
    BY <1>s, <1>3 DEF StepAt
  <2>2. /\ g + 1 \in 0 .. Len(p) /\ v + 1 \in 0 .. Len(name) /\ b <= v + 1 /\ g + 1 > g
        /\ g # Len(p) /\ v < Len(name)
    BY <1>0, <1>3
  <2>3. Reached(p, name, g + 1, v + 1, a, b)
    <3> SUFFICES ASSUME a # -1
                 PROVE  /\ a < g + 1 /\ p[a + 1] = Star
                        /\ g + 1 - (a + 1) = v + 1 - b
                        /\ Literal(p, name, a + 1, b, v + 1 - b)
      BY DEF Reached
    <3>1. a < g /\ p[a + 1] = Star /\ g - (a + 1) = v - b /\ Literal(p, name, a + 1, b, v - b)
      BY DEF Reached
    <3>2. a < g + 1 /\ g + 1 - (a + 1) = v + 1 - b
      BY <3>1
    <3>3. ASSUME NEW t \in 1 .. v + 1 - b
          PROVE  p[a + 1 + t] # Star /\ p[a + 1 + t] = name[b + t]
      <4>1. CASE t \in 1 .. v - b
        BY <3>1, <4>1 DEF Literal
      <4>2. CASE t \notin 1 .. v - b
        <5>1. a + 1 + t = g + 1 /\ b + t = v + 1
          BY <3>1, <4>2
        <5> QED BY <1>3, <5>1
      <4> QED BY <4>1, <4>2
    <3> QED BY <3>1, <3>2, <3>3 DEF Literal
  <2>4. S[At(g + 1, v + 1, a, b)] <=> Outcome(G, name, g + 1, v + 1, a, b)
    BY <2>2, <2>3 DEF DecidesBelow, Decides
  <2>5. Matches(G, g, v) <=> Matches(G, g + 1, v + 1)
    BY <1>3, <2>2 DEF GlobRule
  <2> QED BY <2>1, <2>4, <2>5 DEF Outcome
<1>4. CASE v # Len(name) /\ ~(g < Len(p) /\ (p[g + 1] = Star \/ p[g + 1] = name[v + 1]))
  <2>1. S[At(g, v, a, b)] = (a # -1 /\ S[At(a + 1, b + 1, a, b + 1)])
    BY <1>s, <1>4 DEF StepAt
  <2>2. ~Matches(G, g, v)
    <3>1. CASE g = Len(p)
      BY <1>4, <3>1 DEF GlobRule
    <3>2. CASE g # Len(p)
      <4>1. g < Len(p)
        BY <1>0, <3>2
      <4> QED BY <1>4, <3>2, <4>1 DEF GlobRule
    <3> QED BY <3>1, <3>2
  <2>3. CASE a = -1
    BY <2>1, <2>2, <2>3 DEF Outcome
  <2>4. CASE a # -1
    <3>1. /\ a + 1 \in 0 .. Len(p) /\ b + 1 \in 0 .. Len(name) /\ b + 1 <= b + 1 /\ b + 1 > b
          /\ a < a + 1 /\ a + 1 - (a + 1) = b + 1 - (b + 1) /\ b + 1 - (b + 1) = 0
      BY <1>0, <1>4, <2>4
    <3>2. Reached(p, name, a + 1, b + 1, a, b + 1)
      <4>1. \A t \in 1 .. 0 : FALSE
        OBVIOUS
      <4>2. p[a + 1] = Star
        BY <2>4 DEF Reached
      <4> QED BY <3>1, <4>1, <4>2 DEF Reached, Literal
    <3>3. S[At(a + 1, b + 1, a, b + 1)] <=> Outcome(G, name, a + 1, b + 1, a, b + 1)
      BY <3>1, <3>2 DEF DecidesBelow, Decides
    <3>4. /\ b + 1 \in b + 1 .. Len(name)
          /\ \A k \in b + 1 .. Len(name) : k = b + 1 \/ k \in b + 1 + 1 .. Len(name)
          /\ \A k \in b + 1 + 1 .. Len(name) : k \in b + 1 .. Len(name)
      BY <1>0, <3>1
    <3> QED BY <2>1, <2>2, <2>4, <3>3, <3>4 DEF Outcome
  <2> QED BY <2>3, <2>4
<1> QED BY <1>1, <1>2, <1>3, <1>4

\* The scan matches what the pattern means.
LEMMA ScanIsGlob ==
    ASSUME NEW p \in Names, NEW name \in Names, NEW G, GlobRule(G, p, name),
           NEW S, IsScan(S, p, name)
    PROVE  S[At(0, 0, -1, 0)] <=> Matches(G, 0, 0)
<1> DEFINE P == Len(p)
           V == Len(name)
           Rank(g, b) == (V - b) * (P + 1) + (P - g)
           Wrong(n) == \E g \in 0 .. P : \E v \in 0 .. V :
                       \E a \in -1 .. P - 1 : \E b \in 0 .. V :
                          b <= v /\ n = Rank(g, b) /\ ~Decides(S, G, p, name, g, v, a, b)
           Bad == {n \in Nat : Wrong(n)}
<1>0. P \in Nat /\ V \in Nat
  BY DEF Names
<1>1. Bad = {}
  <2> SUFFICES ASSUME Bad # {} PROVE FALSE
    OBVIOUS
  <2>1. PICK n \in Bad : \A m \in Bad : n <= m
    <3>1. Bad \in SUBSET Nat
      OBVIOUS
    <3> HIDE DEF Bad
    <3> QED BY <3>1, LeastNat
  <2>2. PICK g \in 0 .. P, v \in 0 .. V, a \in -1 .. P - 1, b \in 0 .. V :
            b <= v /\ n = Rank(g, b) /\ ~Decides(S, G, p, name, g, v, a, b)
    <3> HIDE DEF Rank
    <3> QED BY <2>1
  <2>3. ASSUME NEW g2 \in 0 .. P, NEW v2 \in 0 .. V, NEW a2 \in -1 .. P - 1,
               NEW b2 \in 0 .. V, b2 <= v2, b2 > b \/ (b2 = b /\ g2 > g)
        PROVE  Decides(S, G, p, name, g2, v2, a2, b2)
    <3>1. Rank(g2, b2) \in Nat /\ Rank(g2, b2) < Rank(g, b)
      <4>1. b2 \in b .. V /\ (b2 > b \/ g2 > g)
        <5> HIDE DEF P, V, Rank
        <5> QED BY <1>0, <2>2, <2>3
      <4>2. Rank(g2, b2) < Rank(g, b)
        BY <1>0, <2>2, <4>1, ScanRank
      <4>3. Rank(g2, b2) \in 0 .. V * (P + 1) + P
        BY <1>0, <2>3, ScanRank
      <4> QED BY <4>2, <4>3
    <3>2. Rank(g2, b2) \notin Bad
      <4>1. n \in Nat /\ n = Rank(g, b)
        BY <2>1, <2>2
      <4>2. ~(n <= Rank(g2, b2))
        <5>1. \A x, y \in Nat : x < y => ~(y <= x)
          OBVIOUS
        <5> HIDE DEF Rank
        <5> QED BY <3>1, <4>1, <5>1
      <4> HIDE DEF Bad, Rank
      <4> QED BY <2>1, <4>2
    <3>3. ~Wrong(Rank(g2, b2))
      <4> HIDE DEF Rank, Wrong
      <4> QED BY <3>1, <3>2
    <3> HIDE DEF Rank
    <3> QED BY <2>3, <3>3
  <2>4. DecidesBelow(S, G, p, name, g, b)
    BY <2>3 DEF DecidesBelow
  <2> QED BY <2>2, <2>4, ScanDecides
<1>2. Decides(S, G, p, name, 0, 0, -1, 0)
  <2>1. 0 \in 0 .. P /\ 0 \in 0 .. V /\ -1 \in -1 .. P - 1 /\ 0 <= 0
    BY <1>0
  <2>2. Rank(0, 0) \in Nat
    BY <1>0, <2>1, ScanRank
  <2>3. ~Wrong(Rank(0, 0))
    <3> HIDE DEF Rank, Wrong
    <3> QED BY <1>1, <2>2
  <2> HIDE DEF Rank
  <2> QED BY <2>1, <2>3
<1> QED BY <1>2 DEF Decides, Reached, Outcome

\* matchProjectPattern (AgentActions.ts:542-579) matches exactly what a pattern means,
\* although it only ever goes back to the last star.
THEOREM ScanMatchesGlob ==
    ASSUME NEW p \in Names, NEW name \in Names
    PROVE  MatchProjectPattern(p, name) <=> Glob(p, name)
<1>1. PICK G : IsGlob(G, p, name) /\ (Glob(p, name) <=> p = <<>> \/ G[<<1, 1>>])
  BY GlobExists
<1>2. PICK S : IsScan(S, p, name) /\ (MatchProjectPattern(p, name) <=> p = <<>> \/ S[At(0, 0, -1, 0)])
  BY ScanExists
<1>3. S[At(0, 0, -1, 0)] <=> Matches(G, 0, 0)
  BY <1>1, <1>2, GlobRules, ScanIsGlob
<1> QED BY <1>1, <1>2, <1>3 DEF Matches

-----------------------------------------------------------------------------
(* The walk of projectPatternsMayOverlap finds every common name *)

\* The positions in both patterns that the walk reaches in n steps.
IsWalk(W, p, q) ==
    /\ W[0] = {<<0, 0>>}
    /\ \A n \in 0 .. Len(p) + Len(q) - 1 :
         W[n + 1] = W[n] \union UNION {Moves(p, q, s) : s \in W[n]}

WalkStep(p, q, f, n) ==
    IF n = 0 THEN {<<0, 0>>}
    ELSE f[n - 1] \union UNION {Moves(p, q, s) : s \in f[n - 1]}

\* projectPatternsMayOverlap is such a walk.
LEMMA WalkExists ==
    ASSUME NEW p \in Names, NEW q \in Names
    PROVE  \E W : /\ IsWalk(W, p, q)
                  /\ ProjectPatternsMayOverlap(p, q)
                       <=> p = <<>> \/ q = <<>> \/ <<Len(p), Len(q)>> \in W[Len(p) + Len(q)]
<1> DEFINE N == Len(p) + Len(q)
           D == 0 .. N
           V == SUBSET (Nat \X Nat)
           H == [f \in [D -> V] |-> [n \in D |-> WalkStep(p, q, f, n)]]
           rank == [n \in D |-> n]
<1>0. Len(p) \in Nat /\ Len(q) \in Nat /\ N \in Nat
  BY DEF Names
<1>1. H \in [[D -> V] -> [D -> V]]
  <2>1. ASSUME NEW f \in [D -> V], NEW n \in D PROVE WalkStep(p, q, f, n) \in V
    <3>1. CASE n = 0
      BY <3>1 DEF WalkStep
    <3>2. CASE n # 0
      <4>1. n - 1 \in D
        BY <1>0, <3>2
      <4>2. f[n - 1] \subseteq Nat \X Nat
        <5> HIDE DEF D
        <5> QED BY <4>1
      <4>3. ASSUME NEW s \in Nat \X Nat PROVE Moves(p, q, s) \subseteq Nat \X Nat
        <5>1. PICK i \in Nat, j \in Nat : s = <<i, j>>
          OBVIOUS
        <5>2. s[1] = i /\ s[2] = j /\ i + 1 \in Nat /\ j + 1 \in Nat
          BY <5>1
        <5> QED BY <5>2 DEF Moves
      <4>4. WalkStep(p, q, f, n) = f[n - 1] \union UNION {Moves(p, q, s) : s \in f[n - 1]}
        BY <3>2 DEF WalkStep
      <4> HIDE DEF D
      <4> QED BY <4>2, <4>3, <4>4
    <3> QED BY <3>1, <3>2
  <2> HIDE DEF D, V
  <2> QED BY <2>1
<1>2. rank \in [D -> 0 .. N]
  OBVIOUS
<1>3. ASSUME NEW f \in [D -> V], NEW g \in [D -> V], NEW n \in D,
             \A t \in D : rank[t] < rank[n] => f[t] = g[t]
      PROVE  WalkStep(p, q, f, n) = WalkStep(p, q, g, n)
  <2>1. CASE n = 0
    BY <2>1 DEF WalkStep
  <2>2. CASE n # 0
    <3>1. n - 1 \in D /\ rank[n - 1] < rank[n]
      BY <1>0, <2>2
    <3>2. f[n - 1] = g[n - 1]
      <4> HIDE DEF D, V, rank
      <4> QED BY <1>3, <3>1
    <3> QED BY <2>2, <3>2 DEF WalkStep
  <2> QED BY <2>1, <2>2
<1>4. Recursive(H, D, V, rank, N)
  <2>1. \A f, h \in [D -> V] : \A s \in D :
            (\A t \in D : rank[t] < rank[s] => f[t] = h[t])
                => WalkStep(p, q, f, s) = WalkStep(p, q, h, s)
    <3> HIDE DEF D, H, rank, V
    <3> QED BY <1>3
  <2>2. \A f \in [D -> V] : \A s \in D : H[f][s] = WalkStep(p, q, f, s)
    <3> HIDE DEF D, V
    <3> QED OBVIOUS
  <2>3. V # {}
    OBVIOUS
  <2> HIDE DEF D, H, rank, N, V
  <2>4. \A f, h \in [D -> V] : \A s \in D :
            (\A t \in D : rank[t] < rank[s] => f[t] = h[t]) => H[f][s] = H[h][s]
    BY <2>1, <2>2
  <2> QED BY <1>0, <1>1, <1>2, <2>3, <2>4 DEF Recursive
<1>5. \E W \in [D -> V] : W = H[W]
  <2> HIDE DEF D, H, rank, N, V
  <2> QED BY <1>4, RecursionExists
<1> DEFINE W == CHOOSE f : f = [n \in D |-> WalkStep(p, q, f, n)]
<1>6. W = [n \in D |-> WalkStep(p, q, W, n)]
  <2>1. \E f : f = [n \in D |-> WalkStep(p, q, f, n)]
    <3> HIDE DEF D, V
    <3> QED BY <1>5
  <2> HIDE DEF D
  <2> QED BY <2>1
<1>7. ProjectPatternsMayOverlap(p, q)
        <=> p = <<>> \/ q = <<>> \/ <<Len(p), Len(q)>> \in W[Len(p) + Len(q)]
  BY DEF ProjectPatternsMayOverlap, WalkStep
<1> HIDE DEF W
<1>8. IsWalk(W, p, q)
  <2>1. W[0] = {<<0, 0>>}
    <3>1. 0 \in D
      BY <1>0
    <3> HIDE DEF D
    <3> QED BY <1>6, <3>1 DEF WalkStep
  <2>2. ASSUME NEW n \in 0 .. N - 1
        PROVE  W[n + 1] = W[n] \union UNION {Moves(p, q, s) : s \in W[n]}
    <3>1. n + 1 \in D /\ n + 1 # 0 /\ n + 1 - 1 = n
      BY <1>0
    <3>2. W[n + 1] = WalkStep(p, q, W, n + 1)
      <4> HIDE DEF D
      <4> QED BY <1>6, <3>1
    <3> QED BY <3>1, <3>2 DEF WalkStep
  <2> QED BY <2>1, <2>2 DEF IsWalk
<1> QED BY <1>7, <1>8

\* From positions where both patterns match the rest of one name, the walk reaches the
\* end of both.
Joins(W, Gp, Gq, p, q, name, i, j) ==
    \A k \in 0 .. Len(name) :
        <<i, j>> \in W[i + j] /\ Matches(Gp, i, k) /\ Matches(Gq, j, k)
            => <<Len(p), Len(q)>> \in W[Len(p) + Len(q)]
JoinsBelow(W, Gp, Gq, p, q, name, i, j) ==
    \A i2 \in i .. Len(p) : \A j2 \in j .. Len(q) :
        i2 + j2 > i + j => Joins(W, Gp, Gq, p, q, name, i2, j2)

\* The moves of the walk from one pair of positions.
LEMMA WalkMoves ==
    ASSUME NEW p \in Names, NEW q \in Names, NEW W, IsWalk(W, p, q),
           NEW i \in 0 .. Len(p), NEW j \in 0 .. Len(q), <<i, j>> \in W[i + j]
    PROVE  /\ i < Len(p) /\ (p[i + 1] = Star \/ (j < Len(q) /\ q[j + 1] = Star))
                => <<i + 1, j>> \in W[i + 1 + j]
           /\ j < Len(q) /\ (q[j + 1] = Star \/ (i < Len(p) /\ p[i + 1] = Star))
                => <<i, j + 1>> \in W[i + (j + 1)]
           /\ i < Len(p) /\ j < Len(q) /\ p[i + 1] = q[j + 1]
                => <<i + 1, j + 1>> \in W[i + 1 + (j + 1)]
<1>0. Len(p) \in Nat /\ Len(q) \in Nat
  BY DEF Names
<1> DEFINE s == <<i, j>>
<1>1. s[1] = i /\ s[2] = j
  OBVIOUS
<1>2. ASSUME i < Len(p) \/ j < Len(q) PROVE Moves(p, q, s) \subseteq W[i + j + 1]
  <2>1. i + j \in 0 .. Len(p) + Len(q) - 1
    BY <1>0, <1>2
  <2>2. W[i + j + 1] = W[i + j] \union UNION {Moves(p, q, r) : r \in W[i + j]}
    BY <2>1 DEF IsWalk
  <2>3. s \in W[i + j]
    OBVIOUS
  <2> HIDE DEF s
  <2> QED BY <2>2, <2>3
<1>3. ASSUME i < Len(p), p[i + 1] = Star \/ (j < Len(q) /\ q[j + 1] = Star)
      PROVE  <<i + 1, j>> \in W[i + 1 + j]
  <2>1. <<i + 1, j>> \in Moves(p, q, s)
    <3> HIDE DEF s
    <3> QED BY <1>1, <1>3 DEF Moves
  <2>2. i + 1 + j = i + j + 1
    OBVIOUS
  <2> HIDE DEF s
  <2> QED BY <1>2, <1>3, <2>1, <2>2
<1>4. ASSUME j < Len(q), q[j + 1] = Star \/ (i < Len(p) /\ p[i + 1] = Star)
      PROVE  <<i, j + 1>> \in W[i + (j + 1)]
  <2>1. <<i, j + 1>> \in Moves(p, q, s)
    <3> HIDE DEF s
    <3> QED BY <1>1, <1>4 DEF Moves
  <2>2. i + (j + 1) = i + j + 1
    OBVIOUS
  <2> HIDE DEF s
  <2> QED BY <1>2, <1>4, <2>1, <2>2
<1>5. ASSUME i < Len(p), j < Len(q), p[i + 1] = q[j + 1]
      PROVE  <<i + 1, j + 1>> \in W[i + 1 + (j + 1)]
  <2>1. <<i + 1, j + 1>> \in Moves(p, q, s)
    <3> HIDE DEF s
    <3> QED BY <1>1, <1>5 DEF Moves
  <2>2. i + j + 1 \in 0 .. Len(p) + Len(q) - 1 /\ i + j + 1 + 1 = i + 1 + (j + 1)
    BY <1>0, <1>5
  <2>3. W[i + j + 1] \subseteq W[i + 1 + (j + 1)]
    BY <2>2 DEF IsWalk
  <2> HIDE DEF s
  <2> QED BY <1>2, <1>5, <2>1, <2>3
<1> QED BY <1>3, <1>4, <1>5

\* One step towards the end of both patterns.
LEMMA WalkJoins ==
    ASSUME NEW p \in Names, NEW q \in Names, NEW name \in Names,
           NEW Gp, GlobRule(Gp, p, name), NEW Gq, GlobRule(Gq, q, name),
           NEW W, IsWalk(W, p, q),
           NEW i \in 0 .. Len(p), NEW j \in 0 .. Len(q),
           JoinsBelow(W, Gp, Gq, p, q, name, i, j)
    PROVE  Joins(W, Gp, Gq, p, q, name, i, j)
<1>0. Len(p) \in Nat /\ Len(q) \in Nat /\ Len(name) \in Nat
  BY DEF Names
<1> SUFFICES ASSUME NEW k \in 0 .. Len(name),
                    <<i, j>> \in W[i + j], Matches(Gp, i, k), Matches(Gq, j, k)
             PROVE  <<Len(p), Len(q)>> \in W[Len(p) + Len(q)]
  BY DEF Joins
<1> DEFINE star1 == i < Len(p) /\ p[i + 1] = Star
           star2 == j < Len(q) /\ q[j + 1] = Star
<1>p. /\ (i = Len(p) => k = Len(name))
      /\ (star1 => \E m \in k .. Len(name) : Matches(Gp, i + 1, m))
      /\ (i < Len(p) /\ ~star1
            => k < Len(name) /\ p[i + 1] = name[k + 1] /\ Matches(Gp, i + 1, k + 1))
  BY <1>0 DEF GlobRule
<1>q. /\ (j = Len(q) => k = Len(name))
      /\ (star2 => \E m \in k .. Len(name) : Matches(Gq, j + 1, m))
      /\ (j < Len(q) /\ ~star2
            => k < Len(name) /\ q[j + 1] = name[k + 1] /\ Matches(Gq, j + 1, k + 1))
  BY <1>0 DEF GlobRule
<1>r. ASSUME i < Len(p), NEW m \in 0 .. Len(name), <<i + 1, j>> \in W[i + 1 + j],
             Matches(Gp, i + 1, m), Matches(Gq, j, m)
      PROVE  <<Len(p), Len(q)>> \in W[Len(p) + Len(q)]
  <2>1. i + 1 \in i .. Len(p) /\ j \in j .. Len(q) /\ i + 1 + j > i + j
    BY <1>0, <1>r
  <2> QED BY <1>r, <2>1 DEF JoinsBelow, Joins
<1>d. ASSUME j < Len(q), NEW m \in 0 .. Len(name), <<i, j + 1>> \in W[i + (j + 1)],
             Matches(Gp, i, m), Matches(Gq, j + 1, m)
      PROVE  <<Len(p), Len(q)>> \in W[Len(p) + Len(q)]
  <2>1. i \in i .. Len(p) /\ j + 1 \in j .. Len(q) /\ i + (j + 1) > i + j
    BY <1>0, <1>d
  <2> QED BY <1>d, <2>1 DEF JoinsBelow, Joins
<1>1. CASE star1 /\ star2
  <2>1. PICK m1 \in k .. Len(name) : Matches(Gp, i + 1, m1)
    BY <1>1, <1>p
  <2>2. PICK m2 \in k .. Len(name) : Matches(Gq, j + 1, m2)
    BY <1>1, <1>q
  <2>3. m1 \in 0 .. Len(name) /\ m2 \in 0 .. Len(name) /\ j # Len(q) /\ i # Len(p)
    BY <1>0, <1>1
  <2>4. CASE m1 <= m2
    <3>1. m2 \in m1 .. Len(name)
      BY <2>3, <2>4
    <3>2. Matches(Gq, j, m1)
      BY <1>1, <2>2, <2>3, <3>1 DEF GlobRule
    <3> QED BY <1>r, <1>1, <2>1, <2>3, <3>2, WalkMoves
  <2>5. CASE ~(m1 <= m2)
    <3>1. m1 \in m2 .. Len(name)
      BY <2>3, <2>5
    <3>2. Matches(Gp, i, m2)
      BY <1>1, <2>1, <2>3, <3>1 DEF GlobRule
    <3> QED BY <1>d, <1>1, <2>2, <2>3, <3>2, WalkMoves
  <2> QED BY <2>4, <2>5
<1>2. CASE star1 /\ ~star2
  <2>1. PICK m \in k .. Len(name) : Matches(Gp, i + 1, m)
    BY <1>2, <1>p
  <2>2. CASE m = k
    BY <1>r, <1>2, <2>1, <2>2, WalkMoves
  <2>3. CASE m # k
    <3>1. j < Len(q) /\ i # Len(p) /\ k < Len(name)
      BY <1>0, <1>2, <1>q, <2>3
    <3>2. k + 1 \in 0 .. Len(name) /\ m \in k + 1 .. Len(name)
      BY <1>0, <2>3, <3>1
    <3>3. Matches(Gp, i, k + 1)
      BY <1>2, <2>1, <3>1, <3>2 DEF GlobRule
    <3>4. Matches(Gq, j + 1, k + 1)
      BY <1>2, <1>q, <3>1
    <3> QED BY <1>d, <1>2, <3>1, <3>2, <3>3, <3>4, WalkMoves
  <2> QED BY <2>2, <2>3
<1>3. CASE ~star1 /\ star2
  <2>1. PICK m \in k .. Len(name) : Matches(Gq, j + 1, m)
    BY <1>3, <1>q
  <2>2. CASE m = k
    BY <1>d, <1>3, <2>1, <2>2, WalkMoves
  <2>3. CASE m # k
    <3>1. i < Len(p) /\ j # Len(q) /\ k < Len(name)
      BY <1>0, <1>3, <1>p, <2>3
    <3>2. k + 1 \in 0 .. Len(name) /\ m \in k + 1 .. Len(name)
      BY <1>0, <2>3, <3>1
    <3>3. Matches(Gq, j, k + 1)
      BY <1>3, <2>1, <3>1, <3>2 DEF GlobRule
    <3>4. Matches(Gp, i + 1, k + 1)
      BY <1>3, <1>p, <3>1
    <3> QED BY <1>r, <1>3, <3>1, <3>2, <3>3, <3>4, WalkMoves
  <2> QED BY <2>2, <2>3
<1>4. CASE ~star1 /\ ~star2
  <2>1. CASE i = Len(p) /\ j = Len(q)
    BY <2>1
  <2>2. CASE ~(i = Len(p) /\ j = Len(q))
    <3>1. i < Len(p) /\ j < Len(q) /\ k < Len(name)
      BY <1>0, <1>4, <1>p, <1>q, <2>2
    <3>2. /\ p[i + 1] = q[j + 1]
          /\ Matches(Gp, i + 1, k + 1) /\ Matches(Gq, j + 1, k + 1)
      BY <1>4, <1>p, <1>q, <3>1
    <3>3. <<i + 1, j + 1>> \in W[i + 1 + (j + 1)]
      BY <3>1, <3>2, WalkMoves
    <3>4. /\ i + 1 \in i .. Len(p) /\ j + 1 \in j .. Len(q) /\ i + 1 + (j + 1) > i + j
          /\ k + 1 \in 0 .. Len(name)
      BY <1>0, <3>1
    <3> QED BY <3>2, <3>3, <3>4 DEF JoinsBelow, Joins
  <2> QED BY <2>1, <2>2
<1> QED BY <1>1, <1>2, <1>3, <1>4

\* So it does from the start of both patterns.
LEMMA WalkReachesTheEnd ==
    ASSUME NEW p \in Names, NEW q \in Names, NEW name \in Names,
           NEW Gp, GlobRule(Gp, p, name), NEW Gq, GlobRule(Gq, q, name),
           NEW W, IsWalk(W, p, q)
    PROVE  Joins(W, Gp, Gq, p, q, name, 0, 0)
<1> DEFINE P == Len(p)
           Q == Len(q)
           J(i, j) == Joins(W, Gp, Gq, p, q, name, i, j)
           Wrong(n) == \E i \in 0 .. P : \E j \in 0 .. Q : n = (P - i) + (Q - j) /\ ~J(i, j)
           Bad == {n \in Nat : Wrong(n)}
<1>0. P \in Nat /\ Q \in Nat
  BY DEF Names
<1>1. Bad = {}
  <2> SUFFICES ASSUME Bad # {} PROVE FALSE
    OBVIOUS
  <2>1. PICK n \in Bad : \A m \in Bad : n <= m
    <3>1. Bad \in SUBSET Nat
      OBVIOUS
    <3> HIDE DEF Bad
    <3> QED BY <3>1, LeastNat
  <2>2. PICK i \in 0 .. P, j \in 0 .. Q : n = (P - i) + (Q - j) /\ ~J(i, j)
    <3> HIDE DEF J
    <3> QED BY <2>1
  <2>3. ASSUME NEW i2 \in i .. P, NEW j2 \in j .. Q, i2 + j2 > i + j PROVE J(i2, j2)
    <3> DEFINE m == (P - i2) + (Q - j2)
    <3>1. i2 \in 0 .. P /\ j2 \in 0 .. Q /\ m \in Nat /\ ~(n <= m)
      <4> HIDE DEF J, P, Q
      <4> QED BY <1>0, <2>2, <2>3
    <3>2. m \notin Bad
      <4> HIDE DEF Bad, m
      <4> QED BY <2>1, <3>1
    <3>3. ~Wrong(m)
      <4> HIDE DEF Wrong, m
      <4> QED BY <3>1, <3>2
    <3> HIDE DEF J
    <3> QED BY <3>1, <3>3
  <2>4. JoinsBelow(W, Gp, Gq, p, q, name, i, j)
    BY <2>3 DEF JoinsBelow
  <2> QED BY <2>2, <2>4, WalkJoins
<1>2. P + Q \in Nat /\ P + Q = (P - 0) + (Q - 0) /\ 0 \in 0 .. P /\ 0 \in 0 .. Q
  BY <1>0
<1>3. ~Wrong(P + Q)
  <2> HIDE DEF Wrong
  <2> QED BY <1>1, <1>2
<1>4. J(0, 0)
  <2> HIDE DEF J
  <2> QED BY <1>2, <1>3
<1> QED BY <1>4

\* projectPatternsMayOverlap (AgentActions.ts:595-639) never misses an overlap: when one
\* name matches both patterns it says so.
LEMMA OverlapsAreFound ==
    ASSUME NEW p \in Names, NEW q \in Names, NEW name \in Names,
           Glob(p, name), Glob(q, name)
    PROVE  ProjectPatternsMayOverlap(p, q)
<1>1. PICK Gp : IsGlob(Gp, p, name) /\ (Glob(p, name) <=> p = <<>> \/ Gp[<<1, 1>>])
  BY GlobExists
<1>2. PICK Gq : IsGlob(Gq, q, name) /\ (Glob(q, name) <=> q = <<>> \/ Gq[<<1, 1>>])
  BY GlobExists
<1>3. PICK W : /\ IsWalk(W, p, q)
               /\ ProjectPatternsMayOverlap(p, q)
                    <=> p = <<>> \/ q = <<>> \/ <<Len(p), Len(q)>> \in W[Len(p) + Len(q)]
  BY WalkExists
<1>4. CASE p = <<>> \/ q = <<>>
  BY <1>3, <1>4
<1>5. CASE p # <<>> /\ q # <<>>
  <2>1. Joins(W, Gp, Gq, p, q, name, 0, 0)
    BY <1>1, <1>2, <1>3, GlobRules, WalkReachesTheEnd
  <2>2. Matches(Gp, 0, 0) /\ Matches(Gq, 0, 0)
    BY <1>1, <1>2, <1>5 DEF Matches
  <2>3. <<0, 0>> \in W[0 + 0] /\ 0 \in 0 .. Len(name)
    BY <1>3 DEF IsWalk, Names
  <2>4. <<Len(p), Len(q)>> \in W[Len(p) + Len(q)]
    BY <2>1, <2>2, <2>3 DEF Joins
  <2> QED BY <1>3, <2>4
<1> QED BY <1>4, <1>5

\* G is the function whose start is the meaning of the pattern.
GlobOf(G, p, name) == GlobRule(G, p, name) /\ (Glob(p, name) <=> p = <<>> \/ Matches(G, 0, 0))

\* Every pattern has a meaning in every name.
LEMMA GlobOfExists ==
    ASSUME NEW p \in Names, NEW name \in Names
    PROVE  \E G : GlobOf(G, p, name)
<1>1. PICK G : IsGlob(G, p, name) /\ (Glob(p, name) <=> p = <<>> \/ G[<<1, 1>>])
  BY GlobExists
<1>2. Matches(G, 0, 0) = G[<<1, 1>>]
  BY DEF Matches
<1> QED BY <1>1, <1>2, GlobRules DEF GlobOf

\* Read as a name, a pattern matches itself.
LEMMA MatchesItself == ASSUME NEW p \in Names PROVE Glob(p, p)
<1>1. PICK G : GlobOf(G, p, p)
  BY GlobOfExists
<1> DEFINE P == Len(p)
           Bad == {n \in 0 .. P : ~Matches(G, P - n, P - n)}
<1>0. P \in Nat
  BY DEF Names
<1>2. Bad = {}
  <2> SUFFICES ASSUME Bad # {} PROVE FALSE
    OBVIOUS
  <2>1. PICK n \in Bad : \A m \in Bad : n <= m
    <3>1. Bad \in SUBSET Nat
      BY <1>0
    <3> HIDE DEF Bad
    <3> QED BY <3>1, LeastNat
  <2> DEFINE g == P - n
  <2>2. n \in 0 .. P /\ g \in 0 .. P /\ ~Matches(G, g, g)
    BY <1>0, <2>1
  <2>3. g # P
    BY <1>1, <2>2 DEF GlobOf, GlobRule
  <2>4. n - 1 \in 0 .. P /\ P - (n - 1) = g + 1 /\ ~(n <= n - 1)
    BY <1>0, <2>2, <2>3
  <2>5. Matches(G, g + 1, g + 1)
    <3>1. n - 1 \notin Bad
      <4> HIDE DEF Bad
      <4> QED BY <2>1, <2>4
    <3> HIDE DEF g
    <3> QED BY <2>4, <3>1
  <2>6. g + 1 \in g .. P /\ g < P
    BY <1>0, <2>2, <2>3
  <2> HIDE DEF g
  <2> QED BY <1>1, <2>2, <2>3, <2>5, <2>6 DEF GlobOf, GlobRule
<1>3. Matches(G, 0, 0)
  <2>1. P \in 0 .. P /\ P - P = 0
    BY <1>0
  <2> HIDE DEF P
  <2> QED BY <1>2, <2>1
<1> QED BY <1>1, <1>3 DEF GlobOf

-----------------------------------------------------------------------------
(* One character more in front of a name *)

\* y is x with c in front.
Extends(x, y, c) ==
    /\ Len(y) = Len(x) + 1 /\ y[1] = c
    /\ \A k \in 0 .. Len(x) - 1 : y[k + 2] = x[k + 1]

\* A character can be put in front of every name.
LEMMA LongerName ==
    ASSUME NEW x \in Names, NEW c \in STRING
    PROVE  \E longer \in Names : Extends(x, longer, c)
<1> DEFINE Char(k) == IF k = 1 THEN c ELSE x[k - 1]
           N == Len(x) + 1
           y == [k \in 1 .. N |-> Char(k)]
<1>1. N \in Nat /\ Len(x) \in Nat /\ N = Len(x) + 1
  BY DEF Names
<1>2. ASSUME NEW k \in 1 .. N PROVE Char(k) \in STRING
  <2>1. CASE k = 1
    BY <2>1
  <2>2. CASE k # 1
    <3>1. k - 1 \in 1 .. Len(x)
      BY <1>1, <2>2
    <3> QED BY <2>2, <3>1 DEF Names
  <2> QED BY <2>1, <2>2
<1>3. ASSUME NEW k \in 0 .. Len(x) - 1 PROVE k + 2 \in 1 .. N /\ Char(k + 2) = x[k + 1]
  <2>1. k + 2 \in 1 .. N /\ k + 2 # 1 /\ k + 2 - 1 = k + 1
    BY <1>1
  <2> QED BY <2>1
<1>4. 1 \in 1 .. N /\ Char(1) = c
  BY <1>1
<1> HIDE DEF Char, N
<1>5. y \in Names /\ Len(y) = N
  BY <1>1, <1>2 DEF Names
<1>6. y[1] = c /\ \A k \in 0 .. Len(x) - 1 : y[k + 2] = x[k + 1]
  BY <1>3, <1>4
<1> HIDE DEF y
<1> QED BY <1>1, <1>5, <1>6 DEF Extends

\* What a pattern matches of the name does not change.
LEMMA ShiftedMatches ==
    ASSUME NEW p \in Names, NEW x \in Names, NEW y \in Names,
           Len(y) = Len(x) + 1, \A k \in 0 .. Len(x) - 1 : y[k + 2] = x[k + 1],
           NEW G, GlobRule(G, p, x), NEW F, GlobRule(F, p, y)
    PROVE  \A g \in 0 .. Len(p) : \A k \in 0 .. Len(x) :
               Matches(F, g, k + 1) <=> Matches(G, g, k)
<1> DEFINE P == Len(p)
           V == Len(x)
           Ok(g) == \A k \in 0 .. V : Matches(F, g, k + 1) <=> Matches(G, g, k)
           Bad == {n \in 0 .. P : ~Ok(P - n)}
<1>0. P \in Nat /\ V \in Nat
  BY DEF Names
<1>1. ASSUME NEW g \in 0 .. P, g # P => Ok(g + 1) PROVE Ok(g)
  <2> SUFFICES ASSUME NEW k \in 0 .. V PROVE Matches(F, g, k + 1) <=> Matches(G, g, k)
    OBVIOUS
  <2>0. k + 1 \in 0 .. Len(y) /\ Len(y) = V + 1
    BY <1>0
  <2>1. CASE g = P
    BY <1>0, <2>0, <2>1 DEF GlobRule
  <2>2. CASE g # P /\ p[g + 1] = Star
    <3>1. ASSUME NEW m \in k + 1 .. Len(y), Matches(F, g + 1, m)
          PROVE  \E n \in k .. V : Matches(G, g + 1, n)
      <4>1. m - 1 \in k .. V /\ m - 1 \in 0 .. V /\ m - 1 + 1 = m
        BY <1>0, <2>0
      <4>2. Matches(F, g + 1, m - 1 + 1)
        BY <3>1, <4>1
      <4> QED BY <1>1, <2>2, <4>1, <4>2
    <3>2. ASSUME NEW n \in k .. V, Matches(G, g + 1, n)
          PROVE  \E m \in k + 1 .. Len(y) : Matches(F, g + 1, m)
      <4>1. n + 1 \in k + 1 .. Len(y) /\ n \in 0 .. V
        BY <1>0, <2>0
      <4> QED BY <1>1, <2>2, <3>2, <4>1
    <3>3. Matches(F, g, k + 1) <=> \E m \in k + 1 .. Len(y) : Matches(F, g + 1, m)
      BY <2>0, <2>2 DEF GlobRule
    <3>4. Matches(G, g, k) <=> \E n \in k .. V : Matches(G, g + 1, n)
      BY <2>2 DEF GlobRule
    <3> QED BY <3>1, <3>2, <3>3, <3>4
  <2>3. CASE g # P /\ p[g + 1] # Star
    <3>1. Matches(F, g, k + 1)
            <=> k + 1 < Len(y) /\ p[g + 1] = y[k + 1 + 1] /\ Matches(F, g + 1, k + 1 + 1)
      BY <2>0, <2>3 DEF GlobRule
    <3>2. Matches(G, g, k) <=> k < V /\ p[g + 1] = x[k + 1] /\ Matches(G, g + 1, k + 1)
      BY <2>3 DEF GlobRule
    <3>3. CASE k = V
      BY <1>0, <2>0, <3>1, <3>2, <3>3
    <3>4. CASE k # V
      <4>1. /\ k \in 0 .. V - 1 /\ k + 1 \in 0 .. V /\ k + 1 + 1 = k + 2
            /\ k < V /\ k + 1 < Len(y)
        BY <1>0, <2>0, <3>4
      <4>2. y[k + 2] = x[k + 1]
        BY <4>1
      <4>3. Matches(F, g + 1, k + 1 + 1) <=> Matches(G, g + 1, k + 1)
        BY <1>1, <2>3, <4>1
      <4> QED BY <3>1, <3>2, <4>1, <4>2, <4>3
    <3> QED BY <3>3, <3>4
  <2> QED BY <2>1, <2>2, <2>3
<1>2. Bad = {}
  <2> SUFFICES ASSUME Bad # {} PROVE FALSE
    OBVIOUS
  <2>1. PICK n \in Bad : \A m \in Bad : n <= m
    <3>1. Bad \in SUBSET Nat
      BY <1>0
    <3> HIDE DEF Bad
    <3> QED BY <3>1, LeastNat
  <2>2. n \in 0 .. P /\ ~Ok(P - n)
    <3> HIDE DEF Ok
    <3> QED BY <2>1
  <2>3. P - n \in 0 .. P /\ (P - n # P => n - 1 \in 0 .. P /\ P - (n - 1) = P - n + 1)
    BY <1>0, <2>2
  <2>4. ASSUME P - n # P PROVE Ok(P - n + 1)
    <3>1. n - 1 \notin Bad
      <4>1. ~(n <= n - 1)
        BY <2>2
      <4> HIDE DEF Bad
      <4> QED BY <2>1, <4>1
    <3> HIDE DEF Ok
    <3> QED BY <2>3, <2>4, <3>1
  <2> HIDE DEF Ok
  <2> QED BY <1>1, <2>2, <2>3, <2>4
<1>3. ASSUME NEW g \in 0 .. P PROVE Ok(g)
  <2>1. P - g \in 0 .. P /\ P - (P - g) = g
    BY <1>0
  <2> HIDE DEF Ok
  <2> QED BY <1>2, <2>1
<1> QED BY <1>3

\* What a pattern matches of a name it matches from one position on, with a character
\* in front that this position or its star takes.
LEMMA FrontMatches ==
    ASSUME NEW p \in Names, NEW x \in Names, NEW y \in Names, NEW c, Extends(x, y, c),
           NEW G, GlobRule(G, p, x), NEW F, GlobRule(F, p, y),
           NEW g \in 0 .. Len(p), g < Len(p), p[g + 1] = Star \/ p[g + 1] = c,
           Matches(G, g + 1, 0) \/ (p[g + 1] = Star /\ Matches(G, g, 0))
    PROVE  Matches(F, g, 0)
<1>0. Len(p) \in Nat /\ Len(x) \in Nat /\ Len(y) = Len(x) + 1 /\ y[1] = c
  BY DEF Names, Extends
<1>1. \A h \in 0 .. Len(p) : \A k \in 0 .. Len(x) : Matches(F, h, k + 1) <=> Matches(G, h, k)
  <2>1. Len(y) = Len(x) + 1 /\ \A k \in 0 .. Len(x) - 1 : y[k + 2] = x[k + 1]
    BY DEF Extends
  <2> QED BY <2>1, ShiftedMatches
<1>2. /\ 0 \in 0 .. Len(x) /\ g + 1 \in 0 .. Len(p) /\ g # Len(p) /\ 0 + 1 = 1
      /\ 0 \in 0 .. Len(y) /\ 1 \in 0 .. Len(y) /\ 1 \in 0 .. Len(y) /\ 0 < Len(y)
  BY <1>0
<1>3. CASE p[g + 1] = Star /\ Matches(G, g, 0)
  <2>1. Matches(F, g, 1)
    BY <1>1, <1>2, <1>3
  <2>2. PICK m \in 1 .. Len(y) : Matches(F, g + 1, m)
    BY <1>2, <1>3, <2>1 DEF GlobRule
  <2>3. m \in 0 .. Len(y)
    BY <1>0
  <2> QED BY <1>2, <1>3, <2>2, <2>3 DEF GlobRule
<1>4. CASE Matches(G, g + 1, 0)
  <2>1. Matches(F, g + 1, 1)
    BY <1>1, <1>2, <1>4
  <2> QED BY <1>0, <1>2, <2>1 DEF GlobRule
<1> QED BY <1>3, <1>4

-----------------------------------------------------------------------------
(* The walk goes through common names only *)

\* One name matches both patterns from these positions on.
Common(p, q, i, j) ==
    \E x \in Names : \E G, F :
        GlobOf(G, p, x) /\ GlobOf(F, q, x) /\ Matches(G, i, 0) /\ Matches(F, j, 0)

\* A move of the walk goes back from a common name to a common name.
LEMMA CommonBefore ==
    ASSUME NEW p \in Names, NEW q \in Names,
           NEW i \in 0 .. Len(p), NEW j \in 0 .. Len(q),
           NEW t \in Moves(p, q, <<i, j>>)
    PROVE  \E i2 \in 0 .. Len(p) : \E j2 \in 0 .. Len(q) :
               t = <<i2, j2>> /\ (Common(p, q, i2, j2) => Common(p, q, i, j))
<1>0. Len(p) \in Nat /\ Len(q) \in Nat
  BY DEF Names
<1> DEFINE star1 == i < Len(p) /\ p[i + 1] = Star
           star2 == j < Len(q) /\ q[j + 1] = Star
           both == i < Len(p) /\ j < Len(q)
<1>m. \/ t = <<i + 1, j>> /\ (star1 \/ (both /\ star2))
      \/ t = <<i, j + 1>> /\ (star2 \/ (both /\ star1))
      \/ t = <<i + 1, j + 1>> /\ both /\ (star1 \/ star2 \/ p[i + 1] = q[j + 1])
  BY DEF Moves
<1>c. /\ \A k \in 1 .. Len(p) : p[k] \in STRING
      /\ \A k \in 1 .. Len(q) : q[k] \in STRING
  BY DEF Names
\* A star that takes nothing.
<1>e. ASSUME NEW r \in Names, NEW x \in Names, NEW G, GlobOf(G, r, x),
             NEW g \in 0 .. Len(r), g < Len(r), r[g + 1] = Star, Matches(G, g + 1, 0)
      PROVE  Matches(G, g, 0)
  <2>1. Len(x) \in Nat /\ Len(r) \in Nat
    BY DEF Names
  <2>2. g # Len(r) /\ 0 \in 0 .. Len(x)
    BY <1>e, <2>1
  <2> QED BY <1>e, <2>2 DEF GlobOf, GlobRule
\* A character in front that both take.
<1>f. ASSUME NEW x \in Names, NEW G, NEW F, GlobOf(G, p, x), GlobOf(F, q, x), NEW c \in STRING, both,
             p[i + 1] = Star \/ p[i + 1] = c, q[j + 1] = Star \/ q[j + 1] = c,
             Matches(G, i + 1, 0) \/ (p[i + 1] = Star /\ Matches(G, i, 0)),
             Matches(F, j + 1, 0) \/ (q[j + 1] = Star /\ Matches(F, j, 0))
      PROVE  Common(p, q, i, j)
  <2>1. PICK y \in Names : Extends(x, y, c)
    BY <1>f, LongerName
  <2>2. PICK G2 : GlobOf(G2, p, y)
    BY <2>1, GlobOfExists
  <2>3. PICK F2 : GlobOf(F2, q, y)
    BY <2>1, GlobOfExists
  <2>4. Matches(G2, i, 0)
    BY <1>f, <2>1, <2>2, FrontMatches DEF GlobOf
  <2>5. Matches(F2, j, 0)
    BY <1>f, <2>1, <2>3, FrontMatches DEF GlobOf
  <2> QED BY <2>1, <2>2, <2>3, <2>4, <2>5 DEF Common
<1>1. CASE t = <<i + 1, j>> /\ (star1 \/ (both /\ star2))
  <2>1. i + 1 \in 0 .. Len(p) /\ i + 1 \in 1 .. Len(p)
    BY <1>0, <1>1
  <2>2. ASSUME Common(p, q, i + 1, j) PROVE Common(p, q, i, j)
    <3>1x. PICK x \in Names : \E G, F :
             GlobOf(G, p, x) /\ GlobOf(F, q, x) /\ Matches(G, i + 1, 0) /\ Matches(F, j, 0)
      BY <2>2 DEF Common
    <3>1. PICK G, F : GlobOf(G, p, x) /\ GlobOf(F, q, x) /\ Matches(G, i + 1, 0) /\ Matches(F, j, 0)
      BY <3>1x
    <3>2. CASE star1
      <4>1. Matches(G, i, 0)
        BY <1>e, <3>1, <3>2
      <4> QED BY <3>1, <4>1 DEF Common
    <3>3. CASE both /\ star2
      BY <1>c, <1>f, <2>1, <3>1, <3>3
    <3> QED BY <1>1, <3>2, <3>3
  <2> QED BY <1>1, <2>1, <2>2
<1>2. CASE t = <<i, j + 1>> /\ (star2 \/ (both /\ star1))
  <2>1. j + 1 \in 0 .. Len(q) /\ j + 1 \in 1 .. Len(q)
    BY <1>0, <1>2
  <2>2. ASSUME Common(p, q, i, j + 1) PROVE Common(p, q, i, j)
    <3>1x. PICK x \in Names : \E G, F :
             GlobOf(G, p, x) /\ GlobOf(F, q, x) /\ Matches(G, i, 0) /\ Matches(F, j + 1, 0)
      BY <2>2 DEF Common
    <3>1. PICK G, F : GlobOf(G, p, x) /\ GlobOf(F, q, x) /\ Matches(G, i, 0) /\ Matches(F, j + 1, 0)
      BY <3>1x
    <3>2. CASE star2
      <4>1. Matches(F, j, 0)
        BY <1>e, <3>1, <3>2
      <4> QED BY <3>1, <4>1 DEF Common
    <3>3. CASE both /\ star1
      BY <1>c, <1>f, <2>1, <3>1, <3>3
    <3> QED BY <1>2, <3>2, <3>3
  <2> QED BY <1>2, <2>1, <2>2
<1>3. CASE t = <<i + 1, j + 1>> /\ both /\ (star1 \/ star2 \/ p[i + 1] = q[j + 1])
  <2>1. i + 1 \in 0 .. Len(p) /\ i + 1 \in 1 .. Len(p) /\ j + 1 \in 0 .. Len(q) /\ j + 1 \in 1 .. Len(q)
    BY <1>0, <1>3
  <2>2. ASSUME Common(p, q, i + 1, j + 1) PROVE Common(p, q, i, j)
    <3>1x. PICK x \in Names : \E G, F :
             GlobOf(G, p, x) /\ GlobOf(F, q, x) /\ Matches(G, i + 1, 0) /\ Matches(F, j + 1, 0)
      BY <2>2 DEF Common
    <3>1. PICK G, F : GlobOf(G, p, x) /\ GlobOf(F, q, x) /\ Matches(G, i + 1, 0) /\ Matches(F, j + 1, 0)
      BY <3>1x
    <3>2. CASE star1
      BY <1>c, <1>f, <1>3, <2>1, <3>1, <3>2
    <3>3. CASE ~star1
      BY <1>c, <1>f, <1>3, <2>1, <3>1, <3>3
    <3> QED BY <3>2, <3>3
  <2> QED BY <1>3, <2>1, <2>2
<1> QED BY <1>m, <1>1, <1>2, <1>3

\* Positions the walk reaches, and what a common name from there says.
Leads(p, q, s) ==
    \E i \in 0 .. Len(p) : \E j \in 0 .. Len(q) :
        s = <<i, j>> /\ (Common(p, q, i, j) => Common(p, q, 0, 0))

\* A common name from any pair of positions the walk reaches gives one from the start.
LEMMA WalkLeads ==
    ASSUME NEW p \in Names, NEW q \in Names, NEW W, IsWalk(W, p, q)
    PROVE  \A n \in 0 .. Len(p) + Len(q) : \A s \in W[n] : Leads(p, q, s)
<1> DEFINE N == Len(p) + Len(q)
           Ok(n) == \A s \in W[n] : Leads(p, q, s)
           Bad == {n \in 0 .. N : ~Ok(n)}
<1>0. Len(p) \in Nat /\ Len(q) \in Nat /\ N \in Nat
  BY DEF Names
<1>1. Ok(0)
  <2>1. 0 \in 0 .. Len(p) /\ 0 \in 0 .. Len(q)
    BY <1>0
  <2>2. Leads(p, q, <<0, 0>>)
    BY <2>1 DEF Leads
  <2> QED BY <2>2 DEF IsWalk
<1>2. ASSUME NEW n \in 0 .. N - 1, Ok(n) PROVE Ok(n + 1)
  <2>1. W[n + 1] = W[n] \union UNION {Moves(p, q, s) : s \in W[n]}
    BY DEF IsWalk
  <2>2. ASSUME NEW s \in W[n], NEW t \in Moves(p, q, s) PROVE Leads(p, q, t)
    <3>1. PICK i \in 0 .. Len(p), j \in 0 .. Len(q) :
              s = <<i, j>> /\ (Common(p, q, i, j) => Common(p, q, 0, 0))
      BY <1>2, <2>2 DEF Leads
    <3>2. PICK i2 \in 0 .. Len(p), j2 \in 0 .. Len(q) :
              t = <<i2, j2>> /\ (Common(p, q, i2, j2) => Common(p, q, i, j))
      BY <2>2, <3>1, CommonBefore
    <3> QED BY <3>1, <3>2 DEF Leads
  <2> QED BY <1>2, <2>1, <2>2
<1>3. Bad = {}
  <2> SUFFICES ASSUME Bad # {} PROVE FALSE
    OBVIOUS
  <2>1. PICK n \in Bad : \A m \in Bad : n <= m
    <3>1. Bad \in SUBSET Nat
      BY <1>0
    <3> HIDE DEF Bad
    <3> QED BY <3>1, LeastNat
  <2>2. n \in 0 .. N /\ ~Ok(n)
    <3> HIDE DEF Ok
    <3> QED BY <2>1
  <2>3. n # 0
    <3> HIDE DEF Ok
    <3> QED BY <1>1, <2>2
  <2>4. n - 1 \in 0 .. N /\ n - 1 \in 0 .. N - 1 /\ n - 1 + 1 = n /\ ~(n <= n - 1)
    BY <1>0, <2>2, <2>3
  <2>5. n - 1 \notin Bad
    <3> HIDE DEF Bad
    <3> QED BY <2>1, <2>4
  <2> HIDE DEF Ok
  <2> QED BY <1>2, <2>2, <2>4, <2>5
<1>4. ASSUME NEW n \in 0 .. N PROVE Ok(n)
  <2> HIDE DEF Ok
  <2> QED BY <1>3
<1> QED BY <1>4

\* projectPatternsMayOverlap (AgentActions.ts:595-639) is exact, as its comment says
\* (:581): it answers yes if and only if some name matches both patterns.
THEOREM OverlapIsExact ==
    ASSUME NEW p \in Names, NEW q \in Names
    PROVE  ProjectPatternsMayOverlap(p, q)
               <=> \E name \in Names : Glob(p, name) /\ Glob(q, name)
<1>1. ASSUME NEW name \in Names, Glob(p, name), Glob(q, name)
      PROVE  ProjectPatternsMayOverlap(p, q)
  BY <1>1, OverlapsAreFound
<1>2. ASSUME ProjectPatternsMayOverlap(p, q)
      PROVE  \E name \in Names : Glob(p, name) /\ Glob(q, name)
  <2>e. \A r, name : r = <<>> => Glob(r, name)
    BY DEF Glob
  <2>1. CASE p = <<>>
    BY <2>1, <2>e, MatchesItself
  <2>2. CASE q = <<>>
    BY <2>2, <2>e, MatchesItself
  <2>3. CASE p # <<>> /\ q # <<>>
    <3>0. Len(p) \in Nat /\ Len(q) \in Nat /\ <<>> \in Names /\ Len(<<>>) = 0
      BY DEF Names
    <3>1. PICK W : /\ IsWalk(W, p, q)
                   /\ ProjectPatternsMayOverlap(p, q)
                        <=> p = <<>> \/ q = <<>> \/ <<Len(p), Len(q)>> \in W[Len(p) + Len(q)]
      BY WalkExists
    <3>2. Leads(p, q, <<Len(p), Len(q)>>)
      <4>1. Len(p) + Len(q) \in 0 .. Len(p) + Len(q)
        BY <3>0
      <4> QED BY <1>2, <2>3, <3>1, <4>1, WalkLeads
    <3>3. Common(p, q, Len(p), Len(q)) => Common(p, q, 0, 0)
      <4>1. PICK i \in 0 .. Len(p), j \in 0 .. Len(q) :
                /\ <<Len(p), Len(q)>> = <<i, j>>
                /\ Common(p, q, i, j) => Common(p, q, 0, 0)
        BY <3>2 DEF Leads
      <4>2. i = Len(p) /\ j = Len(q)
        BY <4>1
      <4> QED BY <4>1, <4>2
    <3>4. Common(p, q, Len(p), Len(q))
      <4>1. PICK G : GlobOf(G, p, <<>>)
        BY <3>0, GlobOfExists
      <4>2. PICK F : GlobOf(F, q, <<>>)
        BY <3>0, GlobOfExists
      <4>3. 0 \in 0 .. Len(<<>>) /\ Len(p) \in 0 .. Len(p) /\ Len(q) \in 0 .. Len(q)
        BY <3>0
      <4>4. Matches(G, Len(p), 0) /\ Matches(F, Len(q), 0)
        BY <3>0, <4>1, <4>2, <4>3 DEF GlobOf, GlobRule
      <4> QED BY <3>0, <4>1, <4>2, <4>4 DEF Common
    <3>5x. PICK x \in Names : \E G, F :
             GlobOf(G, p, x) /\ GlobOf(F, q, x) /\ Matches(G, 0, 0) /\ Matches(F, 0, 0)
      BY <3>3, <3>4 DEF Common
    <3>5. PICK G, F : GlobOf(G, p, x) /\ GlobOf(F, q, x) /\ Matches(G, 0, 0) /\ Matches(F, 0, 0)
      BY <3>5x
    <3> QED BY <3>5 DEF GlobOf
  <2> QED BY <2>1, <2>2, <2>3
<1> QED BY <1>1, <1>2

-----------------------------------------------------------------------------
(* The owner of a task *)

\* Owner is the first action that matches, in a project the polls look at.
LEMMA FirstMatchOwns ==
    ASSUME NEW actions \in Seq(Entries), NEW status, NEW p \in Projects,
           NEW i \in 1 .. Len(actions), MatchesAction(actions[i], status, p)
    PROVE  /\ Owner(actions, status, p) \in 1 .. i
           /\ MatchesAction(actions[Owner(actions, status, p)], status, p)
<1> DEFINE I == {k \in 1 .. Len(actions) : MatchesAction(actions[k], status, p)}
           Least(n) == n \in I /\ \A m \in I : n <= m
<1>1. p \in Scope(actions)
  BY DEF Scope, MatchesAction
<1>2. I \in SUBSET Nat /\ i \in I
  OBVIOUS
<1>3. Owner(actions, status, p) = CHOOSE n \in I : \A m \in I : n <= m
  <2> HIDE DEF I
  <2>1. Owner(actions, status, p) = IF I # {} THEN Min(I) ELSE 0
    BY <1>1 DEF Owner, SelectInSeq, I
  <2> QED BY <1>2, <2>1 DEF Min
<1>4. Owner(actions, status, p) \in I /\ \A m \in I : Owner(actions, status, p) <= m
  <2>1. \E n \in I : \A m \in I : n <= m
    <3> HIDE DEF I
    <3> QED BY <1>2, LeastNat
  <2> HIDE DEF I
  <2> QED BY <1>3, <2>1
<1>5. Owner(actions, status, p) <= i
  <2> HIDE DEF I
  <2> QED BY <1>2, <1>4
<1> QED BY <1>4, <1>5

-----------------------------------------------------------------------------
(* The live configuration *)

\* What is known before the file is read.
LEMMA MissingIsKnown == Missing \in Contents /\ Idle \in [at : {"idle"}, content : Contents]
BY ManagerAssumption DEF Idle

\* The types hold at startup.
LEMMA InitTypes == Init => TypeOK
<1> SUFFICES ASSUME Init PROVE TypeOK
  OBVIOUS
<1>1. reading \in [at : {"idle", "started", "read", "failed"}, content : Contents]
  BY MissingIsKnown DEF Init, Idle
<1>2. changes \in 0 .. MaxChanges /\ faults \in 0 .. MaxFaults
  BY ManagerAssumption DEF Init
<1> QED BY <1>1, <1>2, MissingIsKnown DEF Init, TypeOK

\* Whatever is live is the empty configuration, or of a file that was accepted.
LEMMA UseTypes ==
    ASSUME TypeOK, Use
    PROVE  /\ config' = Parsed(Missing) \/ \E c \in Contents : config' = Parsed(c) /\ Valid(c)
           /\ lastContent' \in Contents
<1>1. reading.content \in Contents
  BY DEF TypeOK
<1>2. config' = config \/ (config' = Parsed(reading.content) /\ Valid(reading.content))
  BY DEF Use
<1>3. lastContent' \in Contents
  BY <1>1 DEF Use, TypeOK
<1> QED BY <1>1, <1>2, <1>3 DEF TypeOK

\* Every step keeps the types.
LEMMA StepTypes == TypeOK /\ [Next]_vars => TypeOK'
<1> SUFFICES ASSUME TypeOK, [Next]_vars PROVE TypeOK'
  OBVIOUS
<1> USE MissingIsKnown, ManagerAssumption
<1>1. CASE Load
  <2>1. file = Missing => Parsed(file) = Parsed(Missing)
    OBVIOUS
  <2>2. config' = Parsed(Missing) \/ \E c \in Contents : config' = Parsed(c) /\ Valid(c)
    BY <1>1, <2>1 DEF Load, TypeOK
  <2> QED BY <1>1, <2>2 DEF Load, TypeOK, history, bounds
<1>2. CASE Watch
  BY <1>2 DEF Watch, TypeOK, bounds
<1>3. CASE Notice
  BY <1>3 DEF Notice, TypeOK, history, bounds
<1>4. CASE Read
  BY <1>4 DEF Read, TypeOK, history, bounds
<1>5. CASE ReadFails
  BY <1>5 DEF ReadFails, TypeOK, history
<1>6. CASE ReloadEnds
  <2>1. reading' \in [at : {"idle", "started", "read", "failed"}, content : Contents]
    BY <1>6 DEF ReloadEnds, Idle
  <2> QED BY <1>6, <2>1, UseTypes DEF ReloadEnds, TypeOK, bounds
<1>7. CASE Change
  BY <1>7 DEF Change, TypeOK, history
<1>8. CASE UNCHANGED vars
  BY <1>8 DEF vars, TypeOK, history, bounds
<1> QED BY <1>1, <1>2, <1>3, <1>4, <1>5, <1>6, <1>7, <1>8 DEF Next

\* In every reachable state each variable has its type, and the live configuration is
\* the empty one or that of a file parseAgentActions accepted.
THEOREM TypeCorrect == Spec => []TypeOK
<1>1. Init => TypeOK
  BY InitTypes
<1>2. TypeOK /\ [Next]_vars => TypeOK'
  BY StepTypes
<1> QED BY <1>1, <1>2, PTL DEF Spec

\* What TypeOK says about the actions that are live.
LEMMA LiveActions ==
    ASSUME TypeOK
    PROVE  /\ config \in Seq(Entries)
           /\ \A j \in 1 .. Len(config) : \A i \in 1 .. j - 1 :
                ~Competes(config[i], config[j])
<1>1. CASE config = Parsed(Missing)
  <2>1. config = <<>>
    BY <1>1 DEF Parsed, Missing, File
  <2> QED BY <2>1
<1>2. CASE \E c \in Contents : config = Parsed(c) /\ Valid(c)
  <2>1. PICK c \in Contents : config = Parsed(c) /\ Valid(c)
    BY <1>2
  <2>2. config = c.actions /\ c.actions \in Seq(Entries)
    BY <2>1, ManagerAssumption DEF Parsed, Files
  <2> QED BY <2>1, <2>2 DEF Valid
<1> QED BY <1>1, <1>2 DEF TypeOK

\* The first action that matches a task of a comments action is a comments action:
\* another one before it would overlap with it, and the file would have been refused.
LEMMA ConversationsOwned == TypeOK => ConversationsHeard
<1> SUFFICES ASSUME TypeOK, NEW p \in Projects, NEW i \in 1 .. Len(config),
                    config[i].trigger = "comments",
                    Glob(config[i].project, p)
             PROVE  LET owner == Owner(config, config[i].start, p)
                    IN owner # 0 /\ config[owner].trigger = "comments"
  BY DEF ConversationsHeard
<1> DEFINE actions == config
           owner == Owner(actions, actions[i].start, p)
<1>1. /\ actions \in Seq(Entries)
      /\ \A k \in 1 .. i - 1 : ~Competes(actions[k], actions[i])
      /\ i \in 1 .. Len(actions)
  BY LiveActions
<1>2. ASSUME NEW k \in 1 .. Len(actions) PROVE actions[k].project \in Names
  <2>1. actions[k] \in Entries
    <3> HIDE DEF actions
    <3> QED BY <1>1
  <2> QED BY <2>1 DEF Entries
<1>3. p \in Names
  BY ProjectsAssumption
<1>4. MatchesAction(actions[i], actions[i].start, p)
  BY <1>2, <1>3, ScanMatchesGlob DEF MatchesAction
<1>5. owner \in 1 .. i /\ MatchesAction(actions[owner], actions[i].start, p)
  <2> HIDE DEF actions
  <2> QED BY <1>1, <1>4, FirstMatchOwns
<1>6. CASE owner = i
  BY <1>5, <1>6
<1>7. CASE owner # i
  <2> HIDE DEF owner
  <2>1. owner \in 1 .. i - 1 /\ owner \in 1 .. Len(actions)
    BY <1>1, <1>5, <1>7
  <2>2. actions[owner].start = actions[i].start /\ Glob(actions[owner].project, p)
    BY <1>2, <1>3, <1>5, <2>1, ScanMatchesGlob DEF MatchesAction
  <2>3. ProjectPatternsMayOverlap(actions[owner].project, actions[i].project)
    BY <1>2, <1>3, <2>1, <2>2, OverlapsAreFound
  <2>4. actions[owner].trigger = "comments"
    BY <1>1, <2>1, <2>2, <2>3 DEF Competes
  <2> QED BY <2>1, <2>4 DEF owner
<1> QED BY <1>6, <1>7

\* Whatever the files, their order, their patterns and the reloads: no task a comments
\* action applies to is taken over by an action of another trigger (AgentActions.ts:441).
THEOREM ConversationsAreHeard == Spec => []ConversationsHeard
<1>1. TypeOK => ConversationsHeard
  BY ConversationsOwned
<1> QED BY <1>1, TypeCorrect, PTL
=============================================================================
