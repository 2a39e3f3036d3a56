------------------------- MODULE QueryEngine_proofs -------------------------
(***************************************************************************)
(* For any number of queries, sources, contents and any sizes: nobody uses *)
(* a table that was closed or is another configuration's, the byte count   *)
(* and the use counts are exact, a load evicts the oldest idle tables and  *)
(* no more than it has to, and the engine with its cache implements        *)
(* DirectQuery.                                                            *)
(***************************************************************************)
EXTENDS QueryEngine, FiniteSetTheorems, TLAPS

-----------------------------------------------------------------------------
(* Sums over finite sets.  Bytes is a fold, and the laws of a fold are proved *)
(* by induction; here that is done with smallest counterexamples.             *)

\* Of the sets of a finite set that are bad, some have only good proper subsets.
LEMMA SmallestSet ==
  ASSUME NEW T, IsFiniteSet(T), NEW B \in SUBSET SUBSET T, B # {}
  PROVE  \E m \in B : \A s \in B : s \subseteq m => s = m
<1> DEFINE R == OpToRel(<, Nat)
           Sizes == {Cardinality(s) : s \in B}
<1>1. \A s \in B : IsFiniteSet(s) /\ Cardinality(s) \in Nat
  BY FS_Subset, FS_CardinalityType
<1>2. Sizes \subseteq Nat /\ Sizes # {}
  BY <1>1
<1>3. PICK n \in Sizes : \A k \in Sizes : <<k, n>> \notin R
  <2> HIDE DEF R, Sizes
  <2>1. IsWellFoundedOn(R, Nat)
    BY NatLessThanWellFounded DEF R
  <2> QED BY <2>1, <1>2, WFMin
<1>4. PICK m \in B : Cardinality(m) = n
  BY <1>3
<1>5. ASSUME NEW s \in B, s \subseteq m PROVE s = m
  <2>1. Cardinality(s) <= Cardinality(m) /\ (Cardinality(m) = Cardinality(s) => m = s)
    BY <1>1, <1>5, FS_Subset
  <2>2. ~(Cardinality(s) < Cardinality(m))
    BY <1>1, <1>3, <1>4, <1>5 DEF OpToRel
  <2> QED BY <1>1, <2>1, <2>2
<1> QED BY <1>5

\* g adds up the weights w on the subsets of T in the order of CHOOSE.
First(s) == CHOOSE x \in s : TRUE
Adds(g, w, T) == g = [s \in SUBSET T |-> IF s = {} THEN 0
                                         ELSE w[First(s)] + g[s \ {First(s)}]]

\* g is the sum of the weights w on the subsets of T, in whatever order.
IsSum(g, w, T) == /\ g \in [SUBSET T -> Nat]
                  /\ g[{}] = 0
                  /\ \A s \in SUBSET T : \A x \in s : g[s] = w[x] + g[s \ {x}]

LEMMA FirstIn == \A s : s # {} => First(s) \in s
BY DEF First

\* The recursion defines a function.
LEMMA AddsExists ==
  ASSUME NEW T, IsFiniteSet(T), NEW w
  PROVE  \E g : Adds(g, w, T)
<1> DEFINE Small(n) == {s \in SUBSET T : Cardinality(s) <= n}
           Part(g, n) == g = [s \in Small(n) |-> IF s = {} THEN 0
                                                 ELSE w[First(s)] + g[s \ {First(s)}]]
           Bad == {n \in Nat : ~\E g : Part(g, n)}
<1>1. \A s \in SUBSET T : IsFiniteSet(s) /\ Cardinality(s) \in Nat
  BY FS_Subset, FS_CardinalityType
<1>2. \A s \in SUBSET T : s # {} => /\ s \ {First(s)} \in SUBSET T
                                    /\ Cardinality(s \ {First(s)}) = Cardinality(s) - 1
  BY <1>1, FirstIn, FS_RemoveElement
<1>3. Bad = {}
  <2> SUFFICES ASSUME Bad # {} PROVE FALSE
    OBVIOUS
  <2>1. PICK n \in Bad : \A k \in Bad : <<k, n>> \notin OpToRel(<, Nat)
    <3> HIDE DEF Bad
    <3>1. Bad \subseteq Nat
      BY DEF Bad
    <3> QED BY <3>1, NatLessThanWellFounded, WFMin
  <2>2. n \in Nat /\ \A k \in Bad : ~(k < n)
    BY <2>1 DEF OpToRel
  <2>3. CASE n = 0
    <3>1. \A s \in Small(0) : s = {}
      BY <1>1, FS_EmptySet
    <3>2. Part([s \in Small(0) |-> 0], 0)
      BY <3>1
    <3> QED BY <2>1, <2>3, <3>2
  <2>4. CASE n # 0
    <3>1. n - 1 \in Nat /\ n - 1 \notin Bad
      <4> HIDE DEF Bad
      <4>1. n - 1 \in Nat /\ n - 1 < n
        BY <2>2, <2>4
      <4> QED BY <2>2, <4>1
    <3>2. PICK g : Part(g, n - 1)
      BY <3>1
    <3> DEFINE k == [s \in Small(n) |-> IF s = {} THEN 0 ELSE w[First(s)] + g[s \ {First(s)}]]
    <3>3. ASSUME NEW s \in Small(n), s # {}
          PROVE  k[s \ {First(s)}] = g[s \ {First(s)}]
      <4>1. s \ {First(s)} \in Small(n - 1) /\ s \ {First(s)} \in Small(n)
        BY <1>1, <1>2, <2>2, <3>3
      <4> QED BY <4>1, <3>2
    <3>4. Part(k, n)
      BY <3>3
    <3> QED BY <2>1, <3>4
  <2> QED BY <2>3, <2>4
<1>4. Cardinality(T) \in Nat /\ Cardinality(T) \notin Bad
  BY <1>3, FS_CardinalityType
<1>5. PICK g : Part(g, Cardinality(T))
  BY <1>4
<1>6. Small(Cardinality(T)) = SUBSET T
  BY FS_Subset
<1>7. Adds(g, w, T)
  BY <1>5, <1>6 DEF Adds
<1> QED BY <1>7

\* What the recursion adds up does not depend on the order.
LEMMA AddsIsSum ==
  ASSUME NEW T, IsFiniteSet(T), NEW w \in [T -> Nat], NEW g, Adds(g, w, T)
  PROVE  IsSum(g, w, T)
<1>1. /\ DOMAIN g = SUBSET T
      /\ \A s \in SUBSET T : g[s] = IF s = {} THEN 0 ELSE w[First(s)] + g[s \ {First(s)}]
  BY DEF Adds
<1>2. \A s \in SUBSET T : g[s] \in Nat
  <2> DEFINE Bad == {s \in SUBSET T : g[s] \notin Nat}
  <2> SUFFICES ASSUME Bad # {} PROVE FALSE
    OBVIOUS
  <2>1. PICK s \in Bad : \A r \in Bad : r \subseteq s => r = s
    <3>1. Bad \in SUBSET SUBSET T
      OBVIOUS
    <3> HIDE DEF Bad
    <3> QED BY <3>1, SmallestSet
  <2>2. s # {} /\ First(s) \in s
    BY <1>1, FirstIn
  <2>3. s \ {First(s)} \notin Bad
    BY <2>1, <2>2
  <2> QED BY <1>1, <2>2, <2>3
<1>3. \A s \in SUBSET T : \A x \in s : g[s] = w[x] + g[s \ {x}]
  <2> DEFINE Bad == {s \in SUBSET T : \E x \in s : g[s] # w[x] + g[s \ {x}]}
  <2> SUFFICES ASSUME Bad # {} PROVE FALSE
    OBVIOUS
  <2>1. PICK s \in Bad : \A r \in Bad : r \subseteq s => r = s
    <3>1. Bad \in SUBSET SUBSET T
      OBVIOUS
    <3> HIDE DEF Bad
    <3> QED BY <3>1, SmallestSet
  <2>2. PICK x \in s : g[s] # w[x] + g[s \ {x}]
    BY <2>1
  <2>3. PICK y \in s : y = First(s) /\ g[s] = w[y] + g[s \ {y}]
    BY <1>1, <2>2, FirstIn
  <2>4. x # y
    BY <2>2, <2>3
  <2>5. /\ s \ {y} \in SUBSET T /\ s \ {x} \in SUBSET T
        /\ s \ {y} \notin Bad /\ s \ {x} \notin Bad
    <3>1. s \in SUBSET T
      BY <2>1
    <3>2. \A z \in s : s \ {z} \notin Bad
      <4> HIDE DEF Bad
      <4> QED BY <2>1
    <3> QED BY <2>2, <2>3, <3>1, <3>2
  <2>6. g[s \ {y}] = w[x] + g[(s \ {y}) \ {x}] /\ g[s \ {x}] = w[y] + g[(s \ {x}) \ {y}]
    BY <2>2, <2>3, <2>4, <2>5
  <2>7. (s \ {y}) \ {x} = (s \ {x}) \ {y}
    OBVIOUS
  <2>8. PICK n \in Nat : n = g[(s \ {x}) \ {y}]
    BY <1>2
  <2>9. w[x] \in Nat /\ w[y] \in Nat
    BY <2>1, <2>2, <2>3
  <2>10. g[s] = w[y] + (w[x] + n)
    BY <2>3, <2>6, <2>7, <2>8
  <2>11. w[x] + g[s \ {x}] = w[x] + (w[y] + n)
    BY <2>6, <2>8
  <2>12. w[y] + (w[x] + n) = w[x] + (w[y] + n)
    BY <2>8, <2>9
  <2> QED BY <2>2, <2>10, <2>11, <2>12
<1>4. g \in [SUBSET T -> Nat]
  BY <1>2 DEF Adds
<1>5. g[{}] = 0
  BY <1>1
<1> QED BY <1>3, <1>4, <1>5 DEF IsSum

\* Sums of disjoint sets add up.
Additive(g, T) == \A s, t \in SUBSET T : s \cap t = {} => g[s \cup t] = g[s] + g[t]

LEMMA SumUnion ==
  ASSUME NEW T, IsFiniteSet(T), NEW w \in [T -> Nat], NEW g, IsSum(g, w, T)
  PROVE  Additive(g, T)
<1> SUFFICES ASSUME NEW s \in SUBSET T, NEW t \in SUBSET T, s \cap t = {}
             PROVE  g[s \cup t] = g[s] + g[t]
  BY DEF Additive
<1> DEFINE Bad == {r \in SUBSET t : g[s \cup r] # g[s] + g[r]}
<1>1. SUFFICES Bad = {}
  OBVIOUS
<1>2. SUFFICES ASSUME Bad # {} PROVE FALSE
  OBVIOUS
<1>3. PICK r \in Bad : \A q \in Bad : q \subseteq r => q = r
  <2>1. IsFiniteSet(t) /\ Bad \in SUBSET SUBSET t
    BY FS_Subset
  <2> HIDE DEF Bad
  <2> QED BY <1>2, <2>1, SmallestSet
<1>4. \A q \in SUBSET T : g[q] \in Nat
  BY DEF IsSum
<1>5. CASE r = {}
  BY <1>3, <1>4, <1>5 DEF IsSum
<1>6. CASE r # {}
  <2>1. PICK x \in r : TRUE
    BY <1>6
  <2>2. r \ {x} \notin Bad
    BY <1>3, <2>1
  <2>3. g[s \cup (r \ {x})] = g[s] + g[r \ {x}]
    BY <2>2
  <2>4. (s \cup r) \ {x} = s \cup (r \ {x})
    BY <2>1
  <2>5. g[s \cup r] = w[x] + g[s \cup (r \ {x})] /\ g[r] = w[x] + g[r \ {x}]
    BY <2>1, <2>4 DEF IsSum
  <2>6. w[x] \in Nat /\ g[s] \in Nat /\ g[r \ {x}] \in Nat
    BY <1>4, <2>1
  <2> QED BY <1>3, <2>3, <2>5, <2>6
<1> QED BY <1>5, <1>6

\* A set contributes no more than a larger one, and taking it away takes its sum.
LEMMA SumMinus ==
  ASSUME NEW T, IsFiniteSet(T), NEW w \in [T -> Nat], NEW g, IsSum(g, w, T)
  PROVE  \A t \in SUBSET T : \A s \in SUBSET t :
           g[t \ s] = g[t] - g[s] /\ g[s] <= g[t]
<1> SUFFICES ASSUME NEW t \in SUBSET T, NEW s \in SUBSET t
             PROVE  g[t \ s] = g[t] - g[s] /\ g[s] <= g[t]
  OBVIOUS
<1>1. PICK u \in SUBSET T : u = t \ s
  OBVIOUS
<1>2. s \in SUBSET T /\ s \cap u = {} /\ s \cup u = t
  BY <1>1
<1>3. g[s] \in Nat /\ g[t] \in Nat /\ g[u] \in Nat
  BY <1>1, <1>2 DEF IsSum
<1>4. g[s \cup u] = g[s] + g[u]
  <2>1. Additive(g, T)
    BY SumUnion
  <2> QED BY <1>1, <1>2, <2>1 DEF Additive
<1>5. g[t] = g[s] + g[u]
  BY <1>2, <1>4
<1>6. g[u] = g[t] - g[s] /\ g[s] <= g[t]
  BY <1>3, <1>5
<1> QED BY <1>1, <1>3, <1>6

\* Two recursions over the same weights agree wherever both are defined.
LEMMA AddsUnique ==
  ASSUME NEW T, IsFiniteSet(T), NEW w, NEW g, Adds(g, w, T),
         NEW s \in SUBSET T, NEW v, NEW k, Adds(k, v, s), \A i \in s : v[i] = w[i]
  PROVE  k[s] = g[s]
<1> DEFINE Bad == {r \in SUBSET s : k[r] # g[r]}
<1> SUFFICES ASSUME Bad # {} PROVE FALSE
  OBVIOUS
<1>1. PICK r \in Bad : \A q \in Bad : q \subseteq r => q = r
  <2>1. IsFiniteSet(s) /\ Bad \in SUBSET SUBSET s
    BY FS_Subset
  <2> HIDE DEF Bad
  <2> QED BY <2>1, SmallestSet
<1>2. r \in SUBSET s /\ r \in SUBSET T /\ k[r] # g[r]
  BY <1>1
<1>3. /\ k[r] = IF r = {} THEN 0 ELSE v[First(r)] + k[r \ {First(r)}]
      /\ g[r] = IF r = {} THEN 0 ELSE w[First(r)] + g[r \ {First(r)}]
  <2>1. \A q \in SUBSET s : k[q] = IF q = {} THEN 0 ELSE v[First(q)] + k[q \ {First(q)}]
    BY DEF Adds
  <2>2. \A q \in SUBSET T : g[q] = IF q = {} THEN 0 ELSE w[First(q)] + g[q \ {First(q)}]
    BY DEF Adds
  <2> QED BY <1>2, <2>1, <2>2
<1>4. r # {}
  BY <1>2, <1>3
<1>5. PICK x \in r : x = First(r)
  BY <1>4, FirstIn
<1>6. r \ {x} \in SUBSET s /\ r \ {x} \notin Bad
  <2>1. r \ {x} \in SUBSET s /\ r \ {x} \subseteq r /\ r \ {x} # r
    BY <1>2, <1>5
  <2> HIDE DEF Bad
  <2> QED BY <1>1, <2>1
<1>7. k[r \ {x}] = g[r \ {x}] /\ v[x] = w[x]
  BY <1>2, <1>5, <1>6
<1> QED BY <1>2, <1>3, <1>4, <1>5, <1>7

\* The bytes of S when the tables are tab.
BytesOf(tab, S) == MapThenSumSet(LAMBDA i : Size[tab[i].data], S)

LEMMA BytesAre ==
  ASSUME NEW tab, NEW T, IsFiniteSet(T), NEW w \in [T -> Nat],
         \A i \in T : w[i] = Size[tab[i].data]
  PROVE  \E g : IsSum(g, w, T) /\ \A s \in SUBSET T : BytesOf(tab, s) = g[s]
<1>1. PICK g : Adds(g, w, T)
  BY AddsExists
<1>2. IsSum(g, w, T)
  BY <1>1, AddsIsSum
<1>3. ASSUME NEW s \in SUBSET T
      PROVE  BytesOf(tab, s) = g[s]
  <2> DEFINE Raw(k) == k = [r \in SUBSET s |-> IF r = {} THEN 0
                              ELSE Size[tab[First(r)].data] + k[r \ {First(r)}]]
  <2>1. BytesOf(tab, s) = (CHOOSE k : Raw(k))[s]
    BY DEF BytesOf, MapThenSumSet, MapThenFoldSet, First
  <2>2. PICK k0 : Adds(k0, w, s)
    BY AddsExists, FS_Subset
  <2>3. Raw(k0)
    <3>1. \A r \in SUBSET s : r # {} => w[First(r)] = Size[tab[First(r)].data]
      BY FirstIn
    <3> QED BY <2>2, <3>1 DEF Adds
  <2>4. PICK k : Raw(k) /\ BytesOf(tab, s) = k[s]
    <3> HIDE DEF Raw
    <3> QED BY <2>1, <2>3
  <2>5. Adds(k, w, s)
    <3>1. \A r \in SUBSET s : r # {} => w[First(r)] = Size[tab[First(r)].data]
      BY FirstIn
    <3> QED BY <2>4, <3>1 DEF Adds
  <2> QED BY <1>1, <2>4, <2>5, AddsUnique
<1> QED BY <1>2, <1>3

\* The laws of bytes.
LEMMA BytesLaws ==
  ASSUME NEW tab, NEW T, IsFiniteSet(T), \A i \in T : Size[tab[i].data] \in Nat
  PROVE  /\ BytesOf(tab, {}) = 0
         /\ \A s \in SUBSET T : BytesOf(tab, s) \in Nat
         /\ \A i \in T : BytesOf(tab, {i}) = Size[tab[i].data]
         /\ \A s, t \in SUBSET T :
              s \cap t = {} => BytesOf(tab, s \cup t) = BytesOf(tab, s) + BytesOf(tab, t)
         /\ \A t \in SUBSET T : \A s \in SUBSET t :
              /\ BytesOf(tab, t \ s) = BytesOf(tab, t) - BytesOf(tab, s)
              /\ BytesOf(tab, s) <= BytesOf(tab, t)
<1>1. PICK w \in [T -> Nat] : \A i \in T : w[i] = Size[tab[i].data]
  <2>1. [i \in T |-> Size[tab[i].data]] \in [T -> Nat]
    OBVIOUS
  <2> QED BY <2>1
<1>2. PICK g : IsSum(g, w, T) /\ \A s \in SUBSET T : BytesOf(tab, s) = g[s]
  BY <1>1, BytesAre
<1>3. BytesOf(tab, {}) = 0 /\ \A s \in SUBSET T : BytesOf(tab, s) \in Nat
  BY <1>2 DEF IsSum
<1>4. ASSUME NEW i \in T PROVE BytesOf(tab, {i}) = Size[tab[i].data]
  <2>1. {i} \in SUBSET T /\ {i} \ {i} = {}
    OBVIOUS
  <2>2. g[{i}] = w[i] + g[{}] /\ g[{}] = 0 /\ w[i] \in Nat
    BY <1>1, <1>2, <2>1 DEF IsSum
  <2> QED BY <1>1, <1>2, <2>1, <2>2
<1>5. ASSUME NEW s \in SUBSET T, NEW t \in SUBSET T, s \cap t = {}
      PROVE  BytesOf(tab, s \cup t) = BytesOf(tab, s) + BytesOf(tab, t)
  <2>1. Additive(g, T)
    BY <1>2, SumUnion
  <2>2. s \cup t \in SUBSET T
    OBVIOUS
  <2>3. g[s \cup t] = g[s] + g[t]
    BY <1>5, <2>1 DEF Additive
  <2> QED BY <1>2, <2>2, <2>3
<1>6. ASSUME NEW t \in SUBSET T, NEW s \in SUBSET t
      PROVE  /\ BytesOf(tab, t \ s) = BytesOf(tab, t) - BytesOf(tab, s)
             /\ BytesOf(tab, s) <= BytesOf(tab, t)
  <2>1. \A x \in SUBSET T : \A y \in SUBSET x :
          g[x \ y] = g[x] - g[y] /\ g[y] <= g[x]
    BY <1>2, SumMinus
  <2>2. t \ s \in SUBSET T /\ s \in SUBSET T
    OBVIOUS
  <2> QED BY <1>2, <2>1, <2>2
<1> QED BY <1>3, <1>4, <1>5, <1>6

\* They depend only on what the tables hold.
LEMMA BytesSame ==
  ASSUME NEW tab, NEW new, NEW T, IsFiniteSet(T), \A i \in T : Size[tab[i].data] \in Nat,
         \A i \in T : new[i].data = tab[i].data
  PROVE  BytesOf(new, T) = BytesOf(tab, T)
<1>1. PICK w \in [T -> Nat] : \A i \in T : w[i] = Size[tab[i].data]
  <2>1. [i \in T |-> Size[tab[i].data]] \in [T -> Nat]
    OBVIOUS
  <2> QED BY <2>1
<1>2. \A i \in T : w[i] = Size[new[i].data]
  BY <1>1
<1>3. PICK g : IsSum(g, w, T) /\ \A s \in SUBSET T : BytesOf(tab, s) = g[s]
  BY <1>1, BytesAre
<1>4. PICK k : IsSum(k, w, T) /\ \A s \in SUBSET T : BytesOf(new, s) = k[s]
  BY <1>1, <1>2, BytesAre
<1>5. \A s \in SUBSET T : g[s] = k[s]
  <2> DEFINE Bad == {s \in SUBSET T : g[s] # k[s]}
  <2> SUFFICES ASSUME Bad # {} PROVE FALSE
    OBVIOUS
  <2>1. PICK s \in Bad : \A r \in Bad : r \subseteq s => r = s
    <3>1. Bad \in SUBSET SUBSET T
      OBVIOUS
    <3> HIDE DEF Bad
    <3> QED BY <3>1, SmallestSet
  <2>2. PICK x \in s : TRUE
    BY <1>3, <1>4, <2>1 DEF IsSum
  <2>3. s \in SUBSET T /\ s \ {x} \notin Bad
    <3>1. s \ {x} \subseteq s /\ s \ {x} # s
      BY <2>2
    <3>2. s \in SUBSET T
      BY <2>1
    <3> HIDE DEF Bad
    <3> QED BY <2>1, <3>1, <3>2
  <2>4. g[s \ {x}] = k[s \ {x}]
    BY <2>3
  <2>5. g[s] = w[x] + g[s \ {x}] /\ k[s] = w[x] + k[s \ {x}]
    BY <1>3, <1>4, <2>2, <2>3 DEF IsSum
  <2> QED BY <2>1, <2>4, <2>5
<1> QED BY <1>3, <1>4, <1>5

-----------------------------------------------------------------------------
(* The handlers and the tables.                                              *)

USE QueryEngineAssumption

\* What a query's handler holds at each step.
SoundQuery == {r \in Query :
  /\ r.pc \notin {"idle", "refused"} => r.source \in Sources
  /\ r.pc \in {"authorised", "located", "read", "downloaded", "waiting", "using", "answered"}
       => r.version > 0
  /\ r.version > 0 => r.source \in Sources /\ r.owner \in Owners
  /\ r.pc \in {"located", "read", "downloaded", "waiting", "using", "answered"}
       => r.at \in Buckets
  /\ r.pc \in {"read", "downloaded", "waiting", "using"} => r.etag \in Contents
  /\ r.pc \in {"downloaded", "waiting", "using"} => r.data = r.etag
  /\ r.pc \in {"waiting", "using"} => r.table \in Tables}

\* A table holds the content that its key names.
SoundTable == {t \in Table : t.data = t.etag /\ t.version > 0}

Forms == /\ config \in [Sources -> Config]
         /\ file \in [Buckets -> Contents]
         /\ h \in [Queries -> SoundQuery]
         /\ table \in [Tables -> SoundTable \cup {NoTable}]

\* Whoever waits for a table or uses it has found it under its own key.
Linked == \A q \in Queries : h[q].pc \in {"waiting", "using"} =>
  /\ table[h[q].table].state = IF h[q].pc = "waiting" THEN "loading" ELSE "cached"
  /\ table[h[q].table].source = h[q].source
  /\ table[h[q].table].etag = h[q].etag
  /\ table[h[q].table].version = h[q].version

Users(i) == {q \in Queries : h[q].pc = "using" /\ h[q].table = i}
Counted == \A i \in CachedTables : table[i].uses = Cardinality(Users(i))

\* Somebody holds that version v of s filters by o.
Claimed(s, v, o) ==
  \/ \E q \in Queries : h[q].version = v /\ h[q].source = s /\ h[q].owner = o
  \/ \E i \in Tables : table[i].version = v /\ table[i].source = s /\ table[i].owner = o

\* All have it from the configuration, which counts up and never comes back.
Past == \A s \in Sources, v \in Versions \ {0}, o \in Owners : Claimed(s, v, o) =>
  \/ config[s].version = 0
  \/ v < config[s].version
  \/ v = config[s].version /\ o = config[s].owner
Agreed == \A s \in Sources, v \in Versions \ {0}, o, p \in Owners :
            Claimed(s, v, o) /\ Claimed(s, v, p) => o = p

IInv == Forms /\ Linked /\ Counted /\ Past /\ Agreed

LEMMA Forms_empty ==
  /\ NoQuery \in SoundQuery /\ [NoQuery EXCEPT !.pc = "refused"] \in SoundQuery
  /\ NoQuery.pc = "idle" /\ NoQuery.version = 0
  /\ NoTable.state = "none" /\ NoTable.version = 0
  /\ \A t \in SoundTable : t.state \in {"loading", "cached"}
  /\ \A t \in SoundTable : t.uses \in Nat /\ t.data = t.etag
BY DEF NoQuery, NoTable, SoundQuery, SoundTable, Query, Table, Versions

\* What follows from the forms at once.
LEMMA Known ==
  ASSUME Forms
  PROVE  /\ \A q \in Queries : h[q] \in SoundQuery
         /\ \A i \in Tables : table[i] \in SoundTable \cup {NoTable}
         /\ \A i \in Tables : table[i].state # "none" => table[i] \in SoundTable
         /\ \A i \in CachedTables : i \in Tables /\ table[i] \in SoundTable
BY Forms_empty DEF Forms, CachedTables

\* A step adds no claim but what the configuration says.
NewClaims == \A s \in Sources, v \in Versions \ {0}, o \in Owners :
  Claimed(s, v, o)' => \/ Claimed(s, v, o)
                       \/ config[s].version = v /\ config[s].owner = o

LEMMA ClaimsKept ==
  ASSUME Past, Agreed, NewClaims, config' = config
  PROVE  Past' /\ Agreed'
<1>1. Past'
  <2> SUFFICES ASSUME NEW s \in Sources, NEW v \in Versions \ {0}, NEW o \in Owners,
                      Claimed(s, v, o)'
               PROVE  \/ config'[s].version = 0
                      \/ v < config'[s].version
                      \/ v = config'[s].version /\ o = config'[s].owner
    BY DEF Past
  <2> QED BY DEF Past, NewClaims
<1>2. Agreed'
  <2> SUFFICES ASSUME NEW s \in Sources, NEW v \in Versions \ {0},
                      NEW o \in Owners, NEW p \in Owners,
                      Claimed(s, v, o)', Claimed(s, v, p)'
               PROVE  o = p
    BY DEF Agreed
  <2>1. v # 0 /\ ~(v < v)
    BY DEF Versions
  <2>2. Claimed(s, v, o) \/ (config[s].version = v /\ config[s].owner = o)
    BY DEF NewClaims
  <2>3. Claimed(s, v, p) \/ (config[s].version = v /\ config[s].owner = p)
    BY DEF NewClaims
  <2>4. CASE Claimed(s, v, o) /\ Claimed(s, v, p)
    BY <2>4 DEF Agreed
  <2>5. CASE config[s].version = v
    <3>1. Claimed(s, v, o) => o = config[s].owner
      BY <2>1, <2>5 DEF Past
    <3>2. Claimed(s, v, p) => p = config[s].owner
      BY <2>1, <2>5 DEF Past
    <3> QED BY <2>2, <2>3, <3>1, <3>2
  <2> QED BY <2>2, <2>3, <2>4, <2>5
<1> QED BY <1>1, <1>2

\* The claims of a record that a handler goes on with.
Carries(q, r) == \/ r.version = 0
                 \/ r.version = h[q].version /\ r.source = h[q].source /\ r.owner = h[q].owner
                 \/ /\ r.version = config[r.source].version
                    /\ r.owner = config[r.source].owner

Goal == Forms' /\ Linked' /\ Counted' /\ NewClaims

\* A handler that takes no table and gives none back.
Alone(q, r) == /\ r \in SoundQuery /\ r.pc # "using" /\ h[q].pc # "using"
               /\ r.pc = "waiting" => /\ table[r.table].state = "loading"
                                      /\ table[r.table].source = r.source
                                      /\ table[r.table].etag = r.etag
                                      /\ table[r.table].version = r.version
               /\ Carries(q, r)
               /\ h' = [h EXCEPT ![q] = r]
               /\ UNCHANGED <<config, file, table>>

LEMMA AloneKeeps ==
  ASSUME IInv, NEW q \in Queries, NEW r, Alone(q, r)
  PROVE  Goal
<1> USE DEF IInv
<1>1. Forms'
  BY DEF Forms, Alone
<1>2. \A p \in Queries : h'[p] = IF p = q THEN r ELSE h[p]
  BY DEF Forms, Alone
<1>3. Linked'
  BY <1>2 DEF Alone, Linked
<1>4. Counted'
  <2>1. CachedTables' = CachedTables
    BY DEF Alone, CachedTables
  <2>2. ASSUME NEW i \in CachedTables PROVE Users(i)' = Users(i)
    BY <1>2 DEF Users, Alone
  <2> QED BY <2>1, <2>2 DEF Counted, Alone
<1>5. NewClaims
  BY <1>2 DEF NewClaims, Claimed, Alone, Carries
<1> QED BY <1>1, <1>3, <1>4, <1>5 DEF Goal

LEMMA Ask_keeps == ASSUME IInv, NEW q \in Queries, Ask(q) PROVE Goal
<1>1. PICK s \in Sources :
        h' = [h EXCEPT ![q] = [NoQuery EXCEPT !.pc = "asked", !.source = s]]
  BY DEF Ask
<1> DEFINE r == [NoQuery EXCEPT !.pc = "asked", !.source = s]
<1>2. r \in SoundQuery /\ r.version = 0
  <2>1. NoQuery \in Query
    BY Forms_empty DEF SoundQuery
  <2>2. r \in Query /\ r.pc = "asked" /\ r.source = s /\ r.version = 0
    BY <2>1 DEF NoQuery, Query
  <2> HIDE DEF r
  <2> QED BY <2>2 DEF SoundQuery
<1>3. Alone(q, r)
  BY <1>1, <1>2 DEF Ask, Alone, Carries, NoQuery
<1> QED BY <1>3, AloneKeeps

LEMMA Authorise_keeps == ASSUME IInv, NEW q \in Queries, Authorise(q) PROVE Goal
<1> DEFINE c == config[h[q].source]
           r == [h[q] EXCEPT !.pc = "authorised", !.version = c.version, !.owner = c.owner]
<1>1. h[q] \in SoundQuery /\ h[q].pc = "asked" /\ h[q].source \in Sources
  BY Known DEF IInv, Authorise, SoundQuery
<1>2. c \in Config /\ c.version > 0
  BY <1>1 DEF IInv, Forms, Authorise
<1>3. r \in SoundQuery
  BY <1>1, <1>2 DEF SoundQuery, Query, Config
<1>4. Alone(q, r)
  BY <1>1, <1>2, <1>3 DEF Authorise, Alone, Carries, SoundQuery, Query
<1> QED BY <1>4, AloneKeeps

LEMMA Locate_keeps == ASSUME IInv, NEW q \in Queries, Locate(q) PROVE Goal
<1> DEFINE c == config[h[q].source]
           r == [h[q] EXCEPT !.pc = "located", !.at = c.at]
<1>1. h[q] \in SoundQuery /\ h[q].pc = "authorised" /\ h[q].source \in Sources
  BY Known DEF IInv, Locate, SoundQuery
<1>2. c \in Config
  BY <1>1 DEF IInv, Forms
<1>3. r \in SoundQuery
  BY <1>1, <1>2 DEF SoundQuery, Query, Config
<1>4. Alone(q, r)
  BY <1>1, <1>3 DEF Locate, Alone, Carries, SoundQuery, Query
<1> QED BY <1>4, AloneKeeps

LEMMA ReadMetadata_keeps == ASSUME IInv, NEW q \in Queries, ReadMetadata(q) PROVE Goal
<1> DEFINE r == [h[q] EXCEPT !.pc = "read", !.etag = file[h[q].at]]
<1>1. h[q] \in SoundQuery /\ h[q].pc = "located" /\ h[q].at \in Buckets
  BY Known DEF IInv, ReadMetadata, SoundQuery
<1>2. file[h[q].at] \in Contents
  BY <1>1 DEF IInv, Forms
<1>3. r \in SoundQuery
  BY <1>1, <1>2 DEF SoundQuery, Query
<1>4. Alone(q, r)
  BY <1>1, <1>3 DEF ReadMetadata, Alone, Carries, SoundQuery, Query
<1> QED BY <1>4, AloneKeeps

LEMMA Download_keeps == ASSUME IInv, NEW q \in Queries, Download(q) PROVE Goal
<1> DEFINE r == [h[q] EXCEPT !.pc = "downloaded", !.data = h[q].etag]
<1>1. h[q] \in SoundQuery /\ h[q].pc = "read"
  BY Known DEF IInv, Download
<1>2. r \in SoundQuery
  BY <1>1 DEF SoundQuery, Query
<1>3. Alone(q, r)
  BY <1>1, <1>2 DEF Download, Alone, Carries, SoundQuery, Query
<1> QED BY <1>3, AloneKeeps

LEMMA Refuse_keeps == ASSUME IInv, NEW q \in Queries, Refuse(q) PROVE Goal
<1>1. Alone(q, [NoQuery EXCEPT !.pc = "refused"])
  BY Forms_empty DEF Refuse, Alone, Carries, NoQuery
<1> QED BY <1>1, AloneKeeps

LEMMA Leave_keeps == ASSUME IInv, NEW q \in Queries, Leave(q) PROVE Goal
<1>1. Alone(q, NoQuery)
  BY Forms_empty DEF Leave, Alone, Carries
<1> QED BY <1>1, AloneKeeps

LEMMA Join_keeps == ASSUME IInv, NEW q \in Queries, Join(q) PROVE Goal
<1>1. PICK i \in InFlight(q) :
        h' = [h EXCEPT ![q] = [h[q] EXCEPT !.pc = "waiting", !.table = i]]
  BY DEF Join
<1> DEFINE r == [h[q] EXCEPT !.pc = "waiting", !.table = i]
<1>2. h[q] \in SoundQuery /\ h[q].pc = "downloaded"
  BY Known DEF IInv, Join
<1>3. i \in Tables /\ table[i].state = "loading" /\ SameKey(q, i)
  BY <1>1 DEF InFlight
<1>4. r \in SoundQuery
  BY <1>2, <1>3 DEF SoundQuery, Query
<1>5. Alone(q, r)
  BY <1>1, <1>2, <1>3, <1>4 DEF Join, Alone, Carries, SameKey, SoundQuery, Query
<1> QED BY <1>5, AloneKeeps

\* The users of a table are finitely many.
LEMMA UsersFinite ==
  ASSUME NEW i
  PROVE  /\ IsFiniteSet(Users(i)) /\ Cardinality(Users(i)) \in Nat
         /\ IsFiniteSet(Waiters(i)) /\ Cardinality(Waiters(i)) \in Nat
         /\ Cardinality(Users(i)) = 0 => Users(i) = {}
<1>1. Users(i) \subseteq Queries /\ Waiters(i) \subseteq Queries
  BY DEF Users, Waiters
<1>2. IsFiniteSet(Users(i)) /\ IsFiniteSet(Waiters(i))
  BY <1>1, FS_Subset
<1> QED BY <1>2, FS_CardinalityType, FS_EmptySet

LEMMA Hit_keeps == ASSUME IInv, NEW q \in Queries, Hit(q) PROVE Goal
<1> USE DEF IInv
<1>1. PICK i \in Cached(q) :
        /\ h' = [h EXCEPT ![q] = [h[q] EXCEPT !.pc = "using", !.table = i]]
        /\ table' = [table EXCEPT ![i] = [table[i] EXCEPT !.uses = table[i].uses + 1]]
  BY DEF Hit
<1> DEFINE r == [h[q] EXCEPT !.pc = "using", !.table = i]
           t == [table[i] EXCEPT !.uses = table[i].uses + 1]
<1>2. h[q] \in SoundQuery /\ h[q].pc = "downloaded"
  BY Known DEF Hit
<1>3. i \in Tables /\ i \in CachedTables /\ SameKey(q, i)
  BY <1>1 DEF Cached, CachedTables
<1>4. table[i] \in SoundTable /\ table[i].state = "cached"
  BY <1>3, Known DEF CachedTables
<1>5. /\ r \in SoundQuery /\ r.pc = "using" /\ r.table = i
      /\ r.source = h[q].source /\ r.version = h[q].version
      /\ r.etag = h[q].etag /\ r.owner = h[q].owner
  BY <1>2, <1>3 DEF SoundQuery, Query
<1>6. /\ t \in SoundTable /\ t.state = "cached" /\ t.uses = table[i].uses + 1
      /\ t.source = table[i].source /\ t.version = table[i].version
      /\ t.etag = table[i].etag /\ t.owner = table[i].owner
  BY <1>4 DEF SoundTable, Table
<1>7. /\ \A p \in Queries : h'[p] = IF p = q THEN r ELSE h[p]
      /\ \A j \in Tables : table'[j] = IF j = i THEN t ELSE table[j]
  BY <1>1 DEF Forms
<1> HIDE DEF r, t
<1>8. Forms'
  <2>1. h' \in [Queries -> SoundQuery]
    BY <1>1, <1>5 DEF Forms, r
  <2>2. table' \in [Tables -> SoundTable \cup {NoTable}]
    BY <1>1, <1>6 DEF Forms, t
  <2> QED BY <2>1, <2>2 DEF Forms, Hit
<1>9. Linked'
  <2> SUFFICES ASSUME NEW p \in Queries, h'[p].pc \in {"waiting", "using"}
               PROVE  /\ table'[h'[p].table].state =
                           IF h'[p].pc = "waiting" THEN "loading" ELSE "cached"
                      /\ table'[h'[p].table].source = h'[p].source
                      /\ table'[h'[p].table].etag = h'[p].etag
                      /\ table'[h'[p].table].version = h'[p].version
    BY DEF Linked
  <2>1. CASE p = q
    BY <1>3, <1>5, <1>6, <1>7, <2>1 DEF SameKey
  <2>2. CASE p # q
    <3>1. h'[p] = h[p] /\ h[p].table \in Tables
      BY <1>7, <2>2, Known DEF SoundQuery
    <3> QED BY <1>4, <1>6, <1>7, <3>1 DEF Linked
  <2> QED BY <2>1, <2>2
<1>10. Counted'
  <2>1. CachedTables' = CachedTables
    BY <1>4, <1>6, <1>7 DEF CachedTables
  <2>2. q \notin Users(i) /\ Users(i)' = Users(i) \cup {q}
    BY <1>2, <1>5, <1>7 DEF Users
  <2>3. Cardinality(Users(i) \cup {q}) = Cardinality(Users(i)) + 1
    BY <2>2, UsersFinite, FS_AddElement
  <2>4. table'[i].uses = Cardinality(Users(i)')
    BY <1>3, <1>6, <1>7, <2>2, <2>3 DEF Counted
  <2>5. ASSUME NEW j \in CachedTables, j # i PROVE table'[j].uses = Cardinality(Users(j)')
    <3>1. Users(j)' = Users(j)
      BY <1>2, <1>5, <1>7, <2>5 DEF Users
    <3> QED BY <1>7, <2>5, <3>1 DEF Counted, CachedTables
  <2> QED BY <2>1, <2>4, <2>5 DEF Counted
<1>11. NewClaims
  BY <1>5, <1>6, <1>7 DEF NewClaims, Claimed
<1> QED BY <1>8, <1>9, <1>10, <1>11 DEF Goal

LEMMA StartLoad_keeps == ASSUME IInv, NEW q \in Queries, StartLoad(q) PROVE Goal
<1> USE DEF IInv
<1> DEFINE i == CHOOSE j \in Free : TRUE
           r == [h[q] EXCEPT !.pc = "waiting", !.table = i]
           t == [state |-> "loading", source |-> h[q].source, etag |-> h[q].etag,
                 version |-> h[q].version, data |-> h[q].data, owner |-> h[q].owner,
                 uses |-> 0]
<1>1. h' = [h EXCEPT ![q] = r] /\ table' = [table EXCEPT ![i] = t]
  BY DEF StartLoad
<1>2. h[q] \in SoundQuery /\ h[q].pc = "downloaded"
  BY Known DEF StartLoad
<1>3. i \in Tables /\ table[i].state = "none"
  <2>1. i \in Free
    BY DEF StartLoad
  <2> QED BY <2>1 DEF Free
<1>4. /\ r \in SoundQuery /\ r.pc = "waiting" /\ r.table = i
      /\ r.source = h[q].source /\ r.version = h[q].version
      /\ r.etag = h[q].etag /\ r.owner = h[q].owner
  BY <1>2, <1>3 DEF SoundQuery, Query
<1>5. /\ t \in SoundTable /\ t.state = "loading"
      /\ t.source = h[q].source /\ t.version = h[q].version
      /\ t.etag = h[q].etag /\ t.owner = h[q].owner
  BY <1>2 DEF SoundTable, Table, SoundQuery, Query
<1>6. /\ \A p \in Queries : h'[p] = IF p = q THEN r ELSE h[p]
      /\ \A j \in Tables : table'[j] = IF j = i THEN t ELSE table[j]
  BY <1>1 DEF Forms
<1> HIDE DEF i, r, t
<1>7. Forms'
  <2>1. h' \in [Queries -> SoundQuery]
    BY <1>1, <1>4 DEF Forms
  <2>2. table' \in [Tables -> SoundTable \cup {NoTable}]
    BY <1>1, <1>5 DEF Forms
  <2> QED BY <2>1, <2>2 DEF Forms, StartLoad
<1>8. Linked'
  <2> SUFFICES ASSUME NEW p \in Queries, h'[p].pc \in {"waiting", "using"}
               PROVE  /\ table'[h'[p].table].state =
                           IF h'[p].pc = "waiting" THEN "loading" ELSE "cached"
                      /\ table'[h'[p].table].source = h'[p].source
                      /\ table'[h'[p].table].etag = h'[p].etag
                      /\ table'[h'[p].table].version = h'[p].version
    BY DEF Linked
  <2>1. CASE p = q
    BY <1>3, <1>4, <1>5, <1>6, <2>1
  <2>2. CASE p # q
    <3>1. h'[p] = h[p] /\ h[p].table \in Tables
      BY <1>6, <2>2, Known DEF SoundQuery
    <3>2. h[p].table # i
      BY <1>3, <3>1 DEF Linked
    <3> QED BY <1>6, <3>1, <3>2 DEF Linked
  <2> QED BY <2>1, <2>2
<1>9. Counted'
  <2>1. CachedTables' = CachedTables /\ i \notin CachedTables
    BY <1>3, <1>5, <1>6 DEF CachedTables
  <2>2. ASSUME NEW j \in CachedTables PROVE table'[j].uses = Cardinality(Users(j)')
    <3>1. Users(j)' = Users(j)
      BY <1>2, <1>4, <1>6 DEF Users
    <3> QED BY <1>6, <2>1, <2>2, <3>1 DEF Counted, CachedTables
  <2> QED BY <2>1, <2>2 DEF Counted
<1>10. NewClaims
  BY <1>4, <1>5, <1>6 DEF NewClaims, Claimed
<1> QED BY <1>7, <1>8, <1>9, <1>10 DEF Goal

LEMMA EndLoad_keeps == ASSUME IInv, NEW i \in Tables, EndLoad(i) PROVE Goal
<1> USE DEF IInv
<1> DEFINE gone == Evicted(i, bytes + Size[table[i].data])
           t == [table[i] EXCEPT !.state = "cached", !.uses = Handed(i)]
<1>1. /\ table[i].state = "loading"
      /\ table' = [j \in Tables |-> IF j = i THEN t ELSE IF j \in gone THEN NoTable ELSE table[j]]
      /\ h' = [q \in Queries |-> IF q \in Waiters(i) THEN [h[q] EXCEPT !.pc = "using"] ELSE h[q]]
      /\ UNCHANGED <<config, file>>
  BY DEF EndLoad
<1>2. /\ gone \subseteq CachedTables \ {i}
      /\ \A j \in gone : table[j].uses = 0
  BY DEF Evicted, Idle
<1>3. table[i] \in SoundTable
  BY <1>1, Known
<1>4. /\ t \in SoundTable /\ t.state = "cached" /\ t.uses = Cardinality(Waiters(i))
      /\ t.source = table[i].source /\ t.version = table[i].version
      /\ t.etag = table[i].etag /\ t.owner = table[i].owner
  BY <1>3, UsersFinite DEF SoundTable, Table, Handed
<1> HIDE DEF gone, t
<1>5. \A j \in gone : Users(j) = {}
  BY <1>2, UsersFinite DEF Counted
<1>6. ASSUME NEW q \in Waiters(i)
      PROVE  /\ q \in Queries /\ h[q] \in SoundQuery /\ h[q].pc = "waiting" /\ h[q].table = i
             /\ h'[q] \in SoundQuery /\ h'[q].pc = "using" /\ h'[q].table = i
             /\ h'[q].source = h[q].source /\ h'[q].version = h[q].version
             /\ h'[q].etag = h[q].etag /\ h'[q].owner = h[q].owner
  <2>1. q \in Queries /\ h[q] \in SoundQuery /\ h[q].pc = "waiting" /\ h[q].table = i
    BY Known DEF Waiters
  <2>2. h'[q] = [h[q] EXCEPT !.pc = "using"]
    BY <1>1, <2>1
  <2> QED BY <2>1, <2>2 DEF SoundQuery, Query
<1>7. /\ \A q \in Queries \ Waiters(i) : h'[q] = h[q]
      /\ table'[i] = t
      /\ \A j \in gone : table'[j] = NoTable
      /\ \A j \in Tables : j # i /\ j \notin gone => table'[j] = table[j]
  <2>1. gone \subseteq Tables \ {i}
    BY <1>2 DEF CachedTables
  <2> QED BY <1>1, <2>1
<1>8. Forms'
  <2>1. h' \in [Queries -> SoundQuery]
    <3>1. \A q \in Queries : h'[q] \in SoundQuery
      BY <1>6, <1>7, Known
    <3> QED BY <1>1, <3>1
  <2>2. table' \in [Tables -> SoundTable \cup {NoTable}]
    BY <1>1, <1>4, Known
  <2> QED BY <1>1, <2>1, <2>2 DEF Forms
<1>9. Linked'
  <2> SUFFICES ASSUME NEW p \in Queries, h'[p].pc \in {"waiting", "using"}
               PROVE  /\ table'[h'[p].table].state =
                           IF h'[p].pc = "waiting" THEN "loading" ELSE "cached"
                      /\ table'[h'[p].table].source = h'[p].source
                      /\ table'[h'[p].table].etag = h'[p].etag
                      /\ table'[h'[p].table].version = h'[p].version
    BY DEF Linked
  <2>1. CASE p \in Waiters(i)
    <3>1. /\ table[i].source = h[p].source /\ table[i].etag = h[p].etag
          /\ table[i].version = h[p].version
      BY <1>6, <2>1 DEF Linked
    <3> QED BY <1>4, <1>6, <1>7, <2>1, <3>1
  <2>2. CASE p \notin Waiters(i)
    <3>1. h'[p] = h[p] /\ h[p].table \in Tables
      BY <1>7, <2>2, Known DEF SoundQuery
    <3>2. h[p].table # i
      BY <1>1, <2>2, <3>1 DEF Linked, Waiters
    <3>3. h[p].table \notin gone
      <4>1. CASE h[p].pc = "waiting"
        BY <1>2, <4>1 DEF Linked, CachedTables
      <4>2. CASE h[p].pc = "using"
        BY <1>5, <4>2 DEF Users
      <4> QED BY <3>1, <4>1, <4>2
    <3> QED BY <1>7, <3>1, <3>2, <3>3 DEF Linked
  <2> QED BY <2>1, <2>2
<1>10. Counted'
  <2>1. Users(i)' = Waiters(i)
    <3>1. \A q \in Queries : ~(h[q].pc = "using" /\ h[q].table = i)
      BY <1>1 DEF Linked
    <3>2. \A q \in Waiters(i) : q \in Queries /\ h'[q].pc = "using" /\ h'[q].table = i
      BY <1>6
    <3> QED BY <1>7, <3>1, <3>2 DEF Users
  <2>2. CachedTables' = (CachedTables \ gone) \cup {i}
    BY <1>2, <1>4, <1>7, Forms_empty DEF CachedTables
  <2>3. ASSUME NEW j \in CachedTables \ gone, j # i PROVE table'[j].uses = Cardinality(Users(j)')
    <3>1. Users(j)' = Users(j)
      BY <1>6, <1>7, <2>3 DEF Users
    <3> QED BY <1>7, <2>3, <3>1 DEF Counted, CachedTables
  <2>4. table'[i].uses = Cardinality(Users(i)')
    BY <1>4, <1>7, <2>1
  <2> QED BY <2>2, <2>3, <2>4 DEF Counted
<1>11. NewClaims
  <2> SUFFICES ASSUME NEW s \in Sources, NEW v \in Versions \ {0}, NEW o \in Owners,
                      Claimed(s, v, o)'
               PROVE  Claimed(s, v, o)
    BY DEF NewClaims
  <2>1. ASSUME NEW q \in Queries, h'[q].version = v, h'[q].source = s, h'[q].owner = o
        PROVE  Claimed(s, v, o)
    BY <1>6, <1>7, <2>1 DEF Claimed
  <2>2. ASSUME NEW j \in Tables, table'[j].version = v, table'[j].source = s, table'[j].owner = o
        PROVE  Claimed(s, v, o)
    <3>1. j \notin gone
      BY <1>7, <2>2, Forms_empty
    <3> QED BY <1>4, <1>7, <2>2, <3>1 DEF Claimed
  <2> QED BY <2>1, <2>2 DEF Claimed
<1> QED BY <1>8, <1>9, <1>10, <1>11 DEF Goal

LEMMA FailLoad_keeps == ASSUME IInv, NEW i \in Tables, FailLoad(i) PROVE Goal
<1> USE DEF IInv
<1> DEFINE r == [NoQuery EXCEPT !.pc = "refused"]
<1>1. /\ table[i].state = "loading"
      /\ table' = [table EXCEPT ![i] = NoTable]
      /\ h' = [q \in Queries |-> IF q \in Waiters(i) THEN r ELSE h[q]]
      /\ UNCHANGED <<config, file>>
  BY DEF FailLoad
<1>2. r \in SoundQuery /\ r.pc = "refused" /\ r.version = 0
  BY Forms_empty DEF NoQuery
<1> HIDE DEF r
<1>3. /\ \A q \in Queries : h'[q] = IF q \in Waiters(i) THEN r ELSE h[q]
      /\ \A j \in Tables : table'[j] = IF j = i THEN NoTable ELSE table[j]
  BY <1>1 DEF Forms
<1>4. Forms'
  <2>1. h' \in [Queries -> SoundQuery]
    BY <1>1, <1>2, Known
  <2>2. table' \in [Tables -> SoundTable \cup {NoTable}]
    BY <1>1 DEF Forms
  <2> QED BY <1>1, <2>1, <2>2 DEF Forms
<1>5. Linked'
  <2> SUFFICES ASSUME NEW p \in Queries, h'[p].pc \in {"waiting", "using"}
               PROVE  /\ table'[h'[p].table].state =
                           IF h'[p].pc = "waiting" THEN "loading" ELSE "cached"
                      /\ table'[h'[p].table].source = h'[p].source
                      /\ table'[h'[p].table].etag = h'[p].etag
                      /\ table'[h'[p].table].version = h'[p].version
    BY DEF Linked
  <2>1. p \notin Waiters(i)
    BY <1>2, <1>3
  <2>2. h'[p] = h[p] /\ h[p].table \in Tables
    BY <1>3, <2>1, Known DEF SoundQuery
  <2>3. h[p].table # i
    BY <1>1, <2>1, <2>2 DEF Linked, Waiters
  <2> QED BY <1>3, <2>2, <2>3 DEF Linked
<1>6. Counted'
  <2>1. CachedTables' = CachedTables /\ i \notin CachedTables
    BY <1>1, <1>3, Forms_empty DEF CachedTables
  <2>2. ASSUME NEW j \in CachedTables PROVE table'[j].uses = Cardinality(Users(j)')
    <3>1. Users(j)' = Users(j)
      BY <1>2, <1>3 DEF Users, Waiters
    <3> QED BY <1>3, <2>1, <2>2, <3>1 DEF Counted, CachedTables
  <2> QED BY <2>1, <2>2 DEF Counted
<1>7. NewClaims
  BY <1>2, <1>3, Forms_empty DEF NewClaims, Claimed
<1> QED BY <1>4, <1>5, <1>6, <1>7 DEF Goal

\* A handler that is done with its table.
LEMMA ReleaseKeeps ==
  ASSUME IInv, NEW q \in Queries, NEW r, h[q].pc = "using",
         r \in SoundQuery, r.pc \notin {"waiting", "using"},
         \/ r.version = 0
         \/ r.version = h[q].version /\ r.source = h[q].source /\ r.owner = h[q].owner,
         h' = [h EXCEPT ![q] = r], Release(h[q].table), UNCHANGED <<config, file>>
  PROVE  Goal
<1> USE DEF IInv
<1>0. PICK i \in Tables : i = h[q].table
  BY Known DEF SoundQuery
<1> DEFINE t == [table[i] EXCEPT !.uses = table[i].uses - 1]
<1>1. i \in Tables /\ i \in CachedTables /\ table[i] \in SoundTable
  <2>1. table[i].state = "cached"
    BY <1>0 DEF Linked
  <2> QED BY <2>1, Known DEF CachedTables
<1>2. table' = [table EXCEPT ![i] = t]
  BY <1>0 DEF Release
<1>3. /\ q \in Users(i)
      /\ Cardinality(Users(i) \ {q}) = table[i].uses - 1
      /\ Cardinality(Users(i) \ {q}) \in Nat
  <2>1. q \in Users(i)
    BY <1>0 DEF Users
  <2>2. Cardinality(Users(i) \ {q}) = Cardinality(Users(i)) - 1
    BY <2>1, UsersFinite, FS_RemoveElement
  <2>3. Cardinality(Users(i) \ {q}) \in Nat
    BY UsersFinite, FS_RemoveElement, FS_CardinalityType
  <2> QED BY <1>1, <2>1, <2>2, <2>3 DEF Counted
<1>4. /\ t \in SoundTable /\ t.state = table[i].state /\ t.uses = Cardinality(Users(i) \ {q})
      /\ t.source = table[i].source /\ t.version = table[i].version
      /\ t.etag = table[i].etag /\ t.owner = table[i].owner
  BY <1>1, <1>3 DEF SoundTable, Table
<1> HIDE DEF t
<1>5. /\ \A p \in Queries : h'[p] = IF p = q THEN r ELSE h[p]
      /\ \A j \in Tables : table'[j] = IF j = i THEN t ELSE table[j]
  BY <1>2 DEF Forms
<1>6. Forms'
  <2>1. table' \in [Tables -> SoundTable \cup {NoTable}]
    BY <1>2, <1>4 DEF Forms
  <2> QED BY <2>1 DEF Forms
<1>7. Linked'
  <2> SUFFICES ASSUME NEW p \in Queries, h'[p].pc \in {"waiting", "using"}
               PROVE  /\ table'[h'[p].table].state =
                           IF h'[p].pc = "waiting" THEN "loading" ELSE "cached"
                      /\ table'[h'[p].table].source = h'[p].source
                      /\ table'[h'[p].table].etag = h'[p].etag
                      /\ table'[h'[p].table].version = h'[p].version
    BY DEF Linked
  <2>1. h'[p] = h[p] /\ h[p].table \in Tables
    BY <1>5, Known DEF SoundQuery
  <2> QED BY <1>4, <1>5, <2>1 DEF Linked
<1>8. Counted'
  <2>1. CachedTables' = CachedTables
    BY <1>4, <1>5 DEF CachedTables
  <2>2. table'[i].uses = Cardinality(Users(i)')
    <3>1. Users(i)' = Users(i) \ {q}
      BY <1>5 DEF Users
    <3> QED BY <1>1, <1>4, <1>5, <3>1
  <2>3. ASSUME NEW j \in CachedTables, j # i PROVE table'[j].uses = Cardinality(Users(j)')
    <3>1. Users(j)' = Users(j)
      BY <1>0, <1>5, <2>3 DEF Users
    <3> QED BY <1>5, <2>3, <3>1 DEF Counted, CachedTables
  <2> QED BY <2>1, <2>2, <2>3 DEF Counted
<1>9. NewClaims
  BY <1>4, <1>5 DEF NewClaims, Claimed
<1> QED BY <1>6, <1>7, <1>8, <1>9 DEF Goal

LEMMA Answer_keeps == ASSUME IInv, NEW q \in Queries, Answer(q) PROVE Goal
<1>1. PICK t : t = table[h[q].table] /\ t.data \in Contents
  <2>1. h[q].pc = "using" /\ h[q].table \in Tables
    BY Known DEF IInv, Answer, SoundQuery
  <2>2. table[h[q].table].state = "cached"
    BY <2>1 DEF IInv, Linked
  <2>3. table[h[q].table] \in SoundTable
    BY <2>1, <2>2, Known DEF IInv
  <2> QED BY <2>3 DEF SoundTable, Table
<1> DEFINE r == [NoQuery EXCEPT !.pc = "answered", !.source = h[q].source,
                   !.version = h[q].version, !.at = h[q].at,
                   !.owner = h[q].owner, !.data = t.data]
<1>2. h[q] \in SoundQuery /\ h[q].pc = "using"
  BY Known DEF IInv, Answer
<1>3. /\ r \in Query /\ r.pc = "answered" /\ r.version = h[q].version
      /\ r.source = h[q].source /\ r.owner = h[q].owner /\ r.at = h[q].at
  <2>1. NoQuery \in Query
    BY Forms_empty DEF SoundQuery
  <2> QED BY <1>1, <1>2, <2>1 DEF NoQuery, SoundQuery, Query
<1>4. h' = [h EXCEPT ![q] = r] /\ Release(h[q].table) /\ UNCHANGED <<config, file>>
  BY <1>1 DEF Answer
<1> HIDE DEF r
<1>5. r \in SoundQuery
  BY <1>2, <1>3 DEF SoundQuery
<1> QED BY <1>2, <1>3, <1>4, <1>5, ReleaseKeeps

LEMMA FailQuery_keeps == ASSUME IInv, NEW q \in Queries, FailQuery(q) PROVE Goal
<1> DEFINE r == [NoQuery EXCEPT !.pc = "refused"]
<1>1. r \in SoundQuery /\ r.pc = "refused" /\ r.version = 0
  BY Forms_empty DEF NoQuery
<1>2. h[q].pc = "using" /\ h' = [h EXCEPT ![q] = r] /\ Release(h[q].table)
      /\ UNCHANGED <<config, file>>
  BY DEF FailQuery
<1> HIDE DEF r
<1> QED BY <1>1, <1>2, ReleaseKeeps

\* An edit counts the version up, a deletion ends it: no claim is affected.
LEMMA ConfigSteps ==
  ASSUME IInv, NEW s \in Sources, Edit(s) \/ Delete(s)
  PROVE  IInv'
<1> USE DEF IInv
<1>0. UNCHANGED <<file, h, table>>
  BY DEF Edit, Delete
<1>1. PICK c \in Config : config' = [config EXCEPT ![s] = c] /\ (c.version = 0 \/ c.version > config[s].version)
  <2>0. config[s] \in Config
    BY DEF Forms
  <2>1. CASE Edit(s)
    <3>1. PICK b \in Buckets, o \in Owners :
            config' = [config EXCEPT ![s] = [version |-> config[s].version + 1, at |-> b, owner |-> o]]
      BY <2>1 DEF Edit
    <3>2. [version |-> config[s].version + 1, at |-> b, owner |-> o] \in Config
      BY <2>0, <2>1 DEF Edit, Config, Versions
    <3>3. config[s].version + 1 > config[s].version
      BY <2>0 DEF Config, Versions
    <3> QED BY <3>1, <3>2, <3>3
  <2>2. CASE Delete(s)
    <3>1. [config[s] EXCEPT !.version = 0] \in Config
      BY <2>0 DEF Config, Versions
    <3>2. [config[s] EXCEPT !.version = 0].version = 0
      BY <2>0 DEF Config
    <3> QED BY <2>2, <3>1, <3>2 DEF Delete
  <2> QED BY <2>1, <2>2
<1>2. Forms'
  BY <1>0, <1>1 DEF Forms
<1>3. Linked' /\ Counted' /\ Agreed'
  BY <1>0 DEF Linked, Counted, Agreed, Claimed, CachedTables, Users
<1>4. Past'
  <2> SUFFICES ASSUME NEW x \in Sources, NEW v \in Versions \ {0}, NEW o \in Owners,
                      Claimed(x, v, o)'
               PROVE  \/ config'[x].version = 0
                      \/ v < config'[x].version
                      \/ v = config'[x].version /\ o = config'[x].owner
    BY DEF Past
  <2>1. Claimed(x, v, o)
    BY <1>0 DEF Claimed
  <2>2. \/ config[x].version = 0
        \/ v < config[x].version
        \/ v = config[x].version /\ o = config[x].owner
    BY <2>1 DEF Past
  <2>3. config'[x] = IF x = s THEN c ELSE config[x]
    BY <1>1 DEF Forms
  <2>4. config[s].version # 0
    BY DEF Edit, Delete, Forms, Config, Versions
  <2>5. v \in Nat /\ config[s].version \in Nat /\ c.version \in Nat
    BY <1>1 DEF Versions, Forms, Config
  <2> QED BY <1>1, <2>2, <2>3, <2>4, <2>5
<1> QED BY <1>2, <1>3, <1>4

LEMMA Init_IInv == Init => IInv
<1> SUFFICES ASSUME Init PROVE IInv
  OBVIOUS
<1>1. Forms
  <2>1. \A s \in Sources : config[s] \in Config
    BY DEF Init, Config, Versions
  <2> QED BY <2>1, Forms_empty DEF Init, Forms
<1>2. Linked /\ Counted
  BY Forms_empty DEF Init, Linked, Counted, CachedTables
<1>3. Past /\ Agreed
  <2>1. \A s \in Sources, v \in Versions \ {0}, o \in Owners : ~Claimed(s, v, o)
    BY Forms_empty DEF Init, Claimed
  <2> QED BY <2>1 DEF Past, Agreed
<1> QED BY <1>1, <1>2, <1>3 DEF IInv

LEMMA Step_IInv == IInv /\ [Next]_vars => IInv'
<1> SUFFICES ASSUME IInv, [Next]_vars PROVE IInv'
  OBVIOUS
<1>1. CASE UNCHANGED vars
  BY <1>1 DEF vars, IInv, Forms, Linked, Counted, Past, Agreed, Claimed, CachedTables, Users
<1>2. ASSUME NEW q \in Queries, Ask(q) \/ Step(q) \/ Leave(q) PROVE IInv'
  <2>1. Goal
    BY <1>2, Ask_keeps, Authorise_keeps, Locate_keeps, ReadMetadata_keeps, Download_keeps,
       Refuse_keeps, Hit_keeps, Join_keeps, StartLoad_keeps, Answer_keeps, FailQuery_keeps,
       Leave_keeps DEF Step
  <2>2. config' = config
    BY <1>2 DEF Ask, Step, Leave, Authorise, Locate, ReadMetadata, Download, Refuse, Hit, Join,
                StartLoad, Answer, FailQuery
  <2> QED BY <2>1, <2>2, ClaimsKept DEF Goal, IInv
<1>3. ASSUME NEW i \in Tables, EndLoad(i) \/ FailLoad(i) PROVE IInv'
  <2>1. Goal
    BY <1>3, EndLoad_keeps, FailLoad_keeps
  <2>2. config' = config
    BY <1>3 DEF EndLoad, FailLoad
  <2> QED BY <2>1, <2>2, ClaimsKept DEF Goal, IInv
<1>4. ASSUME NEW s \in Sources, Edit(s) \/ Delete(s) PROVE IInv'
  BY <1>4, ConfigSteps
<1>5. ASSUME NEW b \in Buckets, Upload(b) PROVE IInv'
  <2>1. UNCHANGED <<config, h, table>> /\ file' \in [Buckets -> Contents]
    BY <1>5 DEF Upload, IInv, Forms
  <2> QED BY <2>1 DEF IInv, Forms, Linked, Counted, Past, Agreed, Claimed, CachedTables, Users
<1> QED BY <1>1, <1>2, <1>3, <1>4, <1>5 DEF Next

LEMMA Spec_IInv == Spec => []IInv
<1>1. Init => IInv
  BY Init_IInv
<1>2. IInv /\ [Next]_vars => IInv'
  BY Step_IInv
<1> QED BY <1>1, <1>2, PTL DEF Spec

\* No query works on a table that was evicted under it, or that another
\* configuration of its source has loaded (duckdb-engine.ts:503-516).
THEOREM NeverClosed == Spec => []OpenWhileUsed
<1>1. IInv => OpenWhileUsed
  <2> SUFFICES ASSUME IInv, NEW q \in Queries, h[q].pc = "using"
               PROVE  /\ table[h[q].table].state = "cached"
                      /\ table[h[q].table].source = h[q].source
                      /\ table[h[q].table].version = h[q].version
                      /\ table[h[q].table].owner = h[q].owner
    BY DEF OpenWhileUsed
  <2>1. /\ table[h[q].table].state = "cached"
        /\ table[h[q].table].source = h[q].source
        /\ table[h[q].table].version = h[q].version
    BY DEF IInv, Linked
  <2>2. PICK i \in Tables : i = h[q].table /\ table[i] \in SoundTable
    BY <2>1, Known DEF IInv, SoundQuery
  <2>3. /\ h[q].source \in Sources /\ h[q].version \in Versions \ {0}
        /\ h[q].owner \in Owners /\ table[i].owner \in Owners
    BY <2>2, Known DEF IInv, SoundQuery, Query, SoundTable, Table
  <2>4. /\ Claimed(h[q].source, h[q].version, h[q].owner)
        /\ Claimed(h[q].source, h[q].version, table[i].owner)
    BY <2>1, <2>2 DEF Claimed
  <2> QED BY <2>1, <2>2, <2>3, <2>4 DEF IInv, Agreed
<1> QED BY <1>1, Spec_IInv, PTL

-----------------------------------------------------------------------------
(* The cache: what it counts, in which order it is, and who waits for what.  *)

\* rawSourceCache is a Map: its entries are in one order.
Ordered ==
  /\ older \subseteq CachedTables \X CachedTables
  /\ \A i \in CachedTables : <<i, i>> \notin older
  /\ \A i, j, k \in CachedTables :
       <<i, j>> \in older /\ <<j, k>> \in older => <<i, k>> \in older
  /\ \A i, j \in CachedTables : i # j => <<i, j>> \in older \/ <<j, i>> \in older

Wanted == \A i \in Tables : table[i].state = "loading" =>
            \E q \in Queries : h[q].pc = "waiting" /\ h[q].table = i

SameKeys(i, j) == /\ table[i].source = table[j].source
                  /\ table[i].etag = table[j].etag
                  /\ table[i].version = table[j].version

OnePerKey == \A i, j \in Tables :
  i # j /\ table[i].state # "none" /\ table[j].state # "none" => ~SameKeys(i, j)

CacheInv == /\ IsFiniteSet(CachedTables)
            /\ bytes = BytesOf(table, CachedTables)
            /\ Ordered
            /\ Wanted
            /\ OnePerKey

\* What a step may leave alone.
CacheStays == /\ CachedTables' = CachedTables
              /\ \A i \in CachedTables : table'[i].data = table[i].data
              /\ bytes' = bytes
KeysStay == \A j \in Tables : table'[j].state # "none" =>
              /\ table[j].state # "none"
              /\ table'[j].source = table[j].source
              /\ table'[j].etag = table[j].etag
              /\ table'[j].version = table[j].version
LoadsStay == \A j \in Tables : table'[j].state = "loading" =>
               /\ table[j].state = "loading"
               /\ \A q \in Queries : h[q].pc = "waiting" /\ h[q].table = j =>
                                       h'[q].pc = "waiting" /\ h'[q].table = j

LEMMA CachedData ==
  ASSUME Forms
  PROVE  /\ CachedTables \subseteq Tables
         /\ \A i \in Tables : table[i].state # "none" =>
              table[i] \in SoundTable /\ Size[table[i].data] \in Nat
<1>1. ASSUME NEW i \in Tables, table[i].state # "none"
      PROVE  table[i] \in SoundTable /\ Size[table[i].data] \in Nat
  <2>1. table[i] \in SoundTable
    BY <1>1, Known
  <2>2. table[i].data \in Contents
    BY <2>1 DEF SoundTable, Table
  <2> QED BY <2>1, <2>2
<1> QED BY <1>1 DEF CachedTables

LEMMA StaysFinite ==
  ASSUME Forms, CacheInv, CacheStays
  PROVE  IsFiniteSet(CachedTables') /\ bytes' = BytesOf(table', CachedTables')
<1>1. IsFiniteSet(CachedTables) /\ \A i \in CachedTables : Size[table[i].data] \in Nat
  BY CachedData DEF CacheInv, CachedTables
<1>2. BytesOf(table', CachedTables) = BytesOf(table, CachedTables)
  BY <1>1, BytesSame DEF CacheStays
<1> QED BY <1>1, <1>2 DEF CacheStays, CacheInv

LEMMA StaysOrdered == ASSUME Ordered, CachedTables' = CachedTables, older' = older
                      PROVE  Ordered'
BY DEF Ordered

LEMMA StaysWanted == ASSUME Wanted, LoadsStay PROVE Wanted'
<1> SUFFICES ASSUME NEW i \in Tables, table'[i].state = "loading"
             PROVE  \E q \in Queries : h'[q].pc = "waiting" /\ h'[q].table = i
  BY DEF Wanted
<1>1. PICK q \in Queries : h[q].pc = "waiting" /\ h[q].table = i
  BY DEF Wanted, LoadsStay
<1> QED BY <1>1 DEF LoadsStay

LEMMA StaysKeyed == ASSUME OnePerKey, KeysStay PROVE OnePerKey'
<1> SUFFICES ASSUME NEW i \in Tables, NEW j \in Tables, i # j,
                    table'[i].state # "none", table'[j].state # "none",
                    table'[i].source = table'[j].source,
                    table'[i].etag = table'[j].etag,
                    table'[i].version = table'[j].version
             PROVE  FALSE
  BY DEF OnePerKey, SameKeys
<1>1. /\ table[i].state # "none" /\ table[j].state # "none"
      /\ table[i].source = table[j].source
      /\ table[i].etag = table[j].etag
      /\ table[i].version = table[j].version
  BY DEF KeysStay
<1> QED BY <1>1 DEF OnePerKey, SameKeys

LEMMA StaysCached ==
  ASSUME Forms, CacheInv, CacheStays, KeysStay, LoadsStay, older' = older
  PROVE  CacheInv'
<1>1. CachedTables' = CachedTables
  BY DEF CacheStays
<1> QED BY <1>1, StaysFinite, StaysOrdered, StaysWanted, StaysKeyed DEF CacheInv

\* A handler that waits for nothing does not matter to who waits.
LEMMA OneHandler ==
  ASSUME Forms, NEW q \in Queries, h[q].pc # "waiting",
         \A p \in Queries \ {q} : h'[p] = h[p],
         \A j \in Tables : table'[j].state = "loading" => table[j].state = "loading"
  PROVE  LoadsStay
BY DEF LoadsStay

\* The steps that leave the tables alone.
LEMMA TablesAlone ==
  ASSUME Forms, CacheInv, UNCHANGED <<table, older, bytes>>,
         h' = h \/ \E q \in Queries : /\ h[q].pc # "waiting"
                                      /\ \A p \in Queries \ {q} : h'[p] = h[p]
  PROVE  CacheInv'
<1>1. CacheStays /\ KeysStay
  BY DEF CacheStays, KeysStay, CachedTables
<1>2. LoadsStay
  <2>1. CASE h' = h
    BY <2>1 DEF LoadsStay
  <2>2. ASSUME NEW q \in Queries, h[q].pc # "waiting", \A p \in Queries \ {q} : h'[p] = h[p]
        PROVE  LoadsStay
    BY <2>2, OneHandler
  <2> QED BY <2>1, <2>2
<1> QED BY <1>1, <1>2, StaysCached

LEMMA QuietCache ==
  ASSUME IInv, CacheInv, NEW q \in Queries,
         \/ Ask(q) \/ Authorise(q) \/ Locate(q) \/ ReadMetadata(q) \/ Download(q)
         \/ Refuse(q) \/ Join(q) \/ Leave(q)
  PROVE  CacheInv'
<1>1. UNCHANGED <<table, older, bytes>> /\ h[q].pc # "waiting"
  BY DEF Ask, Authorise, Locate, ReadMetadata, Download, Refuse, Join, Leave
<1>2. \E r : h' = [h EXCEPT ![q] = r]
  BY DEF Ask, Authorise, Locate, ReadMetadata, Download, Refuse, Join, Leave
<1>3. \A p \in Queries \ {q} : h'[p] = h[p]
  BY <1>2 DEF IInv, Forms
<1> QED BY <1>1, <1>3, TablesAlone DEF IInv

\* A query that is done gives its table back.
LEMMA ReleaseCache ==
  ASSUME IInv, CacheInv, NEW q \in Queries, Answer(q) \/ FailQuery(q)
  PROVE  CacheInv'
<1>1. /\ h[q].pc = "using" /\ Release(h[q].table) /\ UNCHANGED <<older, bytes>>
      /\ \E r : h' = [h EXCEPT ![q] = r]
  BY DEF Answer, FailQuery
<1>2. PICK i \in Tables : i = h[q].table /\ table[i].state = "cached"
  BY <1>1, Known DEF IInv, Linked, SoundQuery
<1>3. table[i] \in SoundTable
  BY <1>2, CachedData DEF IInv
<1>4. PICK t : /\ table' = [table EXCEPT ![i] = t] /\ t.state = "cached"
               /\ t.source = table[i].source /\ t.etag = table[i].etag
               /\ t.version = table[i].version /\ t.data = table[i].data
  <2>1. table' = [table EXCEPT ![i] = [table[i] EXCEPT !.uses = table[i].uses - 1]]
    BY <1>1, <1>2 DEF Release
  <2> DEFINE t == [table[i] EXCEPT !.uses = table[i].uses - 1]
  <2>2. /\ t.state = "cached" /\ t.data = table[i].data
        /\ t.source = table[i].source /\ t.etag = table[i].etag
        /\ t.version = table[i].version
    BY <1>2, <1>3 DEF SoundTable, Table
  <2> HIDE DEF t
  <2>3. table' = [table EXCEPT ![i] = t]
    BY <2>1 DEF t
  <2> QED BY <2>2, <2>3
<1>5. \A j \in Tables : table'[j] = IF j = i THEN t ELSE table[j]
  BY <1>4 DEF IInv, Forms
<1>6. CacheStays
  BY <1>1, <1>2, <1>4, <1>5 DEF CacheStays, CachedTables
<1>7. KeysStay
  BY <1>2, <1>4, <1>5 DEF KeysStay
<1>8. LoadsStay
  <2>1. \A p \in Queries \ {q} : h'[p] = h[p]
    BY <1>1 DEF IInv, Forms
  <2>2. \A j \in Tables : table'[j].state = "loading" => table[j].state = "loading"
    BY <1>4, <1>5
  <2> QED BY <1>1, <2>1, <2>2, OneHandler DEF IInv
<1> QED BY <1>1, <1>6, <1>7, <1>8, StaysCached DEF IInv

\* A load begins when its key has no table.
LEMMA StartLoadCache ==
  ASSUME IInv, CacheInv, NEW q \in Queries, StartLoad(q)
  PROVE  CacheInv'
<1>1. PICK i \in Tables : table[i].state = "none" /\ i = CHOOSE j \in Free : TRUE
  <2>1. PICK i \in Free : i = CHOOSE j \in Free : TRUE
    BY DEF StartLoad
  <2> QED BY <2>1 DEF Free
<1>2. /\ h[q].pc = "downloaded" /\ Cached(q) = {} /\ InFlight(q) = {}
      /\ UNCHANGED <<older, bytes>>
      /\ h' = [h EXCEPT ![q] = [h[q] EXCEPT !.pc = "waiting", !.table = i]]
  BY <1>1 DEF StartLoad
<1>3. PICK t : /\ table' = [table EXCEPT ![i] = t] /\ t.state = "loading"
               /\ t.source = h[q].source /\ t.etag = h[q].etag /\ t.version = h[q].version
  <2> DEFINE t == [state |-> "loading", source |-> h[q].source, etag |-> h[q].etag,
                   version |-> h[q].version, data |-> h[q].data, owner |-> h[q].owner,
                   uses |-> 0]
  <2>1. table' = [table EXCEPT ![i] = t]
    BY <1>1 DEF StartLoad
  <2>2. /\ t.state = "loading" /\ t.source = h[q].source
        /\ t.etag = h[q].etag /\ t.version = h[q].version
    OBVIOUS
  <2> HIDE DEF t
  <2> QED BY <2>1, <2>2
<1>4. \A j \in Tables : table'[j] = IF j = i THEN t ELSE table[j]
  BY <1>3 DEF IInv, Forms
<1>5. CacheStays
  BY <1>1, <1>2, <1>3, <1>4 DEF CacheStays, CachedTables
<1>6. /\ \A p \in Queries \ {q} : h'[p] = h[p]
      /\ h'[q].pc = "waiting" /\ h'[q].table = i
  <2>1. h[q] \in SoundQuery
    BY DEF IInv, Forms
  <2> QED BY <1>2, <2>1 DEF SoundQuery, Query, IInv, Forms
<1>7. Wanted'
  <2> SUFFICES ASSUME NEW j \in Tables, table'[j].state = "loading"
               PROVE  \E p \in Queries : h'[p].pc = "waiting" /\ h'[p].table = j
    BY DEF Wanted
  <2>1. CASE j = i
    BY <1>6, <2>1
  <2>2. CASE j # i
    <3>1. PICK p \in Queries : h[p].pc = "waiting" /\ h[p].table = j
      BY <1>4, <2>2 DEF CacheInv, Wanted
    <3> QED BY <1>2, <1>6, <3>1
  <2> QED BY <2>1, <2>2
<1>8. ASSUME NEW j \in Tables, table[j].state # "none", table[j].source = h[q].source,
             table[j].etag = h[q].etag, table[j].version = h[q].version
      PROVE  FALSE
  <2>1. table[j].state \in {"loading", "cached"}
    BY <1>8, CachedData, Forms_empty DEF IInv
  <2> QED BY <1>2, <1>8, <2>1 DEF Cached, InFlight, SameKey
<1>9. OnePerKey'
  <2> SUFFICES ASSUME NEW j \in Tables, NEW k \in Tables, j # k,
                      table'[j].state # "none", table'[k].state # "none",
                      table'[j].source = table'[k].source,
                      table'[j].etag = table'[k].etag,
                      table'[j].version = table'[k].version
               PROVE  FALSE
    BY DEF OnePerKey, SameKeys
  <2>1. CASE j = i
    BY <1>3, <1>4, <1>8, <2>1
  <2>2. CASE k = i
    BY <1>3, <1>4, <1>8, <2>2
  <2>3. CASE j # i /\ k # i
    BY <1>4, <2>3 DEF CacheInv, OnePerKey, SameKeys
  <2> QED BY <2>1, <2>2, <2>3
<1>10. IsFiniteSet(CachedTables') /\ bytes' = BytesOf(table', CachedTables')
  BY <1>5, StaysFinite DEF IInv
<1>11. Ordered'
  BY <1>2, <1>5, StaysOrdered DEF CacheInv, CacheStays
<1> QED BY <1>7, <1>9, <1>10, <1>11 DEF CacheInv

\* A hit moves its entry to the end.
LEMMA HitCache == ASSUME IInv, CacheInv, NEW q \in Queries, Hit(q) PROVE CacheInv'
<1>1. PICK i \in Cached(q) :
        /\ h' = [h EXCEPT ![q] = [h[q] EXCEPT !.pc = "using", !.table = i]]
        /\ table' = [table EXCEPT ![i] = [table[i] EXCEPT !.uses = table[i].uses + 1]]
        /\ older' = {p \in older : p[1] # i} \cup ((CachedTables \ {i}) \X {i})
        /\ h[q].pc = "downloaded" /\ bytes' = bytes
  BY DEF Hit
<1>2. i \in Tables /\ i \in CachedTables /\ table[i].state = "cached"
  BY <1>1 DEF Cached, CachedTables
<1>3. table[i] \in SoundTable
  BY <1>2, CachedData DEF IInv
<1>4. PICK t : /\ table' = [table EXCEPT ![i] = t] /\ t.state = "cached"
               /\ t.source = table[i].source /\ t.etag = table[i].etag
               /\ t.version = table[i].version /\ t.data = table[i].data
  <2> DEFINE t == [table[i] EXCEPT !.uses = table[i].uses + 1]
  <2>1. /\ t.state = "cached" /\ t.data = table[i].data
        /\ t.source = table[i].source /\ t.etag = table[i].etag
        /\ t.version = table[i].version
    BY <1>2, <1>3 DEF SoundTable, Table
  <2>2. table' = [table EXCEPT ![i] = t]
    BY <1>1
  <2> HIDE DEF t
  <2> QED BY <2>1, <2>2
<1>5. \A j \in Tables : table'[j] = IF j = i THEN t ELSE table[j]
  BY <1>4 DEF IInv, Forms
<1>6. PICK C : C = CachedTables
  OBVIOUS
<1>7. CachedTables' = C
  BY <1>2, <1>4, <1>5, <1>6 DEF CachedTables
<1>8. CacheStays
  BY <1>1, <1>4, <1>5, <1>6, <1>7 DEF CacheStays, CachedTables
<1>9. KeysStay
  BY <1>2, <1>4, <1>5 DEF KeysStay
<1>10. LoadsStay
  <2>1. \A p \in Queries \ {q} : h'[p] = h[p]
    BY <1>1 DEF IInv, Forms
  <2>2. \A j \in Tables : table'[j].state = "loading" => table[j].state = "loading"
    BY <1>4, <1>5
  <2> QED BY <1>1, <2>1, <2>2, OneHandler DEF IInv
<1>11. Ordered'
  <2>1. \A j, k : <<j, k>> \in older' <=>
                  (<<j, k>> \in older /\ j # i) \/ (j \in C /\ j # i /\ k = i)
    <3>1. \A p \in older : p \in C \X C
      BY <1>6 DEF CacheInv, Ordered
    <3> QED BY <1>1, <1>6, <3>1
  <2>2. older' \subseteq C \X C
    BY <1>1, <1>2, <1>6 DEF CacheInv, Ordered
  <2>3. \A j \in C : <<j, j>> \notin older'
    BY <1>6, <2>1 DEF CacheInv, Ordered
  <2>4. \A j, k \in C : j # k => <<j, k>> \in older' \/ <<k, j>> \in older'
    BY <1>6, <2>1 DEF CacheInv, Ordered
  <2>5. ASSUME NEW j \in C, NEW k \in C, NEW l \in C, <<j, k>> \in older', <<k, l>> \in older'
        PROVE  <<j, l>> \in older'
    BY <1>6, <2>1, <2>5 DEF CacheInv, Ordered
  <2> QED BY <1>7, <2>2, <2>3, <2>4, <2>5 DEF Ordered
<1>12. IsFiniteSet(CachedTables') /\ bytes' = BytesOf(table', CachedTables')
  BY <1>8, StaysFinite DEF IInv
<1>13. Wanted' /\ OnePerKey'
  BY <1>9, <1>10, StaysWanted, StaysKeyed DEF CacheInv
<1> QED BY <1>11, <1>12, <1>13 DEF CacheInv

LEMMA FailLoadCache == ASSUME IInv, CacheInv, NEW i \in Tables, FailLoad(i) PROVE CacheInv'
<1>1. /\ table[i].state = "loading" /\ UNCHANGED <<older, bytes>>
      /\ table' = [table EXCEPT ![i] = NoTable]
      /\ \A q \in Queries : q \notin Waiters(i) => h'[q] = h[q]
  BY DEF FailLoad
<1>2. \A j \in Tables : table'[j] = IF j = i THEN NoTable ELSE table[j]
  BY <1>1 DEF IInv, Forms
<1>3. CacheStays
  BY <1>1, <1>2, Forms_empty DEF CacheStays, CachedTables
<1>4. KeysStay
  BY <1>2, Forms_empty DEF KeysStay
<1>5. LoadsStay
  BY <1>1, <1>2, Forms_empty DEF LoadsStay, Waiters
<1> QED BY <1>1, <1>3, <1>4, <1>5, StaysCached DEF IInv

\* The end of a load: C was cached, G is evicted to make room for total bytes.
Ends(i, C, G, total) ==
  /\ total = bytes + Size[table[i].data]
  /\ C = CachedTables /\ IsFiniteSet(C) /\ C \subseteq Tables /\ i \notin C /\ G \subseteq C
  /\ G = {j \in C : /\ table[j].uses = 0
                    /\ total - BytesOf(table, {k \in C : table[k].uses = 0 /\ <<k, j>> \in older}) > Limit}
  /\ CachedTables' = (C \ G) \cup {i}
  /\ \A j \in Tables \ {i} : table'[j] = IF j \in G THEN NoTable ELSE table[j]
  /\ table'[i].state = "cached" /\ table'[i].data = table[i].data
  /\ table'[i].source = table[i].source /\ table'[i].etag = table[i].etag
  /\ table'[i].version = table[i].version
  /\ older' = {p \in older : p[1] \notin G /\ p[2] \notin G} \cup ((C \ G) \X {i})
  /\ bytes' = total - BytesOf(table, G)
  /\ \A q \in Queries : q \notin Waiters(i) => h'[q] = h[q]

LEMMA BytesNow == \A S : Bytes(S) = BytesOf(table, S)
BY DEF Bytes, BytesOf

LEMMA EndLoadFacts ==
  ASSUME IInv, CacheInv, NEW i \in Tables, EndLoad(i)
  PROVE  \E C, G, total : Ends(i, C, G, total)
<1>1. PICK C, total : C = CachedTables /\ total = bytes + Size[table[i].data]
  OBVIOUS
<1>2. PICK G : G = Evicted(i, total)
  OBVIOUS
<1>3. table[i].state = "loading" /\ table[i] \in SoundTable
  BY CachedData DEF EndLoad, IInv
<1>4. /\ IsFiniteSet(C) /\ C \subseteq Tables /\ i \notin C
      /\ \A j \in C : table[j].state = "cached"
  BY <1>1, <1>3 DEF CacheInv, CachedTables
<1>5. Idle(i) = {j \in C : table[j].uses = 0}
  BY <1>1, <1>4 DEF Idle
<1>6. G = {j \in C : /\ table[j].uses = 0
                     /\ total - BytesOf(table, {k \in C : table[k].uses = 0 /\ <<k, j>> \in older}) > Limit}
  <2>1. G = {j \in Idle(i) :
               total - BytesOf(table, {k \in Idle(i) : <<k, j>> \in older}) > Limit}
    BY <1>2 DEF Evicted, Bytes, BytesOf
  <2>2. \A j : {k \in Idle(i) : <<k, j>> \in older}
                 = {k \in C : table[k].uses = 0 /\ <<k, j>> \in older}
    BY <1>5
  <2> QED BY <1>1, <1>5, <2>1, <2>2
<1>7. G \subseteq C
  BY <1>6
<1>8. /\ table' = [j \in Tables |-> IF j = i THEN [table[i] EXCEPT !.state = "cached",
                                                                   !.uses = Handed(i)]
                                    ELSE IF j \in G THEN NoTable ELSE table[j]]
      /\ older' = {p \in older : p[1] \notin G /\ p[2] \notin G} \cup ((C \ G) \X {i})
      /\ bytes' = total - BytesOf(table, G)
      /\ h' = [q \in Queries |-> IF q \in Waiters(i) THEN [h[q] EXCEPT !.pc = "using"]
                                                     ELSE h[q]]
  <2>1. Bytes(G) = BytesOf(table, G)
    BY BytesNow
  <2>2. bytes' = total - Bytes(G)
    BY <1>1, <1>2 DEF EndLoad
  <2>3. table' = [j \in Tables |-> IF j = i THEN [table[i] EXCEPT !.state = "cached",
                                                                  !.uses = Handed(i)]
                                   ELSE IF j \in G THEN NoTable ELSE table[j]]
    BY <1>1, <1>2 DEF EndLoad
  <2>4. older' = {p \in older : p[1] \notin G /\ p[2] \notin G} \cup ((C \ G) \X {i})
    BY <1>1, <1>2 DEF EndLoad
  <2>5. h' = [q \in Queries |-> IF q \in Waiters(i) THEN [h[q] EXCEPT !.pc = "using"]
                                                     ELSE h[q]]
    BY DEF EndLoad
  <2> QED BY <2>1, <2>2, <2>3, <2>4, <2>5
<1>9. /\ \A j \in Tables \ {i} : table'[j] = IF j \in G THEN NoTable ELSE table[j]
      /\ \A q \in Queries : q \notin Waiters(i) => h'[q] = h[q]
  BY <1>8
<1>10. /\ table'[i].state = "cached" /\ table'[i].data = table[i].data
       /\ table'[i].source = table[i].source /\ table'[i].etag = table[i].etag
       /\ table'[i].version = table[i].version
  <2>1. table'[i] = [table[i] EXCEPT !.state = "cached", !.uses = Handed(i)]
    BY <1>8
  <2> QED BY <1>3, <2>1 DEF SoundTable, Table
<1>11. CachedTables' = (C \ G) \cup {i}
  BY <1>1, <1>4, <1>9, <1>10, Forms_empty DEF CachedTables
<1>12. Ends(i, C, G, total)
  BY <1>1, <1>4, <1>6, <1>7, <1>8, <1>9, <1>10, <1>11 DEF Ends
<1> QED BY <1>12

LEMMA EndLoadCache == ASSUME IInv, CacheInv, NEW i \in Tables, EndLoad(i) PROVE CacheInv'
<1>1. PICK C, G, total : Ends(i, C, G, total)
  BY EndLoadFacts
<1>2. table[i].state = "loading"
  BY DEF EndLoad
<1>3. /\ C = CachedTables /\ IsFiniteSet(C) /\ C \subseteq Tables /\ i \notin C /\ G \subseteq C
      /\ CachedTables' = (C \ G) \cup {i}
      /\ \A j \in Tables \ {i} : table'[j] = IF j \in G THEN NoTable ELSE table[j]
      /\ \A j \in C : Size[table[j].data] \in Nat
      /\ Size[table[i].data] \in Nat
      /\ table'[i].state = "cached" /\ table'[i].data = table[i].data
  BY <1>1, <1>2, CachedData DEF Ends, CachedTables, IInv
<1>4. IsFiniteSet(CachedTables')
  <2>1. IsFiniteSet(C \ G)
    BY <1>3, FS_Subset
  <2> QED BY <1>3, <2>1, FS_AddElement
<1>5. bytes' = BytesOf(table', CachedTables')
  <2>1. PICK K : K = C \ G
    OBVIOUS
  <2>2. PICK D : D = CachedTables' /\ D = K \cup {i} /\ IsFiniteSet(D)
    BY <1>3, <1>4, <2>1
  <2>3. /\ \A j \in D : Size[table'[j].data] \in Nat
        /\ \A j \in K : table'[j].data = table[j].data
    BY <1>3, <2>1, <2>2
  <2>4. /\ K \in SUBSET D /\ {i} \in SUBSET D /\ K \cap {i} = {} /\ i \in D
    BY <1>3, <2>1, <2>2
  <2>5. BytesOf(table', D) = BytesOf(table', K) + BytesOf(table', {i})
    <3>1. BytesOf(table', K \cup {i}) = BytesOf(table', K) + BytesOf(table', {i})
      BY <2>2, <2>3, <2>4, BytesLaws
    <3> QED BY <2>2, <3>1
  <2>6. BytesOf(table', {i}) = Size[table[i].data]
    BY <1>3, <2>2, <2>3, <2>4, BytesLaws
  <2>7. BytesOf(table', K) = BytesOf(table, K)
    <3>1. IsFiniteSet(K) /\ \A j \in K : Size[table[j].data] \in Nat
      BY <1>3, <2>1, FS_Subset
    <3> QED BY <2>3, <3>1, BytesSame
  <2>8. /\ BytesOf(table, C \ G) = BytesOf(table, C) - BytesOf(table, G)
        /\ BytesOf(table, C) \in Nat /\ BytesOf(table, G) \in Nat
    BY <1>3, BytesLaws
  <2>9. /\ bytes = BytesOf(table, C) /\ total = bytes + Size[table[i].data]
        /\ bytes' = total - BytesOf(table, G)
    BY <1>1, <1>3 DEF CacheInv, Ends
  <2>10. BytesOf(table', D) = (BytesOf(table, C) - BytesOf(table, G)) + Size[table[i].data]
    BY <2>1, <2>5, <2>6, <2>7, <2>8
  <2> QED BY <1>3, <2>2, <2>8, <2>9, <2>10
<1>6. Ordered'
  <2>1. \A j, k : <<j, k>> \in older' <=>
                  (<<j, k>> \in older /\ j \notin G /\ k \notin G) \/ (j \in C \ G /\ k = i)
    <3>1. \A p \in older : p \in C \X C
      BY <1>3 DEF CacheInv, Ordered
    <3> QED BY <1>1, <3>1 DEF Ends
  <2>2. PICK D : D = CachedTables' /\ D = (C \ G) \cup {i}
    BY <1>3
  <2>3. \A j, k : <<j, k>> \in older => j \in C /\ k \in C
    BY <1>3 DEF CacheInv, Ordered
  <2>4. older' \subseteq D \X D
    BY <1>1, <1>3, <2>2 DEF CacheInv, Ordered, Ends
  <2>5. \A j \in D : <<j, j>> \notin older'
    BY <1>3, <2>1, <2>2, <2>3 DEF CacheInv, Ordered
  <2>6. \A j, k \in D : j # k => <<j, k>> \in older' \/ <<k, j>> \in older'
    BY <1>3, <2>1, <2>2, <2>3 DEF CacheInv, Ordered
  <2>7. ASSUME NEW j \in D, NEW k \in D, NEW l \in D, <<j, k>> \in older', <<k, l>> \in older'
        PROVE  <<j, l>> \in older'
    BY <1>3, <2>1, <2>2, <2>3, <2>7 DEF CacheInv, Ordered
  <2> QED BY <2>2, <2>4, <2>5, <2>6, <2>7 DEF Ordered
<1>7. KeysStay
  BY <1>1, <1>2, <1>3, Forms_empty DEF KeysStay, Ends
<1>8. LoadsStay
  <2>1. \A j \in Tables : table'[j].state = "loading" => table[j].state = "loading" /\ j # i
    BY <1>3, Forms_empty
  <2>2. \A q \in Queries : q \notin Waiters(i) => h'[q] = h[q]
    BY <1>1 DEF Ends
  <2> QED BY <2>1, <2>2 DEF LoadsStay, Waiters
<1>9. Wanted' /\ OnePerKey'
  BY <1>7, <1>8, StaysWanted, StaysKeyed DEF CacheInv
<1> QED BY <1>4, <1>5, <1>6, <1>9 DEF CacheInv

LEMMA Init_Cache == Init => CacheInv
<1> SUFFICES ASSUME Init PROVE CacheInv
  OBVIOUS
<1>1. \A i \in Tables : table[i].state = "none"
  BY Forms_empty DEF Init
<1>2. CachedTables = {}
  BY <1>1 DEF CachedTables
<1>3. PICK E : E = {} /\ IsFiniteSet(E) /\ BytesOf(table, E) = 0
  <2>1. IsFiniteSet({}) /\ \A i \in {} : Size[table[i].data] \in Nat
    BY FS_EmptySet
  <2> QED BY <2>1, BytesLaws
<1>4. IsFiniteSet(CachedTables) /\ bytes = BytesOf(table, CachedTables)
  BY <1>2, <1>3 DEF Init
<1>5. Ordered
  BY <1>2 DEF Ordered, Init
<1>6. Wanted /\ OnePerKey
  BY <1>1 DEF Wanted, OnePerKey
<1> QED BY <1>4, <1>5, <1>6 DEF CacheInv

LEMMA Step_Cache == IInv /\ CacheInv /\ [Next]_vars => CacheInv'
<1> SUFFICES ASSUME IInv, CacheInv, [Next]_vars PROVE CacheInv'
  OBVIOUS
<1>1. CASE UNCHANGED vars
  BY <1>1, TablesAlone DEF vars, IInv
<1>2. ASSUME NEW q \in Queries, Ask(q) \/ Step(q) \/ Leave(q) PROVE CacheInv'
  BY <1>2, QuietCache, ReleaseCache, HitCache, StartLoadCache DEF Step
<1>3. ASSUME NEW i \in Tables, EndLoad(i) \/ FailLoad(i) PROVE CacheInv'
  BY <1>3, EndLoadCache, FailLoadCache
<1>4. ASSUME NEW s \in Sources, Edit(s) \/ Delete(s) PROVE CacheInv'
  BY <1>4, TablesAlone DEF Edit, Delete, IInv
<1>5. ASSUME NEW b \in Buckets, Upload(b) PROVE CacheInv'
  BY <1>5, TablesAlone DEF Upload, IInv
<1> QED BY <1>1, <1>2, <1>3, <1>4, <1>5 DEF Next

LEMMA Spec_Cache == Spec => [](IInv /\ CacheInv)
<1>1. Init => IInv /\ CacheInv
  BY Init_IInv, Init_Cache
<1>2. IInv /\ CacheInv /\ [Next]_vars => IInv' /\ CacheInv'
  BY Step_IInv, Step_Cache
<1> QED BY <1>1, <1>2, PTL DEF Spec

\* Nothing leaks, whatever loads overlap, fail or are evicted: the byte count is
\* that of the tables in the cache, a load has somebody waiting for it, a key one
\* table at most, and a table as many uses as there are queries working on it
\* (duckdb-engine.ts:59-145).
THEOREM NoLeak == Spec => []NothingLeaks
<1>1. IInv /\ CacheInv => NothingLeaks
  <2> SUFFICES ASSUME IInv, CacheInv PROVE NothingLeaks
    OBVIOUS
  <2>1. bytes = Bytes(CachedTables)
    BY BytesNow DEF CacheInv
  <2>2. \A i \in Tables : table[i].state = "loading" => Waiters(i) # {}
    BY DEF CacheInv, Wanted, Waiters
  <2>3. ASSUME NEW i \in Tables, NEW j \in Tables, i # j,
               "none" \notin {table[i].state, table[j].state}
        PROVE  \/ table[i].source # table[j].source
               \/ table[i].etag # table[j].etag
               \/ table[i].version # table[j].version
    BY <2>3 DEF CacheInv, OnePerKey, SameKeys
  <2>4. ASSUME NEW i \in CachedTables
        PROVE  table[i].uses = Cardinality({q \in Queries : h[q].pc = "using" /\ h[q].table = i})
    BY DEF IInv, Counted, Users
  <2> QED BY <2>1, <2>2, <2>3, <2>4 DEF NothingLeaks
<1> QED BY <1>1, Spec_Cache, PTL

\* Some member of a finite set comes after all others, and some before them.
Last(S, i) == i \in S /\ \A j \in S \ {i} : <<j, i>> \in older
Foremost(S, i) == i \in S /\ \A j \in S \ {i} : <<i, j>> \in older

LEMMA Extremes ==
  ASSUME Ordered, IsFiniteSet(CachedTables), NEW S \in SUBSET CachedTables, S # {}
  PROVE  (\E i : Last(S, i)) /\ (\E i : Foremost(S, i))
<1>0. /\ \A i \in S : <<i, i>> \notin older
      /\ \A i, j, k \in S : <<i, j>> \in older /\ <<j, k>> \in older => <<i, k>> \in older
      /\ \A i, j \in S : i # j => <<i, j>> \in older \/ <<j, i>> \in older
      /\ IsFiniteSet(S)
  BY FS_Subset DEF Ordered
<1>1. \E i : Last(S, i)
  <2> DEFINE After(i) == {j \in S : <<i, j>> \in older}
             B == {After(i) : i \in S}
  <2>0. /\ B \in SUBSET SUBSET S /\ \A i \in S : After(i) \in B
        /\ \A s \in B : \E i \in S : s = After(i)
    OBVIOUS
  <2>1. PICK m \in B : \A s \in B : s \subseteq m => s = m
    <3>1. B # {}
      <4>1. PICK i \in S : TRUE
        OBVIOUS
      <4> HIDE DEF B, After
      <4> QED BY <2>0, <4>1
    <3> HIDE DEF B
    <3> QED BY <1>0, <2>0, <3>1, SmallestSet
  <2>2. PICK i \in S : m = After(i)
    <3> HIDE DEF B, After
    <3> QED BY <2>0, <2>1
  <2>3. ASSUME NEW j \in S, <<i, j>> \in older PROVE FALSE
    <3>1. After(j) \subseteq After(i)
      BY <1>0, <2>3
    <3>2. After(j) = After(i)
      <4> HIDE DEF B, After
      <4> QED BY <2>0, <2>1, <2>2, <3>1
    <3> QED BY <1>0, <2>3, <3>2
  <2>4. Last(S, i)
    BY <1>0, <2>3 DEF Last
  <2> QED BY <2>4
<1>2. \E i : Foremost(S, i)
  <2> DEFINE Before(i) == {j \in S : <<j, i>> \in older}
             B == {Before(i) : i \in S}
  <2>0. /\ B \in SUBSET SUBSET S /\ \A i \in S : Before(i) \in B
        /\ \A s \in B : \E i \in S : s = Before(i)
    OBVIOUS
  <2>1. PICK m \in B : \A s \in B : s \subseteq m => s = m
    <3>1. B # {}
      <4>1. PICK i \in S : TRUE
        OBVIOUS
      <4> HIDE DEF B, Before
      <4> QED BY <2>0, <4>1
    <3> HIDE DEF B
    <3> QED BY <1>0, <2>0, <3>1, SmallestSet
  <2>2. PICK i \in S : m = Before(i)
    <3> HIDE DEF B, Before
    <3> QED BY <2>0, <2>1
  <2>3. ASSUME NEW j \in S, <<j, i>> \in older PROVE FALSE
    <3>1. Before(j) \subseteq Before(i)
      BY <1>0, <2>3
    <3>2. Before(j) = Before(i)
      <4> HIDE DEF B, Before
      <4> QED BY <2>0, <2>1, <2>2, <3>1
    <3> QED BY <1>0, <2>3, <3>2
  <2>4. Foremost(S, i)
    BY <1>0, <2>3 DEF Foremost
  <2> QED BY <2>4
<1> QED BY <1>1, <1>2

\* What one step evicts.
Eviction ==
  /\ \A i \in Closed : table[i].uses = 0 /\ \A j \in Kept : <<i, j>> \in older
  /\ Closed # {} => \E i \in Closed : /\ bytes' + Size[table[i].data] > Limit
                                      /\ \A j \in Closed \ {i} : <<j, i>> \in older
  /\ bytes' > bytes /\ bytes' > Limit => Kept = {}

LEMMA BytesNat == ASSUME IInv, CacheInv PROVE bytes \in Nat
<1>1. IsFiniteSet(CachedTables) /\ \A i \in CachedTables : Size[table[i].data] \in Nat
  BY CachedData DEF IInv, CacheInv, CachedTables
<1>2. BytesOf(table, CachedTables) \in Nat
  BY <1>1, BytesLaws
<1> QED BY <1>2 DEF CacheInv

\* Only the end of a load closes a cached table.
LEMMA NoEviction ==
  ASSUME IInv, CacheInv, bytes' = bytes,
         \A i \in CachedTables : table'[i].state # "none"
  PROVE  Eviction
<1>1. Closed = {}
  BY DEF Closed
<1>2. ~(bytes' > bytes)
  BY BytesNat
<1> QED BY <1>1, <1>2 DEF Eviction

LEMMA LoadEvicts ==
  ASSUME IInv, CacheInv, NEW i \in Tables, EndLoad(i)
  PROVE  Eviction
<1>1. PICK C, G, total : Ends(i, C, G, total)
  BY EndLoadFacts
<1> DEFINE Below(j) == {k \in C : table[k].uses = 0 /\ <<k, j>> \in older}
<1>2. /\ C = CachedTables /\ IsFiniteSet(C) /\ C \subseteq Tables /\ G \subseteq C
      /\ \A j \in C : Size[table[j].data] \in Nat
      /\ \A j \in C : j \in G <=> /\ table[j].uses = 0
                                 /\ total - BytesOf(table, Below(j)) > Limit
      /\ bytes' = total - BytesOf(table, G)
  BY <1>1, CachedData DEF Ends, IInv, CachedTables
<1>3. total \in Nat
  <2>1. table[i].state = "loading" /\ total = bytes + Size[table[i].data]
    BY <1>1 DEF EndLoad, Ends
  <2>2. Size[table[i].data] \in Nat
    BY <2>1, CachedData DEF IInv
  <2> QED BY <2>1, <2>2, BytesNat
<1>4. \A j \in C : /\ Below(j) \in SUBSET C
                   /\ BytesOf(table, Below(j)) \in Nat
  <2>1. \A j \in C : Below(j) \in SUBSET C
    OBVIOUS
  <2> HIDE DEF Below
  <2> QED BY <1>2, <2>1, BytesLaws
<1>5. /\ \A j \in C : <<j, j>> \notin older
      /\ \A j, k, l \in C : <<j, k>> \in older /\ <<k, l>> \in older => <<j, l>> \in older
      /\ \A j, k \in C : j # k => <<j, k>> \in older \/ <<k, j>> \in older
  BY <1>2 DEF CacheInv, Ordered
<1>6. Closed = G
  BY <1>1, <1>2, Forms_empty, CachedData DEF Ends, Closed, CachedTables
<1>7. \A j : j \in Kept <=> j \in C /\ j \notin G /\ table[j].uses = 0
  BY <1>2, <1>6 DEF Kept
\* What is older than an evicted table and idle has been evicted before it.
<1>8. ASSUME NEW j \in G, NEW k \in Kept
      PROVE  <<j, k>> \in older
  <2> SUFFICES ASSUME <<j, k>> \notin older PROVE FALSE
    OBVIOUS
  <2>1. j \in C /\ k \in C /\ j # k /\ <<k, j>> \in older
    BY <1>2, <1>5, <1>7
  <2>2. Below(k) \subseteq Below(j)
    BY <1>5, <2>1
  <2>3. BytesOf(table, Below(k)) <= BytesOf(table, Below(j))
    <3> HIDE DEF Below
    <3> QED BY <1>2, <1>4, <2>1, <2>2, BytesLaws
  <2>4. total - BytesOf(table, Below(j)) > Limit
    BY <1>2, <2>1
  <2>5. total - BytesOf(table, Below(k)) > Limit
    <3>1. PICK x \in Nat, y \in Nat : x = BytesOf(table, Below(k)) /\ y = BytesOf(table, Below(j))
      BY <1>4, <2>1
    <3> HIDE DEF Below
    <3> QED BY <1>3, <2>3, <2>4, <3>1
  <2> QED BY <1>2, <1>7, <2>1, <2>5
<1>9. ASSUME Closed # {}
      PROVE  \E j \in Closed : /\ bytes' + Size[table[j].data] > Limit
                               /\ \A k \in Closed \ {j} : <<k, j>> \in older
  <2>1. PICK j \in G : \A k \in G \ {j} : <<k, j>> \in older
    <3>1. \E j : Last(G, j)
      BY <1>2, <1>6, <1>9, Extremes DEF CacheInv
    <3> QED BY <3>1 DEF Last
  <2>2. Below(j) = G \ {j}
    <3>1. \A k \in G \ {j} : k \in Below(j)
      BY <1>2, <2>1
    <3>2. ASSUME NEW k \in Below(j) PROVE k \in G \ {j}
      <4>1. k \in C /\ table[k].uses = 0 /\ <<k, j>> \in older /\ j \in C
        BY <1>2, <2>1
      <4>2. k # j /\ <<j, k>> \notin older
        BY <1>5, <4>1
      <4> QED BY <1>7, <1>8, <2>1, <4>1, <4>2
    <3> HIDE DEF Below
    <3>3. Below(j) \subseteq C
      BY <1>2, <1>4, <2>1
    <3> QED BY <3>1, <3>2, <3>3
  <2>3. /\ BytesOf(table, G \ {j}) = BytesOf(table, G) - BytesOf(table, {j})
        /\ BytesOf(table, {j}) = Size[table[j].data]
        /\ BytesOf(table, G) \in Nat /\ Size[table[j].data] \in Nat
    <3>1. G \in SUBSET C /\ {j} \in SUBSET G /\ j \in C
      BY <1>2, <2>1
    <3> QED BY <1>2, <3>1, BytesLaws
  <2>4. total - BytesOf(table, G \ {j}) > Limit
    BY <1>2, <2>1, <2>2
  <2>5. bytes' + Size[table[j].data] > Limit
    <3>1. PICK x \in Nat, y \in Nat : x = BytesOf(table, G) /\ y = Size[table[j].data]
      BY <2>3
    <3>2. total - (x - y) > Limit /\ bytes' = total - x
      BY <1>2, <2>3, <2>4, <3>1
    <3>3. (total - x) + y > Limit
      BY <1>3, <3>2
    <3> QED BY <3>1, <3>2, <3>3
  <2> QED BY <1>6, <2>1, <2>5
<1>10. ASSUME bytes' > Limit, Kept # {} PROVE FALSE
  <2>1. PICK k \in Kept : \A j \in Kept \ {k} : <<k, j>> \in older
    <3>1. Kept \in SUBSET CachedTables
      BY <1>2, <1>7
    <3>2. \E k : Foremost(Kept, k)
      BY <1>10, <3>1, Extremes DEF CacheInv
    <3> QED BY <3>2 DEF Foremost
  <2>2. k \in C /\ k \notin G /\ table[k].uses = 0
    BY <1>7, <2>1
  <2>3. Below(k) = G
    <3>1. \A j \in G : j \in Below(k)
      BY <1>2, <1>8, <2>1
    <3>2. ASSUME NEW j \in Below(k) PROVE j \in G
      <4>1. j \in C /\ table[j].uses = 0 /\ <<j, k>> \in older
        OBVIOUS
      <4>2. j # k /\ <<k, j>> \notin older
        BY <1>5, <2>2, <4>1
      <4> QED BY <1>7, <2>1, <4>1, <4>2
    <3> HIDE DEF Below
    <3> QED BY <3>1, <3>2
  <2>4. total - BytesOf(table, Below(k)) > Limit
    BY <1>2, <1>10, <2>3
  <2> QED BY <1>2, <2>2, <2>4
<1>11. \A j \in Closed : table[j].uses = 0
  BY <1>2, <1>6
<1> QED BY <1>6, <1>8, <1>9, <1>10, <1>11 DEF Eviction

\* A handler leaves the cached tables open and their bytes as they are.
LEMMA HandlerKeepsOpen ==
  ASSUME IInv, NEW q \in Queries, Ask(q) \/ Step(q) \/ Leave(q)
  PROVE  bytes' = bytes /\ \A i \in CachedTables : table'[i].state # "none"
<1>1. bytes' = bytes
  BY DEF Ask, Step, Leave, Authorise, Locate, ReadMetadata, Download, Refuse, Hit, Join,
         StartLoad, Answer, FailQuery
<1>2. CASE table' = table
  BY <1>1, <1>2 DEF CachedTables
<1>3. ASSUME NEW i \in Tables, NEW n,
             table' = [table EXCEPT ![i] = [table[i] EXCEPT !.uses = n]]
      PROVE  \A j \in CachedTables : table'[j].state # "none"
  <2>1. ASSUME NEW j \in CachedTables PROVE table'[j].state = "cached"
    <3>1. j \in Tables /\ table[j] \in SoundTable /\ table[j].state = "cached"
      BY CachedData DEF CachedTables, IInv
    <3>2. CASE j = i
      <4>1. table'[j] = [table[j] EXCEPT !.uses = n]
        BY <1>3, <3>1, <3>2 DEF IInv, Forms
      <4> QED BY <3>1, <4>1 DEF SoundTable, Table
    <3>3. CASE j # i
      BY <1>3, <3>1, <3>3 DEF IInv, Forms
    <3> QED BY <3>2, <3>3
  <2> QED BY <2>1
<1>4. CASE Hit(q)
  <2>1. PICK i \in Cached(q) :
          table' = [table EXCEPT ![i] = [table[i] EXCEPT !.uses = table[i].uses + 1]]
    BY <1>4 DEF Hit
  <2>2. PICK n : n = table[i].uses + 1
    OBVIOUS
  <2> QED BY <1>1, <1>3, <2>1, <2>2 DEF Cached
<1>5. CASE Answer(q) \/ FailQuery(q)
  <2>1. h[q].pc = "using" /\ Release(h[q].table)
    BY <1>5 DEF Answer, FailQuery
  <2>2. PICK i \in Tables : i = h[q].table
    BY <2>1, Known DEF IInv, SoundQuery
  <2>3. PICK n : n = table[i].uses - 1
    OBVIOUS
  <2> QED BY <1>1, <1>3, <2>1, <2>2, <2>3 DEF Release
<1>6. CASE StartLoad(q)
  <2>1. PICK i \in Free : i = CHOOSE j \in Free : TRUE
    BY <1>6 DEF StartLoad
  <2>2. \A j \in Tables \ {i} : table'[j] = table[j]
    BY <1>6, <2>1 DEF StartLoad, IInv, Forms
  <2> QED BY <1>1, <2>1, <2>2 DEF Free, CachedTables
<1>7. CASE \/ Ask(q) \/ Authorise(q) \/ Locate(q) \/ ReadMetadata(q) \/ Download(q)
           \/ Refuse(q) \/ Join(q) \/ Leave(q)
  BY <1>2, <1>7 DEF Ask, Authorise, Locate, ReadMetadata, Download, Refuse, Join, Leave
<1> QED BY <1>4, <1>5, <1>6, <1>7 DEF Step

LEMMA StepEvicts == IInv /\ CacheInv /\ [Next]_vars => Eviction \/ UNCHANGED vars
<1> SUFFICES ASSUME IInv, CacheInv, Next PROVE Eviction
  OBVIOUS
<1>1. ASSUME NEW q \in Queries, Ask(q) \/ Step(q) \/ Leave(q) PROVE Eviction
  BY <1>1, HandlerKeepsOpen, NoEviction
<1>2. ASSUME NEW i \in Tables, EndLoad(i) PROVE Eviction
  BY <1>2, LoadEvicts
<1>3. ASSUME NEW i \in Tables, FailLoad(i) PROVE Eviction
  <2>1. \A j \in CachedTables : j \in Tables /\ j # i /\ table'[j] = table[j]
    BY <1>3 DEF FailLoad, CachedTables, IInv, Forms
  <2>2. bytes' = bytes
    BY <1>3 DEF FailLoad
  <2> QED BY <2>1, <2>2, NoEviction DEF CachedTables
<1>4. ASSUME UNCHANGED <<table, bytes>> PROVE Eviction
  <2>1. \A j \in CachedTables : table'[j].state # "none"
    BY <1>4 DEF CachedTables
  <2> QED BY <1>4, <2>1, NoEviction
<1>5. ASSUME NEW s \in Sources, Edit(s) \/ Delete(s) PROVE Eviction
  BY <1>4, <1>5 DEF Edit, Delete
<1>6. ASSUME NEW b \in Buckets, Upload(b) PROVE Eviction
  BY <1>4, <1>6 DEF Upload
<1> QED BY <1>1, <1>2, <1>3, <1>5, <1>6 DEF Next

\* A load closes the oldest idle tables, as many as the limit asks for and no
\* more, for any sizes, any limit and any order of uses (duckdb-engine.ts:503-516).
THEOREM OldestEvicted == Spec => EvictsAsNeeded
<1>1. IInv /\ CacheInv /\ [Next]_vars =>
        [/\ \A i \in Closed : /\ table[i].uses = 0
                              /\ \A j \in Kept : <<i, j>> \in older
         /\ Closed # {} => \E i \in Closed : /\ bytes' + Size[table[i].data] > Limit
                                             /\ \A j \in Closed \ {i} : <<j, i>> \in older
         /\ bytes' > bytes /\ bytes' > Limit => Kept = {}]_vars
  BY StepEvicts DEF Eviction
<1> QED BY <1>1, Spec_Cache, PTL DEF EvictsAsNeeded, Spec

\* Every query and table has the fields that its next step reads.
THEOREM Types == Spec => []TypeOK
<1>1. IInv /\ CacheInv => TypeOK
  <2>1. IInv /\ CacheInv => older \in SUBSET (Tables \X Tables)
    BY DEF CacheInv, Ordered, CachedTables
  <2> QED BY <2>1 DEF IInv, Forms, TypeOK, SoundQuery, SoundTable
<1> QED BY <1>1, Spec_Cache, PTL

-----------------------------------------------------------------------------
(* The refinement.                                                          *)

\* What whoever asks can see of a handler.
View(a, b, c, d, e) == [pc |-> a, source |-> b, owner |-> c, at |-> d, content |-> e]

Seen(r) == [pc |-> IF r.pc \in {"downloaded", "waiting", "using"} THEN "read" ELSE r.pc,
            source |-> r.source, owner |-> r.owner, at |-> r.at,
            content |-> IF r.pc = "answered" THEN r.data ELSE r.etag]

LEMMA AskedSeen ==
  /\ Asked = [q \in Queries |-> Seen(h[q])]
  /\ Asked' = [q \in Queries |-> Seen(h'[q])]
BY DEF Asked, Seen, Pc

LEMMA AskedStep ==
  ASSUME Forms, NEW q \in Queries, NEW r, h' = [h EXCEPT ![q] = r]
  PROVE  /\ Asked' = [Asked EXCEPT ![q] = Seen(r)]
         /\ Asked[q] = Seen(h[q])
         /\ Seen(r) = Seen(h[q]) => Asked' = Asked
<1>1. \A p \in Queries : h'[p] = IF p = q THEN r ELSE h[p]
  BY DEF Forms
<1> QED BY <1>1, AskedSeen

LEMMA SeenFacts ==
  /\ Seen(NoQuery) = [pc |-> "idle", source |-> Nothing, owner |-> Nothing, at |-> Nothing,
                      content |-> Nothing]
  /\ Seen([NoQuery EXCEPT !.pc = "refused"]) =
       [pc |-> "refused", source |-> Nothing, owner |-> Nothing, at |-> Nothing,
        content |-> Nothing]
BY DEF Seen, NoQuery

\* The handlers that take no part in sharing.
LEMMA PlainSteps ==
  ASSUME IInv, NEW q \in Queries,
         Ask(q) \/ Authorise(q) \/ Locate(q) \/ ReadMetadata(q) \/ Leave(q)
  PROVE  Direct!Next
<1> USE DEF IInv
<1>0. h[q] \in SoundQuery
  BY Known
<1>1. CASE Ask(q)
  <2>1. PICK s \in Sources :
          h' = [h EXCEPT ![q] = [NoQuery EXCEPT !.pc = "asked", !.source = s]]
    BY <1>1 DEF Ask
  <2> DEFINE r == [NoQuery EXCEPT !.pc = "asked", !.source = s]
  <2>2. Seen(r) = [Direct!Unasked EXCEPT !.pc = "asked", !.source = s]
    <3>1. /\ r.pc = "asked" /\ r.source = s /\ r.owner = Nothing /\ r.at = Nothing
          /\ r.etag = Nothing
      BY DEF NoQuery
    <3>2. Seen(r) = View("asked", s, Nothing, Nothing, Nothing)
      BY <3>1 DEF Seen, View
    <3>3. Direct!Unasked = View("idle", Nothing, Nothing, Nothing, Nothing)
      BY DEF Direct!Unasked, View
    <3>4. [View("idle", Nothing, Nothing, Nothing, Nothing)
             EXCEPT !.pc = "asked", !.source = s]
            = View("asked", s, Nothing, Nothing, Nothing)
      <4> DEFINE v == View("idle", Nothing, Nothing, Nothing, Nothing)
                 w == View("asked", Nothing, Nothing, Nothing, Nothing)
      <4>1. [v EXCEPT !.pc = "asked", !.source = s] = [[v EXCEPT !.pc = "asked"] EXCEPT !.source = s]
        BY DEF View
      <4>2. [v EXCEPT !.pc = "asked"] = w
        BY DEF View
      <4>3. [w EXCEPT !.source = s] = View("asked", s, Nothing, Nothing, Nothing)
        BY DEF View
      <4> QED BY <4>1, <4>2, <4>3
    <3> HIDE DEF r
    <3> QED BY <3>2, <3>3, <3>4, Zenon
  <2>3. Asked' = [Asked EXCEPT ![q] = Seen(r)] /\ Asked[q] = Seen(h[q])
    BY <2>1, AskedStep
  <2> HIDE DEF r
  <2>4. Asked[q].pc = "idle"
    <3>1. h[q].pc = "idle"
      BY <1>1 DEF Ask
    <3> QED BY <2>3, <3>1 DEF Seen
  <2>5. Direct!Ask(q)
    BY <1>1, <2>2, <2>3, <2>4 DEF Ask, Direct!Ask
  <2> QED BY <2>5 DEF Direct!Next
<1>2. CASE Authorise(q)
  <2> DEFINE c == config[h[q].source]
             r == [h[q] EXCEPT !.pc = "authorised", !.version = c.version, !.owner = c.owner]
  <2>1. h' = [h EXCEPT ![q] = r] /\ h[q].pc = "asked" /\ c.version > 0
    BY <1>2 DEF Authorise
  <2>2. Asked[q] = Seen(h[q]) /\ Asked' = [Asked EXCEPT ![q] = Seen(r)]
    BY <2>1, AskedStep
  <2>3. Seen(r) = [Seen(h[q]) EXCEPT !.pc = "authorised", !.owner = c.owner]
    <3>1. Seen(h[q]) = View("asked", h[q].source, h[q].owner, h[q].at, h[q].etag)
      BY <2>1 DEF Seen, View
    <3>2. Seen(r) = View("authorised", h[q].source, c.owner, h[q].at, h[q].etag)
      BY <1>0 DEF Seen, View, SoundQuery, Query
    <3>3. [View("asked", h[q].source, h[q].owner, h[q].at, h[q].etag)
             EXCEPT !.pc = "authorised", !.owner = c.owner]
            = View("authorised", h[q].source, c.owner, h[q].at, h[q].etag)
      <4> DEFINE v == View("asked", h[q].source, h[q].owner, h[q].at, h[q].etag)
                 w == View("authorised", h[q].source, h[q].owner, h[q].at, h[q].etag)
      <4>1. [v EXCEPT !.pc = "authorised", !.owner = c.owner] = [[v EXCEPT !.pc = "authorised"] EXCEPT !.owner = c.owner]
        BY DEF View
      <4>2. [v EXCEPT !.pc = "authorised"] = w
        BY DEF View
      <4>3. [w EXCEPT !.owner = c.owner] = View("authorised", h[q].source, c.owner, h[q].at, h[q].etag)
        BY DEF View
      <4> QED BY <4>1, <4>2, <4>3
    <3> HIDE DEF r
    <3> QED BY <3>1, <3>2, <3>3, Zenon
  <2>4. Seen(h[q]).pc = "asked" /\ Seen(h[q]).source = h[q].source
    BY <2>1 DEF Seen
  <2>5. Direct!Authorise(q)
    BY <1>2, <2>1, <2>2, <2>3, <2>4 DEF Authorise, Direct!Authorise, Direct!Stored
  <2> QED BY <2>5 DEF Direct!Next
<1>3. CASE Locate(q)
  <2> DEFINE c == config[h[q].source]
             r == [h[q] EXCEPT !.pc = "located", !.at = c.at]
  <2>1. h' = [h EXCEPT ![q] = r] /\ h[q].pc = "authorised" /\ c.version > 0
    BY <1>3 DEF Locate
  <2>2. Asked[q] = Seen(h[q]) /\ Asked' = [Asked EXCEPT ![q] = Seen(r)]
    BY <2>1, AskedStep
  <2>3. Seen(r) = [Seen(h[q]) EXCEPT !.pc = "located", !.at = c.at]
    <3>1. Seen(h[q]) = View("authorised", h[q].source, h[q].owner, h[q].at, h[q].etag)
      BY <2>1 DEF Seen, View
    <3>2. Seen(r) = View("located", h[q].source, h[q].owner, c.at, h[q].etag)
      BY <1>0 DEF Seen, View, SoundQuery, Query
    <3>3. [View("authorised", h[q].source, h[q].owner, h[q].at, h[q].etag)
             EXCEPT !.pc = "located", !.at = c.at]
            = View("located", h[q].source, h[q].owner, c.at, h[q].etag)
      <4> DEFINE v == View("authorised", h[q].source, h[q].owner, h[q].at, h[q].etag)
                 w == View("located", h[q].source, h[q].owner, h[q].at, h[q].etag)
      <4>1. [v EXCEPT !.pc = "located", !.at = c.at] = [[v EXCEPT !.pc = "located"] EXCEPT !.at = c.at]
        BY DEF View
      <4>2. [v EXCEPT !.pc = "located"] = w
        BY DEF View
      <4>3. [w EXCEPT !.at = c.at] = View("located", h[q].source, h[q].owner, c.at, h[q].etag)
        BY DEF View
      <4> QED BY <4>1, <4>2, <4>3
    <3> HIDE DEF r
    <3> QED BY <3>1, <3>2, <3>3, Zenon
  <2>4. Seen(h[q]).pc = "authorised" /\ Seen(h[q]).source = h[q].source
    BY <2>1 DEF Seen
  <2>5. Direct!Locate(q)
    BY <1>3, <2>1, <2>2, <2>3, <2>4 DEF Locate, Direct!Locate, Direct!Stored
  <2> QED BY <2>5 DEF Direct!Next
<1>4. CASE ReadMetadata(q)
  <2> DEFINE r == [h[q] EXCEPT !.pc = "read", !.etag = file[h[q].at]]
  <2>1. h' = [h EXCEPT ![q] = r] /\ h[q].pc = "located"
    BY <1>4 DEF ReadMetadata
  <2>2. Asked[q] = Seen(h[q]) /\ Asked' = [Asked EXCEPT ![q] = Seen(r)]
    BY <2>1, AskedStep
  <2>3. Seen(r) = [Seen(h[q]) EXCEPT !.pc = "read", !.content = file[h[q].at]]
    <3>1. Seen(h[q]) = View("located", h[q].source, h[q].owner, h[q].at, h[q].etag)
      BY <2>1 DEF Seen, View
    <3>2. Seen(r) = View("read", h[q].source, h[q].owner, h[q].at, file[h[q].at])
      BY <1>0 DEF Seen, View, SoundQuery, Query
    <3>3. [View("located", h[q].source, h[q].owner, h[q].at, h[q].etag)
             EXCEPT !.pc = "read", !.content = file[h[q].at]]
            = View("read", h[q].source, h[q].owner, h[q].at, file[h[q].at])
      <4> DEFINE v == View("located", h[q].source, h[q].owner, h[q].at, h[q].etag)
                 w == View("read", h[q].source, h[q].owner, h[q].at, h[q].etag)
      <4>1. [v EXCEPT !.pc = "read", !.content = file[h[q].at]] = [[v EXCEPT !.pc = "read"] EXCEPT !.content = file[h[q].at]]
        BY DEF View
      <4>2. [v EXCEPT !.pc = "read"] = w
        BY DEF View
      <4>3. [w EXCEPT !.content = file[h[q].at]] = View("read", h[q].source, h[q].owner, h[q].at, file[h[q].at])
        BY DEF View
      <4> QED BY <4>1, <4>2, <4>3
    <3> HIDE DEF r
    <3> QED BY <3>1, <3>2, <3>3, Zenon
  <2>4. Seen(h[q]).pc = "located" /\ Seen(h[q]).at = h[q].at
    BY <2>1 DEF Seen
  <2>5. Direct!Read(q)
    BY <1>4, <2>1, <2>2, <2>3, <2>4 DEF ReadMetadata, Direct!Read
  <2> QED BY <2>5 DEF Direct!Next
<1>5. CASE Leave(q)
  <2>1. Asked' = [Asked EXCEPT ![q] = Seen(NoQuery)] /\ Asked[q] = Seen(h[q])
    BY <1>5, AskedStep DEF Leave
  <2>2. Asked[q].pc \in {"answered", "refused"}
    BY <1>5, <2>1 DEF Leave, Seen
  <2>3. Direct!Leave(q)
    BY <1>5, <2>1, <2>2, SeenFacts DEF Leave, Direct!Leave, Direct!Unasked
  <2> QED BY <2>3 DEF Direct!Next
<1> QED BY <1>1, <1>2, <1>3, <1>4, <1>5

\* The cache is invisible.
LEMMA HiddenSteps ==
  ASSUME IInv, NEW q \in Queries, Download(q) \/ Hit(q) \/ Join(q) \/ StartLoad(q)
  PROVE  UNCHANGED <<config, file, Asked>>
<1> USE DEF IInv
<1>0. h[q] \in SoundQuery
  BY Known
<1>1. CASE Download(q)
  <2>1. Seen([h[q] EXCEPT !.pc = "downloaded", !.data = h[q].etag]) = Seen(h[q])
    BY <1>0, <1>1 DEF Download, Seen, SoundQuery, Query
  <2> QED BY <1>1, <2>1, AskedStep DEF Download
<1>2. ASSUME NEW i, h[q].pc = "downloaded"
      PROVE  /\ Seen([h[q] EXCEPT !.pc = "waiting", !.table = i]) = Seen(h[q])
             /\ Seen([h[q] EXCEPT !.pc = "using", !.table = i]) = Seen(h[q])
  BY <1>0, <1>2 DEF Seen, SoundQuery, Query
<1>3. CASE Hit(q)
  <2>1. PICK i \in Cached(q) : h' = [h EXCEPT ![q] = [h[q] EXCEPT !.pc = "using", !.table = i]]
    BY <1>3 DEF Hit
  <2> QED BY <1>2, <1>3, <2>1, AskedStep DEF Hit
<1>4. CASE Join(q)
  <2>1. PICK i \in InFlight(q) :
          h' = [h EXCEPT ![q] = [h[q] EXCEPT !.pc = "waiting", !.table = i]]
    BY <1>4 DEF Join
  <2> QED BY <1>2, <1>4, <2>1, AskedStep DEF Join
<1>5. CASE StartLoad(q)
  <2> DEFINE i == CHOOSE j \in Free : TRUE
  <2>1. h' = [h EXCEPT ![q] = [h[q] EXCEPT !.pc = "waiting", !.table = i]]
    BY <1>5, Zenon DEF StartLoad
  <2> HIDE DEF i
  <2>2. Seen([h[q] EXCEPT !.pc = "waiting", !.table = i]) = Seen(h[q])
    BY <1>2, <1>5 DEF StartLoad
  <2>3. Asked' = Asked
    BY <2>1, <2>2, AskedStep
  <2> QED BY <1>5, <2>3 DEF StartLoad
<1> QED BY <1>1, <1>3, <1>4, <1>5

LEMMA EndLoadHidden ==
  ASSUME IInv, NEW i \in Tables, EndLoad(i)
  PROVE  UNCHANGED <<config, file, Asked>>
<1> USE DEF IInv
<1>1. ASSUME NEW q \in Queries PROVE Seen(h'[q]) = Seen(h[q])
  <2>1. h'[q] = IF q \in Waiters(i) THEN [h[q] EXCEPT !.pc = "using"] ELSE h[q]
    BY DEF EndLoad
  <2>2. CASE q \in Waiters(i)
    <3>1. h[q] \in SoundQuery /\ h[q].pc = "waiting"
      BY <2>2, Known DEF Waiters
    <3> QED BY <2>1, <2>2, <3>1 DEF Seen, SoundQuery, Query
  <2> QED BY <2>1, <2>2
<1> QED BY <1>1, AskedSeen DEF EndLoad

\* Failures refuse one query, or all that wait for one load.
LEMMA FailureSteps ==
  ASSUME IInv,
         \/ \E q \in Queries : Refuse(q) \/ FailQuery(q)
         \/ \E i \in Tables : FailLoad(i)
  PROVE  Direct!Next
<1> USE DEF IInv
<1> DEFINE r == [NoQuery EXCEPT !.pc = "refused"]
           Live == {"asked", "authorised", "located", "read"}
<1>1. Seen(r) = [Direct!Unasked EXCEPT !.pc = "refused"]
  BY SeenFacts DEF Direct!Unasked
<1> HIDE DEF r
<1>2. ASSUME NEW q \in Queries, Refuse(q) \/ FailQuery(q) PROVE Direct!Next
  <2>1. /\ h' = [h EXCEPT ![q] = r] /\ UNCHANGED <<config, file>>
        /\ h[q].pc \in {"asked", "authorised", "located", "read", "downloaded", "using"}
    BY <1>2 DEF Refuse, FailQuery, r
  <2>2. Asked' = [Asked EXCEPT ![q] = Seen(r)] /\ Asked[q] = Seen(h[q])
    BY <2>1, AskedStep
  <2>3. Seen(h[q]).pc \in Live
    BY <2>1 DEF Seen
  <2>4. Asked' = [p \in Queries |-> IF p \in {q} THEN [Direct!Unasked EXCEPT !.pc = "refused"]
                                                 ELSE Asked[p]]
    BY <1>1, <2>2, AskedSeen
  <2>5. Direct!Refuse({q})
    BY <2>1, <2>2, <2>3, <2>4 DEF Direct!Refuse
  <2> QED BY <2>5 DEF Direct!Next
<1>3. ASSUME NEW i \in Tables, FailLoad(i) PROVE Direct!Next
  <2>1. /\ h' = [q \in Queries |-> IF q \in Waiters(i) THEN r ELSE h[q]]
        /\ UNCHANGED <<config, file>>
    BY <1>3 DEF FailLoad, r
  <2>2. Asked' = [p \in Queries |->
                    IF p \in Waiters(i) THEN [Direct!Unasked EXCEPT !.pc = "refused"]
                                       ELSE Asked[p]]
    BY <1>1, <2>1, AskedSeen
  <2>3. \A q \in Waiters(i) : q \in Queries /\ Asked[q].pc \in Live
    BY AskedSeen DEF Waiters, Seen
  <2>4. Direct!Refuse(Waiters(i))
    BY <2>1, <2>2, <2>3 DEF Direct!Refuse
  <2> QED BY <2>3, <2>4 DEF Direct!Next
<1> QED BY <1>2, <1>3

\* The table holds the content that the query read.
LEMMA AnswerStep == ASSUME IInv, NEW q \in Queries, Answer(q) PROVE Direct!Next
<1> USE DEF IInv
<1>1. h[q] \in SoundQuery /\ h[q].pc = "using"
  BY Known DEF Answer
<1>2. table[h[q].table].data = h[q].etag
  <2>1. table[h[q].table].state = "cached" /\ table[h[q].table].etag = h[q].etag
    BY <1>1 DEF Linked
  <2> QED BY <1>1, <2>1, Known, Forms_empty DEF SoundQuery
<1> DEFINE r == [NoQuery EXCEPT !.pc = "answered", !.source = h[q].source,
                   !.version = h[q].version, !.at = h[q].at,
                   !.owner = h[q].owner, !.data = h[q].etag]
<1>3. /\ h' = [h EXCEPT ![q] = r] /\ UNCHANGED <<config, file>>
      /\ h[q].owner \in Columns[h[q].etag]
  BY <1>2 DEF Answer
<1>4. Seen(r) = [Seen(h[q]) EXCEPT !.pc = "answered"]
  BY <1>1 DEF Seen, NoQuery
<1>5. Seen(h[q]).pc = "read" /\ Seen(h[q]).owner = h[q].owner /\ Seen(h[q]).content = h[q].etag
  BY <1>1 DEF Seen
<1> HIDE DEF r
<1>6. Asked' = [Asked EXCEPT ![q] = Seen(r)] /\ Asked[q] = Seen(h[q])
  BY <1>3, AskedStep
<1>7. Direct!Answer(q)
  BY <1>3, <1>4, <1>5, <1>6 DEF Direct!Answer
<1> QED BY <1>7 DEF Direct!Next

LEMMA ChangeSteps ==
  ASSUME IInv, IInv',
         \/ \E s \in Sources : Edit(s) \/ Delete(s)
         \/ \E b \in Buckets : Upload(b)
  PROVE  Direct!Next
<1>1. Asked' = Asked
  BY AskedSeen DEF Edit, Delete, Upload
<1>2. config' \in [Sources -> [version : Nat, at : Buckets, owner : Owners]]
  <2>1. Config \subseteq [version : Nat, at : Buckets, owner : Owners]
    BY DEF Config, Versions
  <2> QED BY <2>1 DEF IInv, Forms
<1>3. file' \in [Buckets -> Contents]
  BY DEF IInv, Forms
<1> QED BY <1>1, <1>2, <1>3 DEF Direct!Next, Direct!Change

\* Whoever asks cannot tell the engine from one without cache and shared loads:
\* the answer is from the content that was read and for the owner column that
\* the query was authorised with (query.ts:65-120, duckdb-engine.ts:58-163).
THEOREM Refinement == Spec => ImplementsDirect
<1>1. Init => Direct!Init
  <2> SUFFICES ASSUME Init PROVE Direct!Init
    OBVIOUS
  <2>1. Asked = [q \in Queries |-> Direct!Unasked]
    BY AskedSeen, SeenFacts DEF Init, Direct!Unasked
  <2> QED BY <2>1 DEF Init, Direct!Init
<1>2. IInv /\ IInv' /\ [Next]_vars => [Direct!Next]_(Direct!promised)
  <2> SUFFICES ASSUME IInv, IInv', [Next]_vars
               PROVE  Direct!Next \/ UNCHANGED <<config, file, Asked>>
    BY DEF Direct!promised
  <2>1. CASE UNCHANGED vars
    BY <2>1, AskedSeen DEF vars
  <2>2. ASSUME NEW q \in Queries, Ask(q) \/ Step(q) \/ Leave(q)
        PROVE  Direct!Next \/ UNCHANGED <<config, file, Asked>>
    BY <2>2, PlainSteps, HiddenSteps, FailureSteps, AnswerStep DEF Step
  <2>3. ASSUME NEW i \in Tables, EndLoad(i) \/ FailLoad(i)
        PROVE  Direct!Next \/ UNCHANGED <<config, file, Asked>>
    BY <2>3, EndLoadHidden, FailureSteps
  <2> QED BY <2>1, <2>2, <2>3, ChangeSteps DEF Next
<1> QED BY <1>1, <1>2, Spec_IInv, PTL DEF Spec, ImplementsDirect, Direct!Spec
=============================================================================
