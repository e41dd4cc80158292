-------------------------- MODULE TaskGraphProofs --------------------------
(***************************************************************************)
(* Kahn's algorithm sorts the calibration DAG, for every list of tasks and *)
(* every dependency between them.                                          *)
(*                                                                         *)
(* The library's induction theorems take an operator, which the provers    *)
(* cannot instantiate, so induction is by the least counterexample, and    *)
(* WhileLoop shows that the recursive function of the loop exists.         *)
(***************************************************************************)
EXTENDS TaskGraph, FiniteSetTheorems, SequenceTheorems, WellFoundedInduction, TLAPS

Elements(q) == {q[i] : i \in DOMAIN q}

\* No element comes twice.
Once(q) == \A i, j \in DOMAIN q : q[i] = q[j] => i = j

-----------------------------------------------------------------------------
(* Recursion *)

LEMMA LeastNat ==
  ASSUME NEW T \in SUBSET Nat, T # {}
  PROVE  \E m \in T : \A i \in T : m <= i
<1>1. PICK m \in T : \A i \in T : ~ (<<i, m>> \in OpToRel(<, Nat))
  BY NatLessThanWellFounded, WFMin
<1>2. \A i \in T : ~ (i < m)
  BY <1>1 DEF OpToRel
<1> QED BY <1>2

\* The recursive function of the loop "while state is not done: state = step",
\* which returns what out gives for the state it ends in.
Iterates(f, States, Done, step, out) ==
    f = [s \in States |-> IF s \in Done THEN out[s] ELSE f[step[s]]]

\* There is one: all states on a path share the states it ends in.
LEMMA WhileLoop ==
  ASSUME NEW States, NEW Done \in SUBSET States, NEW step \in [States -> States], NEW out
  PROVE  \E f : Iterates(f, States, Done, step, out)
<1> DEFINE Path(s, n, p) ==
             /\ p \in [0 .. n -> States] /\ p[0] = s /\ p[n] \in Done
             /\ \A i \in 0 .. n - 1 : p[i] \notin Done /\ p[i + 1] = step[p[i]]
           Ends(s) == {r \in States : \E n, p : n \in Nat /\ Path(s, n, p) /\ r = p[n]}
           f == [s \in States |-> out[CHOOSE r \in Ends(s) : TRUE]]
<1>1. ASSUME NEW s \in Done PROVE f[s] = out[s]
  <2>1. s \in Ends(s)
    <3> DEFINE p == [i \in 0 .. 0 |-> s]
    <3>1. Path(s, 0, p) /\ s = p[0]
      OBVIOUS
    <3> QED BY <3>1
  <2>2. ASSUME NEW n \in Nat, NEW p, Path(s, n, p) PROVE p[n] = s
    <3>1. n = 0
      BY <2>2
    <3> QED BY <3>1, <2>2
  <2>3. Ends(s) = {s}
    BY <2>1, <2>2
  <2> QED BY <2>3
<1>2. ASSUME NEW s \in States \ Done PROVE f[s] = f[step[s]]
  <2>1. ASSUME NEW n \in Nat, NEW p, Path(s, n, p) PROVE p[n] \in Ends(step[s])
    <3>1. n \in Nat \ {0}
      BY <2>1
    <3> DEFINE q == [i \in 0 .. n - 1 |-> p[i + 1]]
    <3>2. q \in [0 .. n - 1 -> States] /\ q[0] = step[s] /\ q[n - 1] = p[n]
      BY <2>1, <3>1
    <3>3. \A i \in 0 .. n - 2 : q[i] \notin Done /\ q[i + 1] = step[q[i]]
      BY <2>1, <3>1
    <3>4. n - 1 \in Nat /\ n - 1 - 1 = n - 2
      BY <3>1
    <3> HIDE DEF q
    <3>5. Path(step[s], n - 1, q)
      BY <2>1, <3>2, <3>3, <3>4
    <3>6. p[n] \in States
      BY <2>1
    <3> HIDE DEF Path
    <3> QED BY <3>2, <3>4, <3>5, <3>6
  <2>2. ASSUME NEW n \in Nat, NEW q, Path(step[s], n, q) PROVE q[n] \in Ends(s)
    <3> DEFINE p == [i \in 0 .. n + 1 |-> IF i = 0 THEN s ELSE q[i - 1]]
    <3>1. p \in [0 .. n + 1 -> States] /\ p[0] = s /\ p[n + 1] = q[n]
      BY <2>2
    <3>2. \A i \in 0 .. n : p[i] \notin Done /\ p[i + 1] = step[p[i]]
      <4> SUFFICES ASSUME NEW i \in 0 .. n PROVE p[i] \notin Done /\ p[i + 1] = step[p[i]]
        OBVIOUS
      <4>1. CASE i = 0
        BY <2>2, <4>1
      <4>2. CASE i # 0
        <5>1. i - 1 \in 0 .. n - 1 /\ p[i] = q[i - 1] /\ p[i + 1] = q[(i - 1) + 1]
          BY <4>2
        <5> QED BY <2>2, <5>1
      <4> QED BY <4>1, <4>2
    <3>3. n + 1 \in Nat /\ n + 1 - 1 = n
      OBVIOUS
    <3> HIDE DEF p
    <3>4. Path(s, n + 1, p)
      BY <2>2, <3>1, <3>2, <3>3
    <3>5. q[n] \in States
      BY <2>2
    <3> HIDE DEF Path
    <3> QED BY <3>1, <3>3, <3>4, <3>5
  <2> HIDE DEF Path
  <2>3. Ends(s) = Ends(step[s])
    BY <2>1, <2>2
  <2>4. step[s] \in States
    OBVIOUS
  <2> HIDE DEF Ends
  <2> QED BY <2>3, <2>4
<1> HIDE DEF Ends
<1>3. f = [s \in States |-> IF s \in Done THEN out[s] ELSE f[step[s]]]
  <2>1. f = [s \in States |-> f[s]]
    OBVIOUS
  <2> HIDE DEF f
  <2>2. \A s \in States : f[s] = IF s \in Done THEN out[s] ELSE f[step[s]]
    BY <1>1, <1>2
  <2> QED BY <2>1, <2>2
<1> QED BY <1>3 DEF Iterates

-----------------------------------------------------------------------------
(* Select *)

\* f is what Select makes of the first n elements.
Selects(f, s, S, n) ==
    f = [i \in 0 .. n |-> IF i = 0 THEN <<>>
                         ELSE IF s[i] \in S THEN Append(f[i - 1], s[i]) ELSE f[i - 1]]

LEMMA SelectExists ==
  ASSUME NEW X, NEW s \in Seq(X), NEW S, NEW n \in 0 .. Len(s)
  PROVE  \E f : Selects(f, s, S, n) /\ \A i \in 0 .. n : f[i] \in Seq(X)
<1> DEFINE Good(m, f) == Selects(f, s, S, m) /\ \A i \in 0 .. m : f[i] \in Seq(X)
           T == {m \in 0 .. Len(s) : ~ \E f : Good(m, f)}
<1> SUFFICES ASSUME T # {} PROVE FALSE
  OBVIOUS
<1>0. Good(0, [i \in 0 .. 0 |-> <<>>])
  BY DEF Selects
<1> HIDE DEF Good
<1>1. PICK m \in T : \A i \in T : m <= i
  <2>1. T \in SUBSET Nat
    OBVIOUS
  <2> HIDE DEF T
  <2> QED BY <2>1, LeastNat
<1>2. m # 0
  BY <1>0, <1>1
<1>3. m - 1 \in 0 .. Len(s) /\ m - 1 \notin T
  BY <1>1, <1>2
<1>4. PICK g : Good(m - 1, g)
  BY <1>3
<1> DEFINE f == [i \in 0 .. m |-> IF i < m THEN g[i]
                     ELSE IF s[m] \in S THEN Append(g[m - 1], s[m]) ELSE g[m - 1]]
<1>5. Good(m, f)
  <2>1. \A i \in 0 .. m - 1 : f[i] = g[i]
    BY <1>1
  <2>2. \A i \in 0 .. m : f[i] = IF i = 0 THEN <<>>
                        ELSE IF s[i] \in S THEN Append(f[i - 1], s[i]) ELSE f[i - 1]
    <3> SUFFICES ASSUME NEW i \in 0 .. m
                 PROVE  f[i] = IF i = 0 THEN <<>>
                        ELSE IF s[i] \in S THEN Append(f[i - 1], s[i]) ELSE f[i - 1]
      OBVIOUS
    <3>1. CASE i = m
      BY <1>2, <2>1, <3>1
    <3>2. CASE i < m
      <4>1. f[i] = g[i] /\ (i # 0 => f[i - 1] = g[i - 1])
        BY <2>1, <3>2
      <4>2. g[i] = IF i = 0 THEN <<>>
                        ELSE IF s[i] \in S THEN Append(g[i - 1], s[i]) ELSE g[i - 1]
        <5>1. i \in 0 .. m - 1
          BY <1>1, <3>2
        <5>2. g = [k \in 0 .. m - 1 |-> IF k = 0 THEN <<>>
                     ELSE IF s[k] \in S THEN Append(g[k - 1], s[k]) ELSE g[k - 1]]
          BY <1>4 DEF Good, Selects
        <5> QED BY <5>1, <5>2
      <4> HIDE DEF f
      <4> QED BY <4>1, <4>2
    <3> QED BY <3>1, <3>2
  <2>3. \A i \in 0 .. m : f[i] \in Seq(X)
    <3>1. \A i \in 0 .. m - 1 : f[i] \in Seq(X)
      BY <1>4, <2>1 DEF Good
    <3>2. g[m - 1] \in Seq(X) /\ s[m] \in X
      BY <1>1, <1>2, <1>4 DEF Good
    <3>3. f[m] \in Seq(X) /\ m \in Nat
      BY <1>1, <3>2
    <3> HIDE DEF f
    <3>4. \A i \in 0 .. m : i = m \/ i \in 0 .. m - 1
      BY <3>3
    <3> QED BY <3>1, <3>3, <3>4
  <2>4. f = [i \in 0 .. m |-> f[i]]
    OBVIOUS
  <2> HIDE DEF f
  <2> QED BY <2>2, <2>3, <2>4 DEF Good, Selects
<1> QED BY <1>1, <1>5

LEMMA AppendOnce ==
  ASSUME NEW X, NEW q \in Seq(X), NEW x \in X, Once(q), x \notin Elements(q)
  PROVE  /\ Append(q, x) \in Seq(X)
         /\ Elements(Append(q, x)) = Elements(q) \cup {x}
         /\ Once(Append(q, x))
<1> DEFINE r == Append(q, x)
<1>1. r \in Seq(X) /\ DOMAIN r = 1 .. Len(q) + 1 /\ Len(q) \in Nat
  OBVIOUS
<1>2. /\ \A i \in 1 .. Len(q) : r[i] = q[i]
      /\ r[Len(q) + 1] = x
  OBVIOUS
<1>3. DOMAIN q = 1 .. Len(q) /\ \A i \in 1 .. Len(q) : q[i] # x
  BY DEF Elements
<1> HIDE DEF r
<1>4. Elements(r) = Elements(q) \cup {x}
  BY <1>1, <1>2, <1>3 DEF Elements
<1>5. Once(r)
  BY <1>1, <1>2, <1>3 DEF Once
<1> QED BY <1>1, <1>4, <1>5 DEF r

\* The selected elements, each as often as s has it once.
LEMMA SelectProperties ==
  ASSUME NEW X, NEW s \in Seq(X), NEW S, Once(s)
  PROVE  /\ Select(s, S) \in Seq(X)
         /\ Elements(Select(s, S)) = Elements(s) \cap S
         /\ Once(Select(s, S))
         /\ s # <<>> /\ s[1] \in S => Select(s, S) # <<>> /\ Select(s, S)[1] = s[1]
<1> DEFINE f == CHOOSE f : Selects(f, s, S, Len(s))
<1>1. Len(s) \in Nat /\ DOMAIN s = 1 .. Len(s)
  OBVIOUS
<1>2. Selects(f, s, S, Len(s))
  <2>1. Len(s) \in 0 .. Len(s)
    BY <1>1
  <2> QED BY <2>1, SelectExists
<1>3. Select(s, S) = f[Len(s)]
  BY DEF Select, Selects
<1> HIDE DEF f
<1> DEFINE Good(i) == /\ f[i] \in Seq(X) /\ Once(f[i])
                      /\ Elements(f[i]) = {s[k] : k \in 1 .. i} \cap S
                      /\ i # 0 /\ s[1] \in S => f[i] # <<>> /\ f[i][1] = s[1]
           T == {i \in 0 .. Len(s) : ~ Good(i)}
<1>4. Good(0)
  <2>1. f[0] = <<>>
    BY <1>1, <1>2 DEF Selects
  <2> QED BY <2>1 DEF Once, Elements
<1>5. ASSUME NEW i \in 1 .. Len(s), Good(i - 1) PROVE Good(i)
  <2>1. f[i] = IF s[i] \in S THEN Append(f[i - 1], s[i]) ELSE f[i - 1]
    <3>1. i \in 0 .. Len(s) /\ i # 0
      BY <1>1
    <3> QED BY <1>2, <3>1 DEF Selects
  <2>2. {s[k] : k \in 1 .. i} = {s[k] : k \in 1 .. i - 1} \cup {s[i]}
    <3>1. \A k \in 1 .. i : k = i \/ k \in 1 .. i - 1
      BY <1>1
    <3>2. \A k \in 1 .. i - 1 : k \in 1 .. i
      BY <1>1
    <3> QED BY <3>1, <3>2, <1>1
  <2>3. CASE s[i] \in S
    <3>1. \A k \in 1 .. i - 1 : s[k] # s[i]
      BY <1>1 DEF Once
    <3> DEFINE q == f[i - 1]
               x == s[i]
    <3>2. q \in Seq(X) /\ Once(q) /\ x \in X /\ Elements(q) = {s[k] : k \in 1 .. i - 1} \cap S
      BY <1>5
    <3>3. f[i] = Append(q, x) /\ x \notin Elements(q)
      BY <2>1, <2>3, <3>1, <3>2
    <3> HIDE DEF q, x
    <3>4. /\ Append(q, x) \in Seq(X) /\ Once(Append(q, x))
          /\ Elements(Append(q, x)) = Elements(q) \cup {x}
      BY <3>2, <3>3, AppendOnce
    <3>5. Elements(f[i]) = ({s[k] : k \in 1 .. i - 1} \cap S) \cup {s[i]}
      BY <3>2, <3>3, <3>4 DEF x
    <3>6. Append(q, x) # <<>> /\ (q # <<>> => Append(q, x)[1] = q[1])
      BY <3>2
    <3>7. i = 1 => q = <<>>
      BY <1>2 DEF Selects, q
    <3>8. q = <<>> => Append(q, x)[1] = x
      BY <3>2
    <3>9. i # 0 /\ s[1] \in S => f[i] # <<>> /\ f[i][1] = s[1]
      BY <1>5, <3>3, <3>6, <3>7, <3>8 DEF q, x
    <3> QED BY <2>2, <2>3, <3>3, <3>4, <3>5, <3>9
  <2>4. CASE s[i] \notin S
    BY <1>5, <2>1, <2>2, <2>4
  <2> QED BY <2>3, <2>4
<1>6. T = {}
  <2> SUFFICES ASSUME T # {} PROVE FALSE
    OBVIOUS
  <2> HIDE DEF Good
  <2>1. PICK m \in T : \A i \in T : m <= i
    <3>1. T \in SUBSET Nat
      OBVIOUS
    <3> HIDE DEF T
    <3> QED BY <3>1, LeastNat
  <2>2. m \in 1 .. Len(s) /\ m - 1 \in 0 .. Len(s)
    BY <1>4, <2>1
  <2>3. Good(m - 1)
    BY <2>1, <2>2
  <2> QED BY <1>5, <2>1, <2>2, <2>3
<1>7. Good(Len(s))
  <2> HIDE DEF Good
  <2> QED BY <1>1, <1>6
<1>8. s # <<>> => Len(s) # 0
  OBVIOUS
<1> QED BY <1>1, <1>3, <1>7, <1>8 DEF Elements

LEMMA SelectFirst ==
  ASSUME NEW X, NEW s \in Seq(X), NEW S, Once(s), s # <<>>, s[1] \in S
  PROVE  Select(s, S) # <<>> /\ Select(s, S)[1] = s[1]
BY SelectProperties

-----------------------------------------------------------------------------
(* Sequences without repetition *)

LEMMA ConcatOnce ==
  ASSUME NEW X, NEW q \in Seq(X), NEW r \in Seq(X), Once(q), Once(r),
         Elements(q) \cap Elements(r) = {}
  PROVE  /\ q \o r \in Seq(X) /\ Once(q \o r)
         /\ Elements(q \o r) = Elements(q) \cup Elements(r)
<1> DEFINE c == q \o r
<1>1. /\ c \in Seq(X) /\ DOMAIN c = 1 .. Len(q) + Len(r)
      /\ Len(q) \in Nat /\ Len(r) \in Nat
      /\ DOMAIN q = 1 .. Len(q) /\ DOMAIN r = 1 .. Len(r)
  OBVIOUS
<1>2. /\ \A i \in 1 .. Len(q) : i \in DOMAIN c /\ c[i] = q[i]
      /\ \A i \in 1 .. Len(r) : Len(q) + i \in DOMAIN c /\ c[Len(q) + i] = r[i]
  BY <1>1
<1>3. \A i \in DOMAIN c :
        \/ i \in 1 .. Len(q)
        \/ i - Len(q) \in 1 .. Len(r) /\ i = Len(q) + (i - Len(q))
  BY <1>1
<1> HIDE DEF c
<1>4. Elements(c) = Elements(q) \cup Elements(r)
  <2>1. \A i \in DOMAIN c : c[i] \in Elements(q) \cup Elements(r)
    BY <1>1, <1>2, <1>3 DEF Elements
  <2>2. \A i \in DOMAIN q : q[i] \in Elements(c)
    BY <1>1, <1>2 DEF Elements
  <2>3. \A i \in DOMAIN r : r[i] \in Elements(c)
    BY <1>1, <1>2 DEF Elements
  <2> QED BY <2>1, <2>2, <2>3 DEF Elements
<1>5. Once(c)
  <2> SUFFICES ASSUME NEW i \in DOMAIN c, NEW j \in DOMAIN c, c[i] = c[j] PROVE i = j
    BY DEF Once
  <2>1. CASE i \in 1 .. Len(q) /\ j \in 1 .. Len(q)
    BY <1>1, <1>2, <2>1 DEF Once
  <2>2. CASE i \notin 1 .. Len(q) /\ j \notin 1 .. Len(q)
    <3> DEFINE k == i - Len(q)
               l == j - Len(q)
    <3>1. /\ k \in DOMAIN r /\ l \in DOMAIN r /\ i = Len(q) + k /\ j = Len(q) + l
      BY <1>1, <1>3, <2>2
    <3> HIDE DEF k, l
    <3>2. r[k] = r[l]
      BY <1>1, <1>2, <3>1
    <3> QED BY <3>1, <3>2 DEF Once
  <2>3. ASSUME NEW k \in DOMAIN c, NEW l \in DOMAIN c, k \in 1 .. Len(q), l \notin 1 .. Len(q)
        PROVE  c[k] # c[l]
    <3>1. c[k] \in Elements(q)
      BY <1>1, <1>2, <2>3 DEF Elements
    <3>2. c[l] \in Elements(r)
      <4>1. l - Len(q) \in 1 .. Len(r) /\ l = Len(q) + (l - Len(q))
        BY <1>3, <2>3
      <4> QED BY <1>1, <1>2, <4>1 DEF Elements
    <3> QED BY <3>1, <3>2
  <2> QED BY <2>1, <2>2, <2>3
<1> QED BY <1>1, <1>4, <1>5 DEF c

LEMMA TailOnce ==
  ASSUME NEW X, NEW q \in Seq(X), Once(q), q # <<>>
  PROVE  /\ Head(q) \in X /\ Head(q) \in Elements(q) /\ Head(q) = q[1]
         /\ Tail(q) \in Seq(X) /\ Once(Tail(q))
         /\ Elements(Tail(q)) = Elements(q) \ {Head(q)}
<1> DEFINE t == Tail(q)
<1>1. /\ Len(q) \in Nat \ {0} /\ DOMAIN q = 1 .. Len(q)
      /\ t \in Seq(X) /\ Len(t) = Len(q) - 1 /\ DOMAIN t = 1 .. Len(q) - 1
      /\ Head(q) = q[1] /\ Head(q) \in X
      /\ \A i \in 1 .. Len(q) - 1 : t[i] = q[i + 1]
  OBVIOUS
<1> HIDE DEF t
<1>2. \A i \in 1 .. Len(q) - 1 : i + 1 \in DOMAIN q /\ i + 1 # 1
  BY <1>1
<1>3. Once(t)
  <2> SUFFICES ASSUME NEW i \in DOMAIN t, NEW j \in DOMAIN t, t[i] = t[j] PROVE i = j
    BY DEF Once
  <2>1. i + 1 = j + 1
    BY <1>1, <1>2 DEF Once
  <2> QED BY <1>1, <2>1
<1>4. Elements(t) \subseteq Elements(q) \ {Head(q)}
  BY <1>1, <1>2 DEF Elements, Once
<1>5. ASSUME NEW x \in Elements(q) \ {Head(q)} PROVE x \in Elements(t)
  <2>1. PICK i \in DOMAIN q : x = q[i]
    BY DEF Elements
  <2>2. i - 1 \in DOMAIN t /\ t[i - 1] = q[(i - 1) + 1] /\ (i - 1) + 1 = i
    BY <1>1, <1>5, <2>1
  <2> QED BY <2>1, <2>2 DEF Elements
<1>6. Head(q) \in Elements(q)
  BY <1>1 DEF Elements
<1> QED BY <1>1, <1>3, <1>4, <1>5, <1>6 DEF t

LEMMA CountOnce ==
  ASSUME NEW X, NEW q \in Seq(X), Once(q)
  PROVE  IsFiniteSet(Elements(q)) /\ Cardinality(Elements(q)) = Len(q) /\ Len(q) \in Nat
<1>1. Len(q) \in Nat /\ DOMAIN q = 1 .. Len(q) /\ q \in [1 .. Len(q) -> Elements(q)]
  BY DEF Elements
<1>2. q \in Bijection(1 .. Len(q), Elements(q))
  BY <1>1 DEF Bijection, Injection, Surjection, IsInjective, Elements, Once
<1>3. ExistsBijection(1 .. Len(q), Elements(q))
  BY <1>2 DEF ExistsBijection
<1>4. IsFiniteSet(1 .. Len(q)) /\ Cardinality(1 .. Len(q)) = Len(q)
  BY <1>1, FS_Interval
<1> QED BY <1>1, <1>3, <1>4, FS_Bijection

-----------------------------------------------------------------------------
(* The graph *)

\* The nodes of the graph: an id that no task has is one only if it is named.
LEMMA NodesFacts ==
  ASSUME NEW d \in Dependencies
  PROVE  /\ Nodes(d) \in Seq(Ids) /\ Once(Nodes(d))
         /\ Nodes(d) # <<>> /\ Nodes(d)[1] = Root
         /\ Elements(Nodes(d)) = {Root} \cup Tasks \cup
               (IF \E t \in Tasks : Unknown \in d[t] THEN {Unknown} ELSE {})
<1> DEFINE more == IF \E t \in Tasks : Unknown \in d[t] THEN <<Unknown>> ELSE <<>>
           head == <<Root>> \o TaskList
<1>1. /\ <<Root>> \in Seq(Ids) /\ Once(<<Root>>) /\ Elements(<<Root>>) = {Root}
      /\ <<Unknown>> \in Seq(Ids) /\ Once(<<Unknown>>) /\ Elements(<<Unknown>>) = {Unknown}
      /\ <<>> \in Seq(Ids) /\ Once(<<>>) /\ Elements(<<>>) = {}
  BY DEF Ids, Elements, Once
<1>2. TaskList \in Seq(Ids) /\ Once(TaskList) /\ Elements(TaskList) = Tasks
  BY GraphAssumption DEF Ids, Elements, Once, Tasks
<1>3. /\ head \in Seq(Ids) /\ Once(head) /\ Elements(head) = {Root} \cup Tasks
      /\ head[1] = Root /\ Len(head) >= 1
  <2>1. /\ head \in Seq(Ids) /\ Once(head) /\ Elements(head) = {Root} \cup Tasks
    <3> DEFINE first == <<Root>>
    <3>1. /\ first \in Seq(Ids) /\ Once(first) /\ Elements(first) = {Root}
          /\ head = first \o TaskList
      BY <1>1
    <3>2. Elements(first) \cap Elements(TaskList) = {}
      BY <1>2, <3>1, GraphAssumption
    <3> HIDE DEF first, head
    <3> QED BY <1>2, <3>1, <3>2, ConcatOnce
  <2>2. head[1] = Root /\ Len(head) >= 1
    BY <1>1, <1>2
  <2> QED BY <2>1, <2>2
<1>4. /\ more \in Seq(Ids) /\ Once(more)
      /\ Elements(more) = IF \E t \in Tasks : Unknown \in d[t] THEN {Unknown} ELSE {}
  BY <1>1
<1>5. Nodes(d) = head \o more
  BY DEF Nodes
<1> HIDE DEF head, more
<1>6. Elements(head) \cap Elements(more) = {}
  BY <1>3, <1>4, GraphAssumption
<1>7. /\ head \o more \in Seq(Ids) /\ Once(head \o more)
      /\ Elements(head \o more) = Elements(head) \cup Elements(more)
  BY <1>3, <1>4, <1>6, ConcatOnce
<1>8. (head \o more)[1] = Root /\ head \o more # <<>>
  BY <1>3, <1>4
<1> QED BY <1>3, <1>4, <1>5, <1>7, <1>8

\* A parent of a node is a node.
LEMMA ParentsFacts ==
  ASSUME NEW d \in Dependencies, NEW v
  PROVE  /\ Parents(d, v) \subseteq Elements(Nodes(d)) /\ IsFiniteSet(Parents(d, v))
         /\ Parents(d, v) # {} => v \in Tasks
<1>1. Parents(d, v) \subseteq Elements(Nodes(d))
  BY NodesFacts DEF Parents, Dependencies, Ids
<1>2. IsFiniteSet(Elements(Nodes(d)))
  BY NodesFacts, CountOnce
<1> QED BY <1>1, <1>2, FS_Subset DEF Parents

-----------------------------------------------------------------------------
(* The loop *)

\* Nodes come off the queue once, parents first; those whose parents are all off
\* are in the queue or off it; and the degrees count the parents still to come.
KahnInv(d, s) ==
    /\ s \in KahnStates
    /\ Once(s.order) /\ Once(s.queue) /\ Elements(s.order) \cap Elements(s.queue) = {}
    /\ Elements(s.order) \cup Elements(s.queue)
         = {v \in Elements(Nodes(d)) : Parents(d, v) \subseteq Elements(s.order)}
    /\ \A v \in Ids : s.degree[v] = Cardinality(Parents(d, v) \ Elements(s.order))
    /\ \A j \in DOMAIN s.order :
          Parents(d, s.order[j]) \subseteq {s.order[i] : i \in 1 .. j - 1}
    /\ IF s.order = <<>> THEN s.queue # <<>> /\ s.queue[1] = Root ELSE s.order[1] = Root

LEMMA KahnInit ==
  ASSUME NEW d \in Dependencies
  PROVE  KahnInv(d, KahnStart(d))
<1> DEFINE S == {n \in Ids : Parents(d, n) = {}}
           q == Select(Nodes(d), S)
           s == KahnStart(d)
           g == [n \in Ids |-> Cardinality(Parents(d, n))]
<1>1. s = [degree |-> g, queue |-> q, order |-> <<>>]
  BY DEF KahnStart
<1>2. g \in [Ids -> Int]
  BY ParentsFacts, FS_CardinalityType
<1>3. Root \in S
  BY GraphAssumption DEF Parents, Ids
<1>4. /\ q \in Seq(Ids) /\ Once(q) /\ Elements(q) = Elements(Nodes(d)) \cap S
      /\ q # <<>> /\ q[1] = Root
  <2> DEFINE N == Nodes(d)
  <2>1. N \in Seq(Ids) /\ Once(N) /\ N # <<>> /\ N[1] = Root
    BY NodesFacts
  <2> HIDE DEF N, S
  <2>2. /\ Select(N, S) \in Seq(Ids) /\ Once(Select(N, S))
        /\ Elements(Select(N, S)) = Elements(N) \cap S
        /\ Select(N, S) # <<>> /\ Select(N, S)[1] = N[1]
    <3>1. N \in Seq(Ids) /\ Once(N) /\ N # <<>> /\ N[1] \in S
      BY <1>3, <2>1
    <3>2. /\ Select(N, S) \in Seq(Ids) /\ Once(Select(N, S))
          /\ Elements(Select(N, S)) = Elements(N) \cap S
      BY <3>1, SelectProperties
    <3>3. Select(N, S) # <<>> /\ Select(N, S)[1] = N[1]
      BY <3>1, SelectFirst
    <3> QED BY <3>2, <3>3
  <2> QED BY <2>1, <2>2 DEF N
<1>5. Elements(Nodes(d)) \subseteq Ids
  BY NodesFacts DEF Ids
<1>6. Elements(Nodes(d)) \cap S = {v \in Elements(Nodes(d)) : Parents(d, v) \subseteq {}}
  BY <1>5
<1>7. Once(<<>>) /\ Elements(<<>>) = {} /\ <<>> \in Seq(Ids) /\ DOMAIN <<>> = {}
  BY DEF Once, Elements
<1>8. \A v \in Ids : g[v] = Cardinality(Parents(d, v) \ {})
  OBVIOUS
<1> HIDE DEF q, g, S
<1>9. s \in KahnStates /\ s.degree = g /\ s.queue = q /\ s.order = <<>>
  BY <1>1, <1>2, <1>4, <1>7 DEF KahnStates
<1> HIDE DEF s
<1> QED BY <1>4, <1>6, <1>7, <1>8, <1>9 DEF KahnInv, s

LEMMA KahnKeeps ==
  ASSUME NEW d \in Dependencies, NEW s, KahnInv(d, s), s.queue # <<>>
  PROVE  /\ KahnInv(d, KahnStep(d, s))
         /\ Len(KahnStep(d, s).order) = Len(s.order) + 1
<1> DEFINE V == Elements(Nodes(d))
           P(v) == Parents(d, v)
           o == s.order
           q == s.queue
           E == Elements(o)
           Q == Elements(q)
           n == Head(q)
           next == {v \in Ids : n \in P(v)}
           free == {v \in next : s.degree[v] = 1}
           new == Select(Nodes(d), free)
           t == KahnStep(d, s)
           g == [v \in Ids |-> s.degree[v] - (IF v \in next THEN 1 ELSE 0)]
<1>1. t = [degree |-> g, queue |-> Tail(q) \o new, order |-> Append(o, n)]
  BY DEF KahnStep
<1>2. /\ o \in Seq(Ids) /\ q \in Seq(Ids) /\ s.degree \in [Ids -> Int]
      /\ Once(o) /\ Once(q) /\ E \cap Q = {}
      /\ E \cup Q = {v \in V : P(v) \subseteq E}
      /\ \A v \in Ids : s.degree[v] = Cardinality(P(v) \ E)
      /\ \A j \in DOMAIN o : P(o[j]) \subseteq {o[i] : i \in 1 .. j - 1}
      /\ IF o = <<>> THEN q[1] = Root ELSE o[1] = Root
  BY DEF KahnInv, KahnStates
<1>3. /\ n \in Ids /\ n \in Q /\ n = q[1] /\ Tail(q) \in Seq(Ids) /\ Once(Tail(q))
      /\ Elements(Tail(q)) = Q \ {n}
  BY <1>2, TailOnce
<1>4. n \in V /\ n \notin E /\ P(n) \subseteq E
  BY <1>2, <1>3
<1>5. V \subseteq Ids
  BY NodesFacts DEF Ids
<1>6. new \in Seq(Ids) /\ Once(new) /\ Elements(new) = V \cap free
  BY NodesFacts, SelectProperties
<1>7. ASSUME NEW v \in Ids
      PROVE  /\ g[v] = Cardinality(P(v) \ (E \cup {n})) /\ g[v] \in Int
             /\ v \in free <=> P(v) \subseteq E \cup {n} /\ ~ (P(v) \subseteq E)
  <2> DEFINE R == P(v) \ E
  <2>1. IsFiniteSet(R) /\ Cardinality(R) \in Nat
    <3>1. IsFiniteSet(P(v))
      BY ParentsFacts
    <3> QED BY <3>1, FS_Subset, FS_CardinalityType
  <2>2. s.degree[v] = Cardinality(R)
    BY <1>2
  <2>3. P(v) \ (E \cup {n}) = R \ {n} /\ (v \in next <=> n \in R)
    BY <1>4
  <2>4. Cardinality(R \ {n}) = IF n \in R THEN Cardinality(R) - 1 ELSE Cardinality(R)
    BY <2>1, FS_RemoveElement
  <2>5. g[v] = s.degree[v] - (IF v \in next THEN 1 ELSE 0)
    OBVIOUS
  <2>6. Cardinality(R) = 1 <=> \E x : R = {x}
    BY <2>1, FS_Singleton
  <2>7. v \in free <=> n \in R /\ Cardinality(R) = 1
    BY <2>2, <2>3
  <2>8. v \in free <=> R = {n}
    BY <2>6, <2>7
  <2>9. R = {n} <=> P(v) \subseteq E \cup {n} /\ ~ (P(v) \subseteq E)
    BY <1>4
  <2> HIDE DEF R, g, next, free, P, E, n
  <2>10. g[v] = Cardinality(R \ {n}) /\ g[v] \in Int
    BY <2>1, <2>2, <2>3, <2>4, <2>5
  <2> QED BY <2>3, <2>8, <2>9, <2>10
<1>8. /\ Append(o, n) \in Seq(Ids) /\ Once(Append(o, n))
      /\ Elements(Append(o, n)) = E \cup {n}
  BY <1>2, <1>3, <1>4, AppendOnce
<1>9. /\ Tail(q) \o new \in Seq(Ids) /\ Once(Tail(q) \o new)
      /\ Elements(Tail(q) \o new) = (Q \ {n}) \cup (V \cap free)
  <2>1. (Q \ {n}) \cap (V \cap free) = {}
    BY <1>2, <1>5, <1>7
  <2> DEFINE rest == Tail(q)
  <2>2. /\ rest \in Seq(Ids) /\ Once(rest) /\ Elements(rest) \cap Elements(new) = {}
        /\ new \in Seq(Ids) /\ Once(new)
    BY <1>3, <1>6, <2>1
  <2> HIDE DEF new, rest
  <2>3. /\ rest \o new \in Seq(Ids) /\ Once(rest \o new)
        /\ Elements(rest \o new) = Elements(rest) \cup Elements(new)
    BY <2>2, ConcatOnce
  <2> QED BY <1>3, <1>6, <2>3 DEF rest
<1>10. (E \cup {n}) \cap ((Q \ {n}) \cup (V \cap free)) = {}
  BY <1>2, <1>4, <1>5, <1>7
<1>11. (E \cup {n}) \cup ((Q \ {n}) \cup (V \cap free)) = {v \in V : P(v) \subseteq E \cup {n}}
  <2>1. (E \cup {n}) \cup ((Q \ {n}) \cup (V \cap free)) = (E \cup Q) \cup (V \cap free)
    BY <1>3
  <2>2. \A v \in V : v \in free <=> P(v) \subseteq E \cup {n} /\ ~ (P(v) \subseteq E)
    BY <1>5, <1>7
  <2>3. \A v \in V : P(v) \subseteq E => P(v) \subseteq E \cup {n}
    OBVIOUS
  <2> HIDE DEF free, V, P, E, Q, n
  <2>4. (E \cup Q) \cup (V \cap free) = {v \in V : P(v) \subseteq E \cup {n}}
    BY <1>2, <2>2, <2>3
  <2> QED BY <2>1, <2>4
<1>12. /\ Len(Append(o, n)) = Len(o) + 1 /\ Append(o, n) # <<>>
       /\ \A j \in DOMAIN Append(o, n) :
             P(Append(o, n)[j]) \subseteq {Append(o, n)[i] : i \in 1 .. j - 1}
       /\ Append(o, n)[1] = Root
  <2> DEFINE a == Append(o, n)
  <2>1. /\ Len(o) \in Nat /\ DOMAIN o = 1 .. Len(o) /\ DOMAIN a = 1 .. Len(o) + 1
        /\ Len(a) = Len(o) + 1 /\ a # <<>>
        /\ \A i \in 1 .. Len(o) : a[i] = o[i]
        /\ a[Len(o) + 1] = n /\ (o = <<>> <=> Len(o) = 0)
    BY <1>2
  <2> HIDE DEF a
  <2>2. ASSUME NEW j \in DOMAIN a PROVE P(a[j]) \subseteq {a[i] : i \in 1 .. j - 1}
    <3>1. \A i \in 1 .. j - 1 : i \in 1 .. Len(o) /\ a[i] = o[i]
      BY <2>1
    <3> HIDE DEF o, n, P
    <3>2. CASE j \in 1 .. Len(o)
      <4>1. P(o[j]) \subseteq {o[i] : i \in 1 .. j - 1}
        BY <1>2, <2>1, <3>2
      <4>2. {o[i] : i \in 1 .. j - 1} = {a[i] : i \in 1 .. j - 1}
        BY <3>1, <3>2
      <4> QED BY <2>1, <3>2, <4>1, <4>2
    <3>3. CASE j = Len(o) + 1
      <4>1. j - 1 = Len(o) /\ a[j] = n
        <5>1. Len(o) \in Nat /\ a[Len(o) + 1] = n
          BY <2>1
        <5> QED BY <3>3, <5>1
      <4>2. E = {o[i] : i \in 1 .. Len(o)}
        BY <2>1 DEF Elements
      <4>3. {o[i] : i \in 1 .. Len(o)} = {a[i] : i \in 1 .. j - 1}
        BY <3>1, <4>1
      <4> QED BY <1>4, <4>1, <4>2, <4>3
    <3> QED BY <2>1, <3>2, <3>3
  <2>3. a[1] = Root
    BY <1>2, <1>3, <2>1
  <2> QED BY <2>1, <2>2, <2>3 DEF a
<1>13. \A v \in Ids : g[v] = Cardinality(P(v) \ (E \cup {n}))
  BY <1>7
<1>14. g \in [Ids -> Int]
  BY <1>7
<1> HIDE DEF g, n, new
<1>15. /\ t \in KahnStates /\ t.degree = g /\ t.queue = Tail(q) \o new
       /\ t.order = Append(o, n)
  BY <1>1, <1>8, <1>9, <1>14 DEF KahnStates
<1>16. KahnInv(d, t)
  <2> DEFINE to == Append(o, n)
             tq == Tail(q) \o new
  <2> HIDE DEF t, to, tq
  <2>1. /\ t \in KahnStates /\ t.degree = g /\ t.queue = tq /\ t.order = to
    BY <1>15 DEF to, tq
  <2>2. /\ Once(to) /\ Once(tq) /\ Elements(to) \cap Elements(tq) = {}
        /\ Elements(to) \cup Elements(tq) = {v \in V : P(v) \subseteq Elements(to)}
        /\ \A v \in Ids : g[v] = Cardinality(P(v) \ Elements(to))
    BY <1>8, <1>9, <1>10, <1>11, <1>13 DEF to, tq
  <2>3. /\ \A j \in DOMAIN to : P(to[j]) \subseteq {to[i] : i \in 1 .. j - 1}
        /\ to # <<>> /\ to[1] = Root
    BY <1>12 DEF to
  <2> HIDE DEF V, P, g
  <2>4. t.order # <<>> /\ t.order[1] = Root
    BY <2>1, <2>3
  <2>5. /\ Once(t.order) /\ Once(t.queue) /\ Elements(t.order) \cap Elements(t.queue) = {}
        /\ Elements(t.order) \cup Elements(t.queue) = {v \in V : P(v) \subseteq Elements(t.order)}
        /\ \A v \in Ids : t.degree[v] = Cardinality(P(v) \ Elements(t.order))
    BY <2>1, <2>2
  <2>6. \A j \in DOMAIN t.order : P(t.order[j]) \subseteq {t.order[i] : i \in 1 .. j - 1}
    BY <2>1, <2>3
  <2> HIDE DEF to, tq
  <2> QED BY <2>1, <2>4, <2>5, <2>6, Zenon DEF KahnInv, V, P
<1> HIDE DEF t
<1> QED BY <1>12, <1>15, <1>16 DEF t

\* f is the recursive function of the loop.
Loops(f, d) ==
    f = [s \in KahnStates |-> IF s.queue = <<>> THEN s.order ELSE f[KahnStep(d, s)]]

LEMMA LoopExists ==
  ASSUME NEW d \in Dependencies
  PROVE  \E f : Loops(f, d) /\ KahnOrder(d) = f[KahnStart(d)]
<1> DEFINE Done == {s \in KahnStates : s.queue = <<>>}
           step == [s \in KahnStates |-> IF s.queue = <<>> THEN s ELSE KahnStep(d, s)]
           out == [s \in KahnStates |-> s.order]
<1>1. ASSUME NEW s \in KahnStates, s.queue # <<>> PROVE KahnStep(d, s) \in KahnStates
  <2> DEFINE q == s.queue
             n == Head(q)
             next == {v \in Ids : n \in Parents(d, v)}
             new == Select(Nodes(d), {v \in next : s.degree[v] = 1})
             g == [v \in Ids |-> s.degree[v] - (IF v \in next THEN 1 ELSE 0)]
  <2>1. q \in Seq(Ids) /\ s.order \in Seq(Ids) /\ s.degree \in [Ids -> Int]
    BY DEF KahnStates
  <2>2. n \in Ids /\ Tail(q) \in Seq(Ids)
    BY <1>1, <2>1
  <2>3. new \in Seq(Ids)
    BY NodesFacts, SelectProperties
  <2>4. g \in [Ids -> Int]
    BY <2>1
  <2>5. KahnStep(d, s) = [degree |-> g, queue |-> Tail(q) \o new, order |-> Append(s.order, n)]
    BY DEF KahnStep
  <2> HIDE DEF g, new, n
  <2>6. Tail(q) \o new \in Seq(Ids) /\ Append(s.order, n) \in Seq(Ids)
    BY <2>1, <2>2, <2>3
  <2> QED BY <2>4, <2>5, <2>6 DEF KahnStates
<1>2. Done \in SUBSET KahnStates /\ step \in [KahnStates -> KahnStates]
  BY <1>1
<1>3. PICK f : Iterates(f, KahnStates, Done, step, out)
  <2> HIDE DEF Done, step, out
  <2> QED BY <1>2, WhileLoop
<1>4. f = [s \in KahnStates |-> IF s.queue = <<>> THEN s.order ELSE f[KahnStep(d, s)]]
  <2>1. \A s \in KahnStates : (IF s \in Done THEN out[s] ELSE f[step[s]])
                               = IF s.queue = <<>> THEN s.order ELSE f[KahnStep(d, s)]
    OBVIOUS
  <2> HIDE DEF Done, step, out
  <2> QED BY <1>3, <2>1 DEF Iterates
<1> DEFINE L == CHOOSE L : Loops(L, d)
<1>5. Loops(L, d)
  BY <1>4 DEF Loops
<1>6. KahnOrder(d) = L[KahnStart(d)]
  BY DEF KahnOrder, Loops
<1> QED BY <1>5, <1>6

LEMMA KahnBounded ==
  ASSUME NEW d \in Dependencies, NEW s, KahnInv(d, s)
  PROVE  Len(Nodes(d)) - Len(s.order) \in Nat
<1>1. /\ s.order \in Seq(Ids) /\ Once(s.order)
      /\ Elements(s.order) \subseteq Elements(Nodes(d))
  BY DEF KahnInv, KahnStates
<1>2. Nodes(d) \in Seq(Ids) /\ Once(Nodes(d))
  BY NodesFacts
<1>3. /\ Cardinality(Elements(s.order)) = Len(s.order) /\ Len(s.order) \in Nat
      /\ IsFiniteSet(Elements(Nodes(d)))
      /\ Cardinality(Elements(Nodes(d))) = Len(Nodes(d)) /\ Len(Nodes(d)) \in Nat
  BY <1>1, <1>2, CountOnce
<1>4. Cardinality(Elements(s.order)) <= Cardinality(Elements(Nodes(d)))
  BY <1>1, <1>3, FS_Subset
<1> QED BY <1>3, <1>4

\* The loop ends, as every node comes off the queue once, and the invariant
\* holds where it ends.
LEMMA KahnEnds ==
  ASSUME NEW d \in Dependencies, NEW f, Loops(f, d), NEW s0, KahnInv(d, s0)
  PROVE  \E t : KahnInv(d, t) /\ t.queue = <<>> /\ f[s0] = t.order
<1> DEFINE left(s) == Len(Nodes(d)) - Len(s.order)
           Ends(s) == \E t : KahnInv(d, t) /\ t.queue = <<>> /\ f[s] = t.order
           T == {m \in Nat : \E s : KahnInv(d, s) /\ left(s) = m /\ ~ Ends(s)}
<1>1. ASSUME NEW s, KahnInv(d, s), s.queue # <<>>
      PROVE  LET t == KahnStep(d, s)
             IN  KahnInv(d, t) /\ left(t) = left(s) - 1 /\ left(t) \in Nat /\ f[s] = f[t]
  <2>1. KahnInv(d, KahnStep(d, s)) /\ Len(KahnStep(d, s).order) = Len(s.order) + 1
    BY <1>1, KahnKeeps
  <2>2. left(s) \in Nat /\ left(KahnStep(d, s)) \in Nat
    BY <1>1, <2>1, KahnBounded
  <2>3. Len(s.order) \in Nat /\ Len(Nodes(d)) \in Nat
    <3>1. s.order \in Seq(Ids) /\ Nodes(d) \in Seq(Ids)
      BY <1>1, NodesFacts DEF KahnInv, KahnStates
    <3> QED BY <3>1
  <2>4. s \in KahnStates
    BY <1>1 DEF KahnInv
  <2>5. f[s] = f[KahnStep(d, s)]
    BY <1>1, <2>4 DEF Loops
  <2> QED BY <2>1, <2>2, <2>3, <2>5
<1>2. ASSUME NEW s, KahnInv(d, s), s.queue = <<>> PROVE Ends(s)
  BY <1>2 DEF Loops, KahnInv
<1> HIDE DEF left, Ends
<1>3. T = {}
  <2> SUFFICES ASSUME T # {} PROVE FALSE
    OBVIOUS
  <2>1. PICK m \in T : \A i \in T : m <= i
    <3>1. T \in SUBSET Nat
      OBVIOUS
    <3> HIDE DEF T
    <3> QED BY <3>1, LeastNat
  <2>2. PICK s : KahnInv(d, s) /\ left(s) = m /\ ~ Ends(s)
    BY <2>1
  <2>3. s.queue # <<>>
    BY <1>2, <2>2
  <2> DEFINE t == KahnStep(d, s)
  <2>4. KahnInv(d, t) /\ left(t) = m - 1 /\ left(t) \in Nat /\ f[s] = f[t]
    BY <1>1, <2>2, <2>3
  <2> HIDE DEF t
  <2>5. ~ Ends(t)
    BY <2>2, <2>4 DEF Ends
  <2>6. left(t) \in T
    BY <2>4, <2>5
  <2> QED BY <2>1, <2>4, <2>6
<1>4. left(s0) \in Nat
  BY KahnBounded DEF left
<1> QED BY <1>3, <1>4 DEF Ends

\* kahn_topological_sort returns every node once and parents first, beginning
\* with the root, or finds a cycle, and it finds one only if there is one.
THEOREM KahnSorts ==
  ASSUME NEW d \in Dependencies
  PROVE  /\ KahnOrder(d) \in Seq(Ids)
         /\ Once(KahnOrder(d))
         /\ Acyclic(d) <=> ~ HasCycle(d)
         /\ ~ HasCycle(d) => IsTopological(d, KahnOrder(d)) /\ KahnOrder(d)[1] = Root
<1> DEFINE V == Elements(Nodes(d))
           o == KahnOrder(d)
           E == Elements(o)
<1>1. PICK t : KahnInv(d, t) /\ t.queue = <<>> /\ o = t.order
  <2>1. PICK f : Loops(f, d) /\ KahnOrder(d) = f[KahnStart(d)]
    BY LoopExists
  <2>2. KahnInv(d, KahnStart(d))
    BY KahnInit
  <2> QED BY <2>1, <2>2, KahnEnds
<1> HIDE DEF o
<1>2. /\ o \in Seq(Ids) /\ Once(o)
      /\ E = {v \in V : Parents(d, v) \subseteq E}
      /\ \A j \in DOMAIN o : Parents(d, o[j]) \subseteq {o[i] : i \in 1 .. j - 1}
      /\ o # <<>> => o[1] = Root
  <2>1. Elements(t.queue) = {}
    BY <1>1 DEF Elements
  <2>2. /\ o \in Seq(Ids) /\ Once(o)
        /\ E \cup Elements(t.queue) = {v \in V : Parents(d, v) \subseteq E}
        /\ \A j \in DOMAIN o : Parents(d, o[j]) \subseteq {o[i] : i \in 1 .. j - 1}
        /\ o # <<>> => o[1] = Root
    BY <1>1 DEF KahnInv, KahnStates
  <2> QED BY <2>1, <2>2
<1>3. /\ Nodes(d) \in Seq(Ids) /\ Once(Nodes(d))
      /\ V = {Root} \cup Tasks \cup (IF \E u \in Tasks : Unknown \in d[u] THEN {Unknown} ELSE {})
  BY NodesFacts
<1>4. HasCycle(d) <=> E # V
  <2>1. /\ IsFiniteSet(V) /\ Cardinality(V) = Len(Nodes(d))
        /\ Cardinality(E) = Len(o)
    BY <1>2, <1>3, CountOnce
  <2>2. E \subseteq V
    BY <1>2
  <2>3. Cardinality(E) = Cardinality(V) => E = V
    BY <2>1, <2>2, FS_Subset
  <2> QED BY <2>1, <2>3 DEF HasCycle, o
<1>5. ASSUME E # V PROVE ~ Acyclic(d)
  <2> DEFINE R == V \ E
  <2>1. \A v \in R : ~ (Parents(d, v) \subseteq E)
    BY <1>2
  <2>2. \A v \in R : v \in Tasks /\ d[v] \cap R # {}
    BY <2>1, ParentsFacts DEF Parents
  <2>3. R # {}
    BY <1>2, <1>5
  <2> HIDE DEF R
  <2> QED BY <2>2, <2>3 DEF Acyclic
<1>6. ASSUME E = V PROVE Acyclic(d) /\ IsTopological(d, o) /\ o[1] = Root
  <2>1. DOMAIN o = 1 .. Len(o) /\ Len(o) \in Nat
    BY <1>2
  <2>2. o[1] = Root
    <3>1. Root \in E
      BY <1>3, <1>6
    <3>2. o # <<>>
      BY <3>1 DEF Elements
    <3> QED BY <1>2, <3>2
  <2>3. Acyclic(d)
    <3> SUFFICES ASSUME NEW S \in (SUBSET Tasks) \ {{}} PROVE \E u \in S : d[u] \cap S = {}
      BY DEF Acyclic
    <3> DEFINE I == {i \in DOMAIN o : o[i] \in S}
    <3>1. I \in SUBSET Nat /\ I # {}
      <4>1. PICK u \in S : u \in E
        BY <1>3, <1>6
      <4>2. PICK i \in DOMAIN o : o[i] = u
        BY <4>1 DEF Elements
      <4> QED BY <2>1, <4>1, <4>2
    <3>2. PICK m \in I : \A i \in I : m <= i
      <4> HIDE DEF I
      <4> QED BY <3>1, LeastNat
    <3>3. d[o[m]] \subseteq {o[i] : i \in 1 .. m - 1}
      BY <1>2, <3>2 DEF Parents
    <3>4. \A i \in 1 .. m - 1 : i \in DOMAIN o /\ ~ (m <= i)
      BY <2>1, <3>2
    <3>5. d[o[m]] \cap S = {}
      BY <3>2, <3>3, <3>4
    <3> QED BY <3>2, <3>5
  <2>4. IsTopological(d, o)
    <3>1. Len(o) = Len(Nodes(d))
      BY <1>4, <1>6 DEF HasCycle, o
    <3>2. ASSUME NEW i \in DOMAIN o, NEW j \in DOMAIN o, o[i] \in Parents(d, o[j])
          PROVE  i < j
      <4>1. PICK k \in 1 .. j - 1 : o[k] = o[i]
        BY <1>2, <3>2
      <4>2. k \in DOMAIN o
        BY <2>1
      <4>3. k = i
        BY <1>2, <4>1, <4>2 DEF Once
      <4> QED BY <2>1, <4>1, <4>3
    <3> QED BY <1>6, <3>1, <3>2 DEF IsTopological, Elements
  <2> QED BY <2>2, <2>3, <2>4
<1> QED BY <1>2, <1>4, <1>5, <1>6 DEF o

=============================================================================
