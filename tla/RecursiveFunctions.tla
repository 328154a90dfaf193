-------------------------- MODULE RecursiveFunctions -------------------------
(***************************************************************************)
(* Induction over a measure, and the existence of recursive functions, as   *)
(* theorems without operator parameters: a module that defines              *)
(*        f[v \in S] == Def(f, v)                                           *)
(* instantiates this one with the body of its definition for Def, and with  *)
(* what is known of f[v] for Good(v, f[v]); it cites FunctionExists with a  *)
(* measure that the recursive calls lower.                                  *)
(***************************************************************************)
EXTENDS Naturals, WellFoundedInduction, TLAPS

CONSTANTS Def(_, _), Good(_, _)

LEMMA SmallestMember ==
  ASSUME NEW T \in SUBSET Nat, T # {}
  PROVE  \E x \in T : \A y \in T : ~(y < x)
  <1>1. \E x \in T : \A y \in T : ~(<<y, x>> \in OpToRel(<, Nat))
    BY NatLessThanWellFounded, WFMin
  <1>2. QED
    BY <1>1 DEF OpToRel

\* A set that has v whenever it has all of smaller measure has everything.
THEOREM MeasureInduction ==
  ASSUME NEW S, NEW measure, \A v \in S : measure[v] \in Nat,
         NEW T, \A v \in S : (\A w \in S : measure[w] < measure[v] => w \in T) => v \in T
  PROVE  S \subseteq T
  <1> DEFINE Measures == {measure[v] : v \in S \ T}
  <1> SUFFICES ASSUME S \ T # {} PROVE FALSE
    OBVIOUS
  <1>1. Measures # {} /\ Measures \in SUBSET Nat
    OBVIOUS
  <1>2. PICK n \in Measures : \A m \in Measures : ~(m < n)
    BY <1>1, SmallestMember
  <1>3. PICK v \in S \ T : n = measure[v]
    BY <1>2
  <1>4. \A w \in S : measure[w] < measure[v] => w \in T
    BY <1>2, <1>3
  <1>5. QED
    BY <1>3, <1>4

\* A set that has 0, and n + 1 whenever it has n, has every natural number.
THEOREM SetInduction ==
  ASSUME NEW S, 0 \in S, \A n \in Nat : n \in S => n + 1 \in S
  PROVE  Nat \subseteq S
  <1> SUFFICES ASSUME Nat \ S # {} PROVE FALSE
    OBVIOUS
  <1>1. PICK m \in Nat \ S : \A k \in Nat \ S : ~(k < m)
    BY SmallestMember
  <1>2. m - 1 \in Nat /\ m - 1 < m
    BY <1>1
  <1>3. QED
    BY <1>1, <1>2

-----------------------------------------------------------------------------

\* As long as they are good, Def(g, v) depends on the values of g at arguments
\* of a smaller measure only, and is good.
Local(S, measure) ==
  \A v \in S : \A g, h :
    (\A w \in S : measure[w] < measure[v] => g[w] = h[w] /\ Good(w, g[w]))
      => Def(g, v) = Def(h, v) /\ Good(v, Def(g, v))

\* g follows the recursion up to measure n.
Follows(S, measure, g, n) == \A v \in S : measure[v] < n => g[v] = Def(g, v) /\ Good(v, g[v])

LEMMA FollowersExist ==
  ASSUME NEW S, NEW measure \in [S -> Nat], Local(S, measure), NEW n \in Nat
  PROVE  \E g : Follows(S, measure, g, n)
  <1> DEFINE T == {k \in Nat : \E g : Follows(S, measure, g, k)}
  <1>1. 0 \in T
    <2>1. \A g : Follows(S, measure, g, 0)
      BY DEF Follows
    <2>2. QED
      BY <2>1
  <1>2. ASSUME NEW k \in Nat, k \in T PROVE k + 1 \in T
    <2>1. PICK g : Follows(S, measure, g, k)
      BY <1>2
    <2> DEFINE h == [v \in S |-> Def(g, v)]
    <2>2. ASSUME NEW v \in S, measure[v] < k + 1 PROVE h[v] = Def(h, v) /\ Good(v, h[v])
      <3>1. ASSUME NEW w \in S, measure[w] < measure[v] PROVE g[w] = h[w] /\ Good(w, g[w])
        <4>1. measure[w] < k
          BY <2>2, <3>1
        <4>2. QED
          BY <2>1, <4>1 DEF Follows
      <3> HIDE DEF h
      <3>2. Def(g, v) = Def(h, v) /\ Good(v, Def(g, v))
        BY <3>1 DEF Local
      <3>3. h[v] = Def(g, v)
        BY DEF h
      <3>4. QED
        BY <3>2, <3>3
    <2> HIDE DEF h
    <2>3. Follows(S, measure, h, k + 1)
      BY <2>2 DEF Follows
    <2>4. QED
      BY <2>3
  <1> HIDE DEF T
  <1>3. Nat \subseteq T
    BY <1>1, <1>2, SetInduction
  <1>4. QED
    BY <1>3 DEF T

LEMMA FollowersAgree ==
  ASSUME NEW S, NEW measure \in [S -> Nat], Local(S, measure), NEW n \in Nat, NEW m \in Nat,
         NEW g, Follows(S, measure, g, n), NEW h, Follows(S, measure, h, m)
  PROVE  \A v \in S : measure[v] < n /\ measure[v] < m => g[v] = h[v]
  <1> DEFINE T == {v \in S : measure[v] < n /\ measure[v] < m => g[v] = h[v]}
  <1>1. ASSUME NEW v \in S, \A w \in S : measure[w] < measure[v] => w \in T,
               measure[v] < n, measure[v] < m
        PROVE  g[v] = h[v]
    <2>1. ASSUME NEW w \in S, measure[w] < measure[v] PROVE g[w] = h[w] /\ Good(w, g[w])
      <3>1. measure[w] < n /\ measure[w] < m
        BY <1>1, <2>1
      <3>2. QED
        BY <1>1, <2>1, <3>1 DEF Follows
    <2>2. Def(g, v) = Def(h, v)
      BY <2>1 DEF Local
    <2>3. QED
      BY <1>1, <2>2 DEF Follows
  <1>2. \A v \in S : (\A w \in S : measure[w] < measure[v] => w \in T) => v \in T
    BY <1>1
  <1>3. \A v \in S : measure[v] \in Nat
    OBVIOUS
  <1> HIDE DEF T
  <1>4. S \subseteq T
    BY <1>2, <1>3, MeasureInduction
  <1>5. QED
    BY <1>4 DEF T

\* A body that is local for some measure has a function on S that satisfies it.
THEOREM FunctionExists ==
  ASSUME NEW S, NEW measure \in [S -> Nat], Local(S, measure)
  PROVE  \E f : f = [v \in S |-> Def(f, v)]
  <1> DEFINE G(v) == CHOOSE g : Follows(S, measure, g, measure[v] + 1)
             f == [v \in S |-> G(v)[v]]
  <1>1. ASSUME NEW v \in S PROVE Follows(S, measure, G(v), measure[v] + 1)
    <2>1. measure[v] + 1 \in Nat
      OBVIOUS
    <2>2. \E g : Follows(S, measure, g, measure[v] + 1)
      BY <2>1, FollowersExist
    <2>3. QED
      BY <2>2
  <1>2. \A v \in S : f[v] = G(v)[v]
    OBVIOUS
  <1>3. f = [v \in S |-> f[v]]
    OBVIOUS
  <1> HIDE DEF G, f
  <1>4. ASSUME NEW v \in S PROVE f[v] = Def(f, v)
    <2>1. G(v)[v] = Def(G(v), v)
      BY <1>1 DEF Follows
    <2>2. ASSUME NEW w \in S, measure[w] < measure[v] PROVE G(v)[w] = f[w] /\ Good(w, G(v)[w])
      <3>1. /\ Follows(S, measure, G(v), measure[v] + 1) /\ measure[v] + 1 \in Nat
            /\ Follows(S, measure, G(w), measure[w] + 1) /\ measure[w] + 1 \in Nat
            /\ measure[w] < measure[v] + 1 /\ measure[w] < measure[w] + 1
        BY <1>1, <2>2
      <3>2. G(v)[w] = G(w)[w]
        BY <3>1, FollowersAgree
      <3>3. Good(w, G(v)[w])
        BY <3>1 DEF Follows
      <3>4. QED
        BY <1>2, <3>2, <3>3
    <2>3. Def(G(v), v) = Def(f, v)
      BY <2>2 DEF Local
    <2>4. QED
      BY <1>2, <2>1, <2>3
  <1>5. f = [v \in S |-> Def(f, v)]
    BY <1>3, <1>4
  <1>6. QED
    BY <1>5

\* And the values of that function are good.
THEOREM ValuesGood ==
  ASSUME NEW S, NEW measure \in [S -> Nat], Local(S, measure),
         NEW f, f = [v \in S |-> Def(f, v)]
  PROVE  \A v \in S : Good(v, f[v])
  <1> DEFINE T == {v \in S : Good(v, f[v])}
  <1>1. ASSUME NEW v \in S, \A w \in S : measure[w] < measure[v] => w \in T
        PROVE  Good(v, f[v])
    <2>1. \A w \in S : measure[w] < measure[v] => f[w] = f[w] /\ Good(w, f[w])
      BY <1>1
    <2>2. Good(v, Def(f, v))
      BY <2>1 DEF Local
    <2>3. f[v] = Def(f, v)
      OBVIOUS
    <2>4. QED
      BY <2>2, <2>3
  <1>2. \A v \in S : (\A w \in S : measure[w] < measure[v] => w \in T) => v \in T
    BY <1>1
  <1>3. \A v \in S : measure[v] \in Nat
    OBVIOUS
  <1> HIDE DEF T
  <1>4. S \subseteq T
    BY <1>2, <1>3, MeasureInduction
  <1>5. QED
    BY <1>4 DEF T
=============================================================================
