------------------------------- MODULE SetSums -------------------------------
(***************************************************************************)
(* Sums over finite sets, for the modules that add up the rows of a table: *)
(* SumFunctionOnSet does not depend on the order in which it takes its     *)
(* elements, and splits where its set does.                                *)
(***************************************************************************)
EXTENDS Integers, FiniteSetsExt, FiniteSetTheorems, WellFoundedInduction, TLAPS

\* Counting down has an end.
LEMMA LeastNumber ==
    ASSUME NEW S \in SUBSET Nat, S # {}
    PROVE  \E x \in S : \A y \in S : x <= y
<1>1. PICK x \in S : \A y \in S : ~(<<y, x>> \in OpToRel(<, Nat))
    BY NatLessThanWellFounded, WFMin, Zenon
<1>2. \A y \in S : ~(y < x)
    BY <1>1 DEF OpToRel
<1> QED BY <1>2

\* Among finite sets there is one that holds no smaller one: the induction over
\* finite sets, as the absence of a smallest counterexample.
LEMMA SmallestSet ==
    ASSUME NEW F, F # {}, \A s \in F : IsFiniteSet(s)
    PROVE  \E s \in F : \A x \in s : s \ {x} \notin F
<1> DEFINE N == {Cardinality(s) : s \in F}
<1>1. N \in SUBSET Nat /\ N # {}
    BY FS_CardinalityType
<1>2. PICK n \in N : \A m \in N : n <= m
    BY <1>1, LeastNumber
<1>3. PICK s \in F : Cardinality(s) = n
    OBVIOUS
<1>4. ASSUME NEW x \in s, s \ {x} \in F PROVE FALSE
    <2>1. Cardinality(s \ {x}) = n - 1
        BY <1>3, FS_RemoveElement
    <2>2. n <= n - 1 /\ n \in Nat
        BY <1>1, <1>2, <1>4, <2>1
    <2> QED BY <2>2
<1> QED BY <1>4

-----------------------------------------------------------------------------
(* What the sum of a function over a set is.                                 *)

Chosen(s) == CHOOSE x \in s : TRUE
Sums(f, S, g) ==
    g = [s \in SUBSET S |-> IF s = {} THEN 0 ELSE f[Chosen(s)] + g[s \ {Chosen(s)}]]
Adds(f, S) == \A x \in S : f[x] \in Int

LEMMA SumIsChosen ==
    ASSUME NEW f, NEW S
    PROVE  SumFunctionOnSet(f, S) = (CHOOSE g : Sums(f, S, g))[S]
BY DEF SumFunctionOnSet, FoldFunctionOnSet, MapThenFoldSet, Sums, Chosen

LEMMA ChosenIsIn ==
    ASSUME NEW s, s # {}
    PROVE  Chosen(s) \in s
BY Zenon DEF Chosen

LEMMA SumsStep ==
    ASSUME NEW f, NEW S, NEW g, Sums(f, S, g)
    PROVE  \A s \in SUBSET S :
              g[s] = (IF s = {} THEN 0 ELSE f[Chosen(s)] + g[s \ {Chosen(s)}])
BY DEF Sums

\* The partial sums are numbers, and the same for two supersets.
LEMMA SumsAgree ==
    ASSUME NEW f, NEW S, NEW T, NEW g, NEW h, IsFiniteSet(S), Adds(f, S),
           Sums(f, S, g), Sums(f, T, h)
    PROVE  \A s \in SUBSET S : s \subseteq T => g[s] = h[s] /\ g[s] \in Int
<1> DEFINE F == {s \in SUBSET S : s \subseteq T /\ ~(g[s] = h[s] /\ g[s] \in Int)}
<1>1. ASSUME F # {} PROVE FALSE
    <2>1. \A s \in F : IsFiniteSet(s)
        BY FS_Subset
    <2>2. PICK s \in F : \A x \in s : s \ {x} \notin F
        BY <1>1, <2>1, SmallestSet
    <2>3. g[s] = (IF s = {} THEN 0 ELSE f[Chosen(s)] + g[s \ {Chosen(s)}])
        BY DEF Sums
    <2>4. h[s] = (IF s = {} THEN 0 ELSE f[Chosen(s)] + h[s \ {Chosen(s)}])
        BY DEF Sums
    <2>5. CASE s = {}
        BY <2>3, <2>4, <2>5
    <2>6. CASE s # {}
        <3>1. Chosen(s) \in s
            BY <2>6, ChosenIsIn
        <3> DEFINE t == s \ {Chosen(s)}
        <3>2. g[t] = h[t] /\ g[t] \in Int
            BY <2>2, <3>1
        <3>3. f[Chosen(s)] \in Int
            BY <3>1 DEF Adds
        <3> HIDE DEF t
        <3>4. g[s] = f[Chosen(s)] + g[t] /\ h[s] = f[Chosen(s)] + h[t]
            BY <2>3, <2>4, <2>6 DEF t
        <3> QED BY <3>2, <3>3, <3>4
    <2> QED BY <2>5, <2>6
<1> QED BY <1>1

\* There are such partial sums: those of the subsets, put together.
LEMMA SumsExist ==
    ASSUME NEW f, NEW S, IsFiniteSet(S), Adds(f, S)
    PROVE  \E g : Sums(f, S, g)
<1> DEFINE F == {s \in SUBSET S : ~\E g : Sums(f, s, g)}
<1>1. \A s \in SUBSET S : IsFiniteSet(s) /\ Adds(f, s)
    BY FS_Subset DEF Adds
<1>2. ASSUME F # {} PROVE FALSE
    <2>1. \A s \in F : IsFiniteSet(s)
        BY <1>1
    <2>2. PICK s \in F : \A x \in s : s \ {x} \notin F
        BY <1>2, <2>1, SmallestSet
    <2>3. \A x \in s : \E g : Sums(f, s \ {x}, g)
        BY <2>2
    <2> DEFINE part(x) == CHOOSE g : Sums(f, s \ {x}, g)
               without(u) == CHOOSE x \in s : x \notin u
               G(u) == part(without(u))[u]
               g == [u \in SUBSET s |->
                        IF u = {} THEN 0
                        ELSE IF u = s THEN f[Chosen(s)] + G(s \ {Chosen(s)})
                        ELSE G(u)]
    <2>4. \A x \in s : Sums(f, s \ {x}, part(x))
        BY <2>3, Zenon
    <2>5. \A u \in SUBSET s : u # s => without(u) \in s /\ without(u) \notin u
        <3> TAKE u \in SUBSET s
        <3> HAVE u # s
        <3>1. \E x \in s : x \notin u
            OBVIOUS
        <3> QED BY <3>1, Zenon
    <2>6. ASSUME NEW x \in s, NEW y \in s, NEW u \in SUBSET s, x \notin u, y \notin u
          PROVE  part(x)[u] = part(y)[u]
        <3>1. u \in SUBSET (s \ {x}) /\ u \subseteq s \ {y}
            BY <2>6
        <3>2. s \ {x} \in SUBSET S
            OBVIOUS
        <3> HIDE DEF part
        <3>3. IsFiniteSet(s \ {x}) /\ Adds(f, s \ {x})
            BY <1>1, <3>2
        <3>4. Sums(f, s \ {x}, part(x)) /\ Sums(f, s \ {y}, part(y))
            BY <2>4
        <3>5. \A w \in SUBSET (s \ {x}) : w \subseteq s \ {y} => part(x)[w] = part(y)[w]
            BY <3>3, <3>4, SumsAgree
        <3> QED BY <3>1, <3>5
    <2> HIDE DEF part, without
    <2>7. ASSUME NEW u \in SUBSET s, u # s, u # {}
          PROVE  G(u) = f[Chosen(u)] + G(u \ {Chosen(u)})
        <3> DEFINE v == u \ {Chosen(u)}
                   x == without(u)
        <3>1. x \in s /\ x \notin u /\ v \in SUBSET s /\ v # s /\ x \notin v
            BY <2>5, <2>7
        <3>2. part(x)[u] = f[Chosen(u)] + part(x)[v]
            <4>1. u \in SUBSET (s \ {x})
                BY <3>1
            <4>2. Sums(f, s \ {x}, part(x))
                BY <2>4, <3>1
            <4>3. part(x)[u] = (IF u = {} THEN 0
                                ELSE f[Chosen(u)] + part(x)[u \ {Chosen(u)}])
                BY <4>1, <4>2, SumsStep
            <4> QED BY <2>7, <4>3
        <3>3. without(v) \in s /\ without(v) \notin v
            BY <2>5, <3>1
        <3>4. part(x)[v] = part(without(v))[v]
            BY <2>6, <3>1, <3>3
        <3> QED BY <3>2, <3>4
    <2>8. s # {} => G({}) = 0
        <3> HAVE s # {}
        <3>1. without({}) \in s
            BY <2>5
        <3>2. Sums(f, s \ {without({})}, part(without({})))
            BY <2>4, <3>1
        <3>3. {} \in SUBSET (s \ {without({})})
            OBVIOUS
        <3> QED BY <3>2, <3>3 DEF Sums
    <2> HIDE DEF G
    <2>9. ASSUME NEW u \in SUBSET s
           PROVE  g[u] = (IF u = {} THEN 0 ELSE f[Chosen(u)] + g[u \ {Chosen(u)}])
        <3>1. CASE u = {}
            BY <3>1
        <3>2. CASE u # {}
            <4> DEFINE v == u \ {Chosen(u)}
            <4>1. Chosen(u) \in u /\ v \in SUBSET s /\ v # s
                BY <3>2, ChosenIsIn
            <4>2. g[v] = G(v)
                BY <2>8, <3>2, <4>1
            <4>3. g[u] = f[Chosen(u)] + G(v)
                <5>1. CASE u = s
                    BY <3>2, <5>1
                <5>2. CASE u # s
                    BY <2>7, <3>2, <5>2
                <5> QED BY <5>1, <5>2
            <4> QED BY <3>2, <4>2, <4>3
        <3> QED BY <3>1, <3>2
    <2>10. g = [u \in SUBSET s |-> g[u]]
        OBVIOUS
    <2> HIDE DEF g
    <2>11. Sums(f, s, g)
        BY <2>9, <2>10 DEF Sums
    <2> QED BY <2>11
<1> QED BY <1>2

LEMMA SumIsOf ==
    ASSUME NEW f, NEW S, IsFiniteSet(S), Adds(f, S)
    PROVE  \E g : Sums(f, S, g) /\ SumFunctionOnSet(f, S) = g[S]
<1>1. \E g : Sums(f, S, g)
    BY SumsExist
<1>2. Sums(f, S, CHOOSE g : Sums(f, S, g))
    BY <1>1, Zenon
<1> QED BY <1>2, SumIsChosen

\* Any partial sums end in the sum.
LEMMA SumIsAny ==
    ASSUME NEW f, NEW S, IsFiniteSet(S), Adds(f, S), NEW g, Sums(f, S, g)
    PROVE  g[S] = SumFunctionOnSet(f, S)
<1>1. PICK h : Sums(f, S, h) /\ SumFunctionOnSet(f, S) = h[S]
    BY SumIsOf
<1>2. S \in SUBSET S /\ S \subseteq S
    OBVIOUS
<1> QED BY <1>1, <1>2, SumsAgree

LEMMA SumType ==
    ASSUME NEW f, NEW S, IsFiniteSet(S), Adds(f, S)
    PROVE  SumFunctionOnSet(f, S) \in Int
<1>1. PICK h : Sums(f, S, h) /\ SumFunctionOnSet(f, S) = h[S]
    BY SumIsOf
<1>2. S \in SUBSET S /\ S \subseteq S
    OBVIOUS
<1> QED BY <1>1, <1>2, SumsAgree

LEMMA SumOfNothing ==
    ASSUME NEW f
    PROVE  SumFunctionOnSet(f, {}) = 0
<1>1. IsFiniteSet({}) /\ Adds(f, {})
    BY FS_EmptySet DEF Adds
<1>2. PICK h : Sums(f, {}, h) /\ SumFunctionOnSet(f, {}) = h[{}]
    BY <1>1, SumIsOf
<1> QED BY <1>2, SumsStep

LEMMA SumOfChosen ==
    ASSUME NEW f, NEW S, IsFiniteSet(S), Adds(f, S), S # {}
    PROVE  SumFunctionOnSet(f, S)
              = f[Chosen(S)] + SumFunctionOnSet(f, S \ {Chosen(S)})
<1> DEFINE T == S \ {Chosen(S)}
<1>1. PICK g : Sums(f, S, g) /\ SumFunctionOnSet(f, S) = g[S]
    BY SumIsOf
<1>2. T \in SUBSET S /\ S \in SUBSET S /\ T \subseteq T
    OBVIOUS
<1>3. g[S] = f[Chosen(S)] + g[T]
    BY <1>1, <1>2, SumsStep
<1>4. IsFiniteSet(T) /\ Adds(f, T)
    BY <1>2, FS_Subset DEF Adds
<1>5. PICK h : Sums(f, T, h) /\ SumFunctionOnSet(f, T) = h[T]
    BY <1>4, SumIsOf
<1>6. g[T] = h[T]
    BY <1>1, <1>2, <1>5, SumsAgree
<1> QED BY <1>1, <1>3, <1>5, <1>6

\* Any element can be taken first.
THEOREM SumTakesAny ==
    ASSUME NEW f, NEW S, IsFiniteSet(S), Adds(f, S), NEW x \in S
    PROVE  SumFunctionOnSet(f, S) = f[x] + SumFunctionOnSet(f, S \ {x})
<1> DEFINE sum(s) == SumFunctionOnSet(f, s)
           F == {s \in SUBSET S : \E y \in s : ~(sum(s) = f[y] + sum(s \ {y}))}
<1>1. \A s \in SUBSET S : IsFiniteSet(s) /\ Adds(f, s)
    BY FS_Subset DEF Adds
<1>2. \A s \in SUBSET S : sum(s) \in Int
    BY <1>1, SumType
<1>3. \A s \in SUBSET S : s # {} => Chosen(s) \in s /\ sum(s) = f[Chosen(s)] + sum(s \ {Chosen(s)})
    BY <1>1, ChosenIsIn, SumOfChosen
<1> HIDE DEF sum
<1>4. ASSUME F # {} PROVE FALSE
    <2>1. \A s \in F : IsFiniteSet(s)
        BY <1>1
    <2>2. PICK s \in F : \A y \in s : s \ {y} \notin F
        BY <1>4, <2>1, SmallestSet
    <2>3. PICK y \in s : ~(sum(s) = f[y] + sum(s \ {y}))
        OBVIOUS
    <2> DEFINE c == Chosen(s)
    <2>4. c \in s /\ sum(s) = f[c] + sum(s \ {c})
        BY <1>3
    <2>5. c # y
        BY <2>3, <2>4
    <2> HIDE DEF c
    <2>6. s \ {c} \in SUBSET S /\ y \in s \ {c} /\ s \ {y} \in SUBSET S /\ c \in s \ {y}
        BY <2>4, <2>5
    <2>7. sum(s \ {c}) = f[y] + sum((s \ {c}) \ {y})
        BY <2>2, <2>4, <2>6
    <2>8. sum(s \ {y}) = f[c] + sum((s \ {y}) \ {c})
        BY <2>2, <2>6
    <2>9. PICK u \in SUBSET S : u = (s \ {c}) \ {y} /\ u = (s \ {y}) \ {c}
        BY <2>6
    <2>10. sum(s \ {c}) = f[y] + sum(u) /\ sum(s \ {y}) = f[c] + sum(u)
        BY <2>7, <2>8, <2>9, Zenon
    <2>11. f[c] \in Int /\ f[y] \in Int /\ sum(u) \in Int
        BY <1>2, <2>4 DEF Adds
    <2> QED BY <2>3, <2>4, <2>10, <2>11
<1>5. S \in SUBSET S
    OBVIOUS
<1> QED BY <1>4, <1>5 DEF sum

THEOREM SumAdds ==
    ASSUME NEW f, NEW S, IsFiniteSet(S), NEW x, x \notin S, Adds(f, S \cup {x})
    PROVE  SumFunctionOnSet(f, S \cup {x}) = SumFunctionOnSet(f, S) + f[x]
<1> DEFINE sum(s) == SumFunctionOnSet(f, s)
<1>1. PICK T : T = S \cup {x} /\ T \ {x} = S
    OBVIOUS
<1>2. IsFiniteSet(T) /\ x \in T /\ Adds(f, T)
    BY <1>1, FS_AddElement
<1>3. Adds(f, S) /\ f[x] \in Int
    BY DEF Adds
<1>4. sum(S) \in Int
    BY <1>3, SumType
<1>5. sum(T) = f[x] + sum(T \ {x})
    BY <1>2, SumTakesAny
<1> HIDE DEF sum
<1>6. sum(T) = f[x] + sum(S) /\ sum(T) = sum(S \cup {x})
    BY <1>1, <1>5, Zenon
<1>7. sum(S \cup {x}) = sum(S) + f[x]
    BY <1>3, <1>4, <1>6
<1> QED BY <1>7 DEF sum

-----------------------------------------------------------------------------
(* What follows for all sums, each by the absence of a smallest              *)
(* counterexample among the subsets.                                         *)

THEOREM SumOfLess ==
    ASSUME NEW f, NEW g, NEW S, IsFiniteSet(S), Adds(f, S), Adds(g, S),
           \A x \in S : f[x] <= g[x]
    PROVE  SumFunctionOnSet(f, S) <= SumFunctionOnSet(g, S)
<1> DEFINE a(s) == SumFunctionOnSet(f, s)
           b(s) == SumFunctionOnSet(g, s)
           F == {s \in SUBSET S : ~(a(s) <= b(s))}
<1>1. \A s \in SUBSET S : IsFiniteSet(s) /\ Adds(f, s) /\ Adds(g, s)
    BY FS_Subset DEF Adds
<1>2. \A s \in SUBSET S : a(s) \in Int /\ b(s) \in Int
    BY <1>1, SumType
<1>3. \A s \in SUBSET S : \A x \in s : a(s) = f[x] + a(s \ {x})
    BY <1>1, SumTakesAny
<1>4. \A s \in SUBSET S : \A x \in s : b(s) = g[x] + b(s \ {x})
    BY <1>1, SumTakesAny
<1>5. a({}) = 0 /\ b({}) = 0
    BY SumOfNothing
<1> HIDE DEF a, b
<1>6. ASSUME F # {} PROVE FALSE
    <2>1. PICK s \in F : \A x \in s : s \ {x} \notin F
        BY <1>1, <1>6, SmallestSet
    <2>2. s # {}
        BY <1>5, <2>1
    <2>3. PICK x \in s : TRUE
        BY <2>2
    <2>4. s \ {x} \in SUBSET S /\ a(s \ {x}) <= b(s \ {x})
        BY <2>1
    <2>5. f[x] \in Int /\ g[x] \in Int /\ f[x] <= g[x]
        BY DEF Adds
    <2> QED BY <1>2, <1>3, <1>4, <2>1, <2>4, <2>5
<1>7. S \in SUBSET S
    OBVIOUS
<1>8. a(S) <= b(S)
    BY <1>6, <1>7
<1> QED BY <1>8 DEF a, b

THEOREM SumOfSame ==
    ASSUME NEW f, NEW g, NEW S, IsFiniteSet(S), Adds(f, S),
           \A x \in S : f[x] = g[x]
    PROVE  SumFunctionOnSet(f, S) = SumFunctionOnSet(g, S)
<1>1. Adds(g, S) /\ (\A x \in S : f[x] <= g[x]) /\ (\A x \in S : g[x] <= f[x])
    BY DEF Adds
<1>2. /\ SumFunctionOnSet(f, S) <= SumFunctionOnSet(g, S)
      /\ SumFunctionOnSet(g, S) <= SumFunctionOnSet(f, S)
    BY <1>1, SumOfLess
<1>3. SumFunctionOnSet(f, S) \in Int /\ SumFunctionOnSet(g, S) \in Int
    BY <1>1, SumType
<1> QED BY <1>2, <1>3

THEOREM SumSplits ==
    ASSUME NEW f, NEW S, NEW T, IsFiniteSet(S), IsFiniteSet(T), S \cap T = {},
           Adds(f, S \cup T)
    PROVE  SumFunctionOnSet(f, S \cup T) = SumFunctionOnSet(f, S) + SumFunctionOnSet(f, T)
<1> DEFINE a(s) == SumFunctionOnSet(f, s)
           F == {s \in SUBSET T : ~(a(S \cup s) = a(S) + a(s))}
<1>1. \A s \in SUBSET (S \cup T) : IsFiniteSet(s) /\ Adds(f, s)
    BY FS_Union, FS_Subset DEF Adds
<1>2. \A s \in SUBSET (S \cup T) : a(s) \in Int
    BY <1>1, SumType
<1>3. \A s \in SUBSET (S \cup T) : \A x \in s : a(s) = f[x] + a(s \ {x})
    BY <1>1, SumTakesAny
<1>4. a({}) = 0
    BY SumOfNothing
<1> HIDE DEF a
<1>5. ASSUME F # {} PROVE FALSE
    <2>1. PICK s \in F : \A x \in s : s \ {x} \notin F
        BY <1>1, <1>5, SmallestSet
    <2>2. CASE s = {}
        <3>1. PICK u : u = S \cup s /\ u = S
            BY <2>2
        <3>2. a(S \cup s) = a(S) /\ a(s) = 0
            BY <1>4, <2>2, <3>1, Zenon
        <3>3. a(S) \in Int
            BY <1>2
        <3> QED BY <2>1, <3>2, <3>3
    <2>3. CASE s # {}
        <3>1. PICK x \in s : TRUE
            BY <2>3
        <3>2. PICK u : u = (S \cup s) \ {x} /\ u = S \cup (s \ {x})
            BY <3>1
        <3>3. /\ a(S \cup s) = f[x] + a((S \cup s) \ {x})
              /\ a(s) = f[x] + a(s \ {x})
              /\ a(S \cup (s \ {x})) = a(S) + a(s \ {x})
            BY <1>3, <2>1, <3>1
        <3>4. a(S \cup s) = f[x] + a(u) /\ a(u) = a(S) + a(s \ {x})
            BY <3>2, <3>3, Zenon
        <3>5. a(S) \in Int /\ a(s \ {x}) \in Int /\ f[x] \in Int
            BY <1>2 DEF Adds
        <3> QED BY <2>1, <3>3, <3>4, <3>5
    <2> QED BY <2>2, <2>3
<1>6. T \in SUBSET T
    OBVIOUS
<1>7. a(S \cup T) = a(S) + a(T)
    BY <1>5, <1>6
<1> QED BY <1>7 DEF a

LEMMA SumOfOne ==
    ASSUME NEW f, NEW x, f[x] \in Int
    PROVE  SumFunctionOnSet(f, {x}) = f[x]
<1> DEFINE K == {x}
<1>1. x \in K /\ Adds(f, K) /\ K \ {x} = {}
    BY DEF Adds
<1>2. IsFiniteSet(K)
    BY FS_Singleton
<1> HIDE DEF K
<1>3. SumFunctionOnSet(f, K) = f[x] + SumFunctionOnSet(f, K \ {x})
    BY <1>1, <1>2, SumTakesAny
<1>4. SumFunctionOnSet(f, K \ {x}) = 0
    BY <1>1, SumOfNothing, Zenon
<1>5. SumFunctionOnSet(f, K) = f[x]
    BY <1>3, <1>4
<1> QED BY <1>5 DEF K

THEOREM SumOfDifference ==
    ASSUME NEW f, NEW g, NEW h, NEW S, IsFiniteSet(S), Adds(f, S), Adds(g, S),
           \A x \in S : h[x] = f[x] - g[x]
    PROVE  SumFunctionOnSet(h, S) = SumFunctionOnSet(f, S) - SumFunctionOnSet(g, S)
<1> DEFINE a(s) == SumFunctionOnSet(f, s)
           b(s) == SumFunctionOnSet(g, s)
           c(s) == SumFunctionOnSet(h, s)
           F == {s \in SUBSET S : ~(c(s) = a(s) - b(s))}
<1>0. \A s \in SUBSET S : IsFiniteSet(s) /\ Adds(f, s) /\ Adds(g, s)
    BY FS_Subset DEF Adds
<1>1. \A s \in SUBSET S : Adds(h, s)
    BY DEF Adds
<1>2. \A s \in SUBSET S : a(s) \in Int /\ b(s) \in Int /\ c(s) \in Int
    BY <1>0, <1>1, SumType
<1>s. ASSUME NEW k, \A s \in SUBSET S : Adds(k, s), NEW s \in SUBSET S, NEW x \in s
      PROVE  SumFunctionOnSet(k, s) = k[x] + SumFunctionOnSet(k, s \ {x})
    BY <1>0, <1>s, SumTakesAny
<1>3. \A s \in SUBSET S : \A x \in s : a(s) = f[x] + a(s \ {x})
    BY <1>0, <1>s
<1>4. \A s \in SUBSET S : \A x \in s : b(s) = g[x] + b(s \ {x})
    BY <1>0, <1>s
<1>5. \A s \in SUBSET S : \A x \in s : c(s) = h[x] + c(s \ {x})
    BY <1>1, <1>s
<1>6. a({}) = 0 /\ b({}) = 0 /\ c({}) = 0
    BY SumOfNothing
<1> HIDE DEF a, b, c
<1>7. ASSUME F # {} PROVE FALSE
    <2>1. PICK s \in F : \A x \in s : s \ {x} \notin F
        BY <1>0, <1>7, SmallestSet
    <2>2. s # {}
        BY <1>6, <2>1
    <2>3. PICK x \in s : TRUE
        BY <2>2
    <2>4. s \ {x} \in SUBSET S /\ c(s \ {x}) = a(s \ {x}) - b(s \ {x})
        BY <2>1
    <2>5. f[x] \in Int /\ g[x] \in Int /\ h[x] = f[x] - g[x]
        BY DEF Adds
    <2> QED BY <1>2, <1>3, <1>4, <1>5, <2>1, <2>4, <2>5
<1>8. S \in SUBSET S
    OBVIOUS
<1>9. c(S) = a(S) - b(S)
    BY <1>7, <1>8
<1> QED BY <1>9 DEF a, b, c

\* A part of a sum of numbers that are not negative is no larger.
THEOREM SumOfPart ==
    ASSUME NEW f, NEW S, IsFiniteSet(S), \A x \in S : f[x] \in Nat, NEW T \in SUBSET S
    PROVE  /\ SumFunctionOnSet(f, T) <= SumFunctionOnSet(f, S)
           /\ SumFunctionOnSet(f, T) \in Nat
<1> DEFINE zero == [x \in S |-> 0]
<1>1. \A s \in SUBSET S : IsFiniteSet(s) /\ Adds(f, s) /\ Adds(zero, s)
    BY FS_Subset DEF Adds
<1>2. ASSUME NEW s \in SUBSET S
      PROVE  SumFunctionOnSet(f, s) \in Nat
    <2>1. SumFunctionOnSet(zero, s) = 0
        <3> DEFINE F == {u \in SUBSET s : SumFunctionOnSet(zero, u) # 0}
        <3>1. ASSUME F # {} PROVE FALSE
            <4>1. \A u \in F : IsFiniteSet(u) /\ Adds(zero, u)
                BY <1>1
            <4>2. PICK u \in F : \A x \in u : u \ {x} \notin F
                BY <3>1, <4>1, SmallestSet
            <4>3. u # {}
                BY <4>2, SumOfNothing
            <4>4. PICK x \in u : TRUE
                BY <4>3
            <4>5. SumFunctionOnSet(zero, u) = zero[x] + SumFunctionOnSet(zero, u \ {x})
                BY <4>1, SumTakesAny
            <4>6. SumFunctionOnSet(zero, u \ {x}) = 0 /\ zero[x] = 0
                BY <4>2
            <4> QED BY <4>2, <4>5, <4>6
        <3> QED BY <3>1
    <2>2. \A x \in s : zero[x] <= f[x]
        OBVIOUS
    <2>3. SumFunctionOnSet(zero, s) <= SumFunctionOnSet(f, s)
        BY <1>1, <2>2, SumOfLess
    <2>4. SumFunctionOnSet(f, s) \in Int
        BY <1>1, SumType
    <2> QED BY <2>1, <2>3, <2>4
<1> DEFINE U == S \ T
<1>3. U \in SUBSET S /\ T \cap U = {} /\ IsFiniteSet(T) /\ IsFiniteSet(U)
    BY <1>1
<1>4. PICK V : V = T \cup U /\ V = S
    OBVIOUS
<1>5. Adds(f, V)
    BY <1>4 DEF Adds
<1>6. SumFunctionOnSet(f, V) = SumFunctionOnSet(f, T) + SumFunctionOnSet(f, U)
    BY <1>3, <1>4, <1>5, SumSplits
<1>7. SumFunctionOnSet(f, T) \in Nat /\ SumFunctionOnSet(f, U) \in Nat
    BY <1>2, <1>3
<1>8. SumFunctionOnSet(f, T) <= SumFunctionOnSet(f, V)
    BY <1>6, <1>7
<1> QED BY <1>4, <1>7, <1>8

-----------------------------------------------------------------------------
(* Rows told apart by a key: what the keys hold adds up to what there is.    *)

LEMMA CountOfBoth ==
    ASSUME NEW S, NEW T, IsFiniteSet(S), IsFiniteSet(T), S \cap T = {}
    PROVE  /\ IsFiniteSet(S \cup T)
           /\ Cardinality(S \cup T) = Cardinality(S) + Cardinality(T)
           /\ Cardinality(S) \in Nat /\ Cardinality(T) \in Nat
<1>1. PICK u : u = S \cap T /\ u = {}
    OBVIOUS
<1>2. Cardinality(S \cup T) = Cardinality(S) + Cardinality(T) - Cardinality(S \cap T)
    BY FS_Union
<1>3. Cardinality(S \cap T) = 0
    BY <1>1, FS_EmptySet, Zenon
<1>4. Cardinality(S) \in Nat /\ Cardinality(T) \in Nat
    BY FS_CardinalityType
<1> QED BY <1>2, <1>3, <1>4, FS_Union

\* D gives every key its rows, and no row two keys.
Disjoint(D, K) == \A k, l \in K : k # l => D[k] \cap D[l] = {}
Rows(D, K) == UNION {D[k] : k \in K}

LEMMA RowsOfOneMore ==
    ASSUME NEW D, NEW K, NEW k \in K, Disjoint(D, K)
    PROVE  /\ Rows(D, K) = Rows(D, K \ {k}) \cup D[k]
           /\ Rows(D, K \ {k}) \cap D[k] = {}
           /\ Disjoint(D, K \ {k})
BY DEF Rows, Disjoint

LEMMA RowsAreFinite ==
    ASSUME NEW D, NEW K, IsFiniteSet(K), \A k \in K : IsFiniteSet(D[k])
    PROVE  IsFiniteSet(Rows(D, K))
<1> DEFINE F == {s \in SUBSET K : ~IsFiniteSet(Rows(D, s))}
<1>1. \A s \in SUBSET K : IsFiniteSet(s)
    BY FS_Subset
<1>2. ASSUME F # {} PROVE FALSE
    <2>1. PICK s \in F : \A k \in s : s \ {k} \notin F
        BY <1>1, <1>2, SmallestSet
    <2>2. CASE s = {}
        BY <2>1, <2>2, FS_EmptySet DEF Rows
    <2>3. CASE s # {}
        <3>1. PICK k \in s : TRUE
            BY <2>3
        <3>2. IsFiniteSet(Rows(D, s \ {k})) /\ IsFiniteSet(D[k])
            BY <2>1
        <3>3. PICK u : u = Rows(D, s) /\ u = Rows(D, s \ {k}) \cup D[k]
            BY <3>1 DEF Rows
        <3>4. IsFiniteSet(Rows(D, s \ {k}) \cup D[k])
            BY <3>2, FS_Union
        <3> QED BY <2>1, <3>3, <3>4, Zenon
    <2> QED BY <2>2, <2>3
<1>3. K \in SUBSET K
    OBVIOUS
<1> QED BY <1>2, <1>3

THEOREM CountsAddUp ==
    ASSUME NEW D, NEW K, IsFiniteSet(K), \A k \in K : IsFiniteSet(D[k]), Disjoint(D, K),
           NEW c, \A k \in K : c[k] = Cardinality(D[k])
    PROVE  SumFunctionOnSet(c, K) = Cardinality(Rows(D, K))
<1> DEFINE a(s) == SumFunctionOnSet(c, s)
           n(s) == Cardinality(Rows(D, s))
           F == {s \in SUBSET K : ~(a(s) = n(s))}
<1>1. \A s \in SUBSET K : IsFiniteSet(s) /\ Adds(c, s)
    BY FS_Subset, FS_CardinalityType DEF Adds
<1>2. \A s \in SUBSET K : \A x \in s : a(s) = c[x] + a(s \ {x})
    BY <1>1, SumTakesAny
<1>3. a({}) = 0
    BY SumOfNothing
<1> HIDE DEF a
<1>4. ASSUME F # {} PROVE FALSE
    <2>1. PICK s \in F : \A x \in s : s \ {x} \notin F
        BY <1>1, <1>4, SmallestSet
    <2>2. CASE s = {}
        <3>1. Rows(D, s) = {}
            BY <2>2 DEF Rows
        <3> QED BY <1>3, <2>1, <2>2, <3>1, FS_EmptySet
    <2>3. CASE s # {}
        <3>1. PICK k \in s : TRUE
            BY <2>3
        <3>2. IsFiniteSet(Rows(D, s \ {k})) /\ IsFiniteSet(D[k])
            BY <1>1, RowsAreFinite
        <3>3. Disjoint(D, s)
            BY DEF Disjoint
        <3>4. PICK u : /\ u = Rows(D, s) /\ u = Rows(D, s \ {k}) \cup D[k]
                       /\ Rows(D, s \ {k}) \cap D[k] = {}
            BY <3>1, <3>3, RowsOfOneMore
        <3>5. /\ Cardinality(Rows(D, s \ {k}) \cup D[k]) =
                    Cardinality(Rows(D, s \ {k})) + Cardinality(D[k])
              /\ Cardinality(Rows(D, s \ {k})) \in Nat /\ Cardinality(D[k]) \in Nat
            BY <3>2, <3>4, CountOfBoth
        <3>6. Cardinality(u) = Cardinality(Rows(D, s \ {k}) \cup D[k])
            BY <3>4, Zenon
        <3>7. Cardinality(u) = n(s \ {k}) + c[k]
            BY <3>1, <3>5, <3>6
        <3>8. a(s \ {k}) = n(s \ {k})
            BY <2>1
        <3>9. a(s) = c[k] + a(s \ {k}) /\ n(s) = Cardinality(u)
            BY <1>2, <3>1, <3>4
        <3>10. c[k] \in Nat /\ n(s \ {k}) \in Nat
            BY <3>1, <3>5
        <3> QED BY <2>1, <3>7, <3>8, <3>9, <3>10
    <2> QED BY <2>2, <2>3
<1>5. K \in SUBSET K
    OBVIOUS
<1>6. a(K) = n(K)
    BY <1>4, <1>5
<1> QED BY <1>6 DEF a

THEOREM SumsAddUp ==
    ASSUME NEW D, NEW K, IsFiniteSet(K), \A k \in K : IsFiniteSet(D[k]), Disjoint(D, K),
           NEW f, Adds(f, Rows(D, K)),
           NEW c, \A k \in K : c[k] = SumFunctionOnSet(f, D[k])
    PROVE  SumFunctionOnSet(c, K) = SumFunctionOnSet(f, Rows(D, K))
<1> DEFINE a(s) == SumFunctionOnSet(c, s)
           b(s) == SumFunctionOnSet(f, s)
           F == {s \in SUBSET K : ~(a(s) = b(Rows(D, s)))}
<1>1. ASSUME NEW s \in SUBSET K
      PROVE  /\ IsFiniteSet(s) /\ IsFiniteSet(Rows(D, s)) /\ Adds(f, Rows(D, s))
             /\ Adds(c, s)
    <2>1. IsFiniteSet(s)
        BY FS_Subset
    <2>2. IsFiniteSet(Rows(D, s))
        BY <2>1, RowsAreFinite
    <2>3. Adds(f, Rows(D, s)) /\ \A k \in s : Adds(f, D[k])
        BY DEF Adds, Rows
    <2>4. Adds(c, s)
        BY <2>3, SumType DEF Adds
    <2> QED BY <2>1, <2>2, <2>3, <2>4
<1>2. ASSUME NEW s \in SUBSET K, NEW x \in s
      PROVE  a(s) = c[x] + a(s \ {x})
    <2>1. IsFiniteSet(s) /\ Adds(c, s)
        BY <1>1
    <2> QED BY <2>1, SumTakesAny
<1>3. a({}) = 0 /\ b({}) = 0
    BY SumOfNothing
<1>4. \A s \in SUBSET K : b(Rows(D, s)) \in Int /\ \A k \in s : b(D[k]) \in Int
    <2> TAKE s \in SUBSET K
    <2>1. \A k \in s : Adds(f, D[k]) /\ IsFiniteSet(D[k])
        BY DEF Adds, Rows
    <2> QED BY <1>1, <2>1, SumType
<1>5. ASSUME NEW s \in SUBSET K, NEW k \in s
      PROVE  b(Rows(D, s)) = b(Rows(D, s \ {k})) + b(D[k])
    <2>1. Disjoint(D, s) /\ s \ {k} \in SUBSET K /\ IsFiniteSet(D[k])
        BY DEF Disjoint
    <2>2. PICK u : /\ u = Rows(D, s) /\ u = Rows(D, s \ {k}) \cup D[k]
                   /\ Rows(D, s \ {k}) \cap D[k] = {}
        BY <2>1, RowsOfOneMore
    <2>3. IsFiniteSet(Rows(D, s \ {k})) /\ Adds(f, Rows(D, s))
        BY <1>1, <2>1
    <2>4. Adds(f, Rows(D, s \ {k}) \cup D[k])
        BY <2>2, <2>3, Zenon
    <2>5. Rows(D, s \ {k}) \cap D[k] = {}
        BY <2>2
    <2> DEFINE S == Rows(D, s \ {k})
               T == D[k]
    <2>6. IsFiniteSet(S) /\ IsFiniteSet(T) /\ S \cap T = {} /\ Adds(f, S \cup T)
        BY <2>1, <2>3, <2>4, <2>5
    <2> HIDE DEF S, T
    <2>7. b(S \cup T) = b(S) + b(T)
        BY <2>6, SumSplits
    <2>8. u = S \cup T /\ Rows(D, s) = u
        BY <2>2 DEF S, T
    <2> HIDE DEF b
    <2> HIDE DEF b
    <2> QED BY <2>7, <2>8, Zenon DEF S, T
<1> HIDE DEF a, b
<1>6. ASSUME F # {} PROVE FALSE
    <2>1. PICK s \in F : \A x \in s : s \ {x} \notin F
        BY <1>1, <1>6, SmallestSet
    <2>2. CASE s = {}
        <3>1. Rows(D, s) = {}
            BY <2>2 DEF Rows
        <3> QED BY <1>3, <2>1, <2>2, <3>1
    <2>3. CASE s # {}
        <3>1. PICK k \in s : TRUE
            BY <2>3
        <3>2. c[k] = b(D[k]) /\ b(D[k]) \in Int /\ b(Rows(D, s \ {k})) \in Int
            BY <1>4, <3>1 DEF b
        <3>3. a(s \ {k}) = b(Rows(D, s \ {k}))
            BY <2>1, <3>1
        <3>4. a(s) = c[k] + a(s \ {k}) /\ b(Rows(D, s)) = b(Rows(D, s \ {k})) + b(D[k])
            BY <1>2, <1>5, <2>1, <3>1
        <3> QED BY <2>1, <3>2, <3>3, <3>4
    <2> QED BY <2>2, <2>3
<1>7. K \in SUBSET K
    OBVIOUS
<1>8. a(K) = b(Rows(D, K))
    BY <1>6, <1>7
<1> QED BY <1>8 DEF a, b

\* The values that f has on a finite set are finitely many.
LEMMA ImageIsFinite ==
    ASSUME NEW S, IsFiniteSet(S), NEW f
    PROVE  /\ IsFiniteSet({f[x] : x \in S})
           /\ Cardinality({f[x] : x \in S}) <= Cardinality(S)
           /\ Cardinality({f[x] : x \in S}) \in Nat /\ Cardinality(S) \in Nat
<1> DEFINE T == {f[x] : x \in S}
           h == [x \in S |-> f[x]]
<1>1. h \in [S -> T] /\ \A t \in T : \E x \in S : h[x] = t
    OBVIOUS
<1> HIDE DEF T, h
<1>2. h \in Surjection(S, T)
    BY <1>1 DEF Surjection
<1>3. IsFiniteSet(T) /\ Cardinality(T) <= Cardinality(S)
    BY <1>2, FS_Surjection
<1> QED BY <1>3, FS_CardinalityType DEF T

With(S, f, v) == {r \in S : f[r] = v}

LEMMA WithIsPart ==
    ASSUME NEW S, IsFiniteSet(S), NEW f, NEW K, \A r \in S : f[r] \in K
    PROVE  LET D == [k \in K |-> With(S, f, k)]
           IN  /\ \A k \in K : IsFiniteSet(D[k]) /\ D[k] = With(S, f, k)
               /\ Disjoint(D, K)
               /\ Rows(D, K) = S
<1> DEFINE D == [k \in K |-> With(S, f, k)]
<1>1. \A k \in K : D[k] = With(S, f, k) /\ D[k] \in SUBSET S
    BY DEF With
<1>2. \A k \in K : IsFiniteSet(D[k])
    BY <1>1, FS_Subset
<1>3. Disjoint(D, K)
    BY DEF Disjoint, With
<1>4. Rows(D, K) = S
    BY DEF Rows, With
<1> QED BY <1>1, <1>2, <1>3, <1>4

\* The rows counted by a value they have are all the rows.
THEOREM CountsByValue ==
    ASSUME NEW S, IsFiniteSet(S), NEW f, NEW K, IsFiniteSet(K), \A r \in S : f[r] \in K,
           NEW c, \A k \in K : c[k] = Cardinality(With(S, f, k))
    PROVE  SumFunctionOnSet(c, K) = Cardinality(S)
<1> DEFINE D == [k \in K |-> With(S, f, k)]
<1>1. /\ \A k \in K : IsFiniteSet(D[k]) /\ c[k] = Cardinality(D[k])
      /\ Disjoint(D, K)
    BY WithIsPart
<1>2. Rows(D, K) = S
    BY WithIsPart
<1> HIDE DEF D
<1>3. SumFunctionOnSet(c, K) = Cardinality(Rows(D, K))
    BY <1>1, CountsAddUp
<1> QED BY <1>2, <1>3

\* And so are their numbers, summed by value.
THEOREM SumsByValue ==
    ASSUME NEW S, IsFiniteSet(S), NEW f, NEW K, IsFiniteSet(K), \A r \in S : f[r] \in K,
           NEW w, Adds(w, S),
           NEW c, \A k \in K : c[k] = SumFunctionOnSet(w, With(S, f, k))
    PROVE  SumFunctionOnSet(c, K) = SumFunctionOnSet(w, S)
<1> DEFINE D == [k \in K |-> With(S, f, k)]
<1>1. /\ \A k \in K : IsFiniteSet(D[k]) /\ c[k] = SumFunctionOnSet(w, D[k])
      /\ Disjoint(D, K)
    BY WithIsPart
<1>2. Rows(D, K) = S
    BY WithIsPart
<1> HIDE DEF D
<1>3. SumFunctionOnSet(c, K) = SumFunctionOnSet(w, Rows(D, K))
    BY <1>1, <1>2, SumsAddUp
<1> QED BY <1>2, <1>3
=============================================================================
