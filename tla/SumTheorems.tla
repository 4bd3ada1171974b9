----------------------------- MODULE SumTheorems -----------------------------
(* What the sums of the community modules do on finite sets: the sum of no    *)
(* value, of one value more or less, of a changed value, of equal, bounded    *)
(* and whole values. SumFunctionOnSet is a recursive function, so each fact   *)
(* is an induction on a finite set, written as: of the subsets on which the   *)
(* fact fails, take a minimal one (lemma MinimalSubset).                      *)
EXTENDS Integers, FiniteSets, FiniteSetsExt, Functions, FiniteSetTheorems,
        WellFoundedInduction, TLAPS

(* The index a sum takes next, and the equation that defines the sums over    *)
(* the subsets of S.                                                          *)
Taken(s) == CHOOSE x \in s : TRUE

IsSums(f, S, g) ==
    g = [s \in SUBSET S |->
            IF s = {} THEN 0 ELSE f[Taken(s)] + g[s \ {Taken(s)}]]

Sums(f, S) == CHOOSE g : IsSums(f, S, g)

------------------------------------------------------------------------------
(* Of a non-empty collection of subsets of a finite set, one has no smaller   *)
(* one in it.                                                                 *)
LEMMA MinimalSubset ==
    ASSUME NEW S, IsFiniteSet(S), NEW F, F \subseteq SUBSET S, F # {}
    PROVE  \E x \in F : \A y \in F : y \subseteq x => y = x
<1>1. F \subseteq FiniteSubsetsOf(S)
  BY FS_Subset DEF FiniteSubsetsOf
<1>2. IsWellFoundedOn(StrictSubsetOrdering(S), FiniteSubsetsOf(S))
  BY FS_StrictSubsetOrderingWellFounded
<1>3. \E x \in F : \A y \in F : ~ (<<y, x>> \in StrictSubsetOrdering(S))
  BY <1>1, <1>2, WFMin
<1> QED
  BY <1>3 DEF StrictSubsetOrdering

\* The library's sum over a set is the value the recursive function Sums takes at the
\* whole set.
LEMMA SumIsSums ==
    ASSUME NEW f, NEW S
    PROVE  SumFunctionOnSet(f, S) = Sums(f, S)[S]
  BY DEF SumFunctionOnSet, FoldFunctionOnSet, MapThenFoldSet, Sums, IsSums, Taken

\* The element CHOOSE takes out of a set is one of its members.
LEMMA TakenIsMember ==
    ASSUME NEW s, s # {}
    PROVE  Taken(s) \in s
  BY DEF Taken

\* What a function that obeys the recursion of the sum gives for one subset.
LEMMA IsSumsAt ==
    ASSUME NEW f, NEW S, NEW g, IsSums(f, S, g), NEW s \in SUBSET S
    PROVE  g[s] = IF s = {} THEN 0 ELSE f[Taken(s)] + g[s \ {Taken(s)}]
<1>1. g[s] = [t \in SUBSET S |->
                IF t = {} THEN 0 ELSE f[Taken(t)] + g[t \ {Taken(t)}]][s]
  BY DEF IsSums
<1> QED
  BY <1>1

(* Two such functions agree wherever both are defined.                        *)
LEMMA SumsAgree ==
    ASSUME NEW f, NEW S, IsFiniteSet(S), NEW R, R \subseteq S,
           NEW g, IsSums(f, S, g), NEW h, IsSums(f, R, h)
    PROVE  g[R] = h[R]
<1> DEFINE Off == {s \in SUBSET R : g[s] # h[s]}
<1> SUFFICES Off = {}
  OBVIOUS
<1> SUFFICES ASSUME Off # {} PROVE FALSE
  OBVIOUS
<1>1. IsFiniteSet(R)
  BY FS_Subset
<1>2. PICK s \in Off : \A y \in Off : y \subseteq s => y = s
  <2>1. Off \subseteq SUBSET R
    OBVIOUS
  <2> HIDE DEF Off
  <2> QED
    BY <1>1, <2>1, MinimalSubset
<1>3. s \in SUBSET S /\ s \in SUBSET R /\ IsSums(f, R, h)
  OBVIOUS
<1> HIDE DEF Off
<1>4. g[s] = IF s = {} THEN 0 ELSE f[Taken(s)] + g[s \ {Taken(s)}]
  BY <1>3, IsSumsAt
<1>5. h[s] = IF s = {} THEN 0 ELSE f[Taken(s)] + h[s \ {Taken(s)}]
  BY <1>3, IsSumsAt
<1>6. CASE s = {}
  BY <1>4, <1>5, <1>6 DEF Off
<1>7. CASE s # {}
  <2>1. s \ {Taken(s)} # s
    BY <1>7, TakenIsMember
  <2>2. s \ {Taken(s)} \notin Off
    BY <2>1, <1>2
  <2> QED
    BY <1>3, <1>4, <1>5, <1>7, <2>2 DEF Off
<1> QED
  BY <1>6, <1>7

(* The equation has a solution: take the sums below a set from the solution   *)
(* for each set with one element less.                                        *)
LEMMA SumsExist ==
    ASSUME NEW f, NEW S, IsFiniteSet(S)
    PROVE  IsSums(f, S, Sums(f, S))
<1> DEFINE None == {R \in SUBSET S : ~ \E g : IsSums(f, R, g)}
<1>1. SUFFICES None = {}
  <2>1. ASSUME None = {} PROVE \E g : IsSums(f, S, g)
    BY <2>1
  <2> QED
    BY <2>1, <1>1 DEF Sums
<1> SUFFICES ASSUME None # {} PROVE FALSE
  OBVIOUS
<1>2. PICK R \in None : \A y \in None : y \subseteq R => y = R
  <2>1. None \subseteq SUBSET S
    OBVIOUS
  <2> HIDE DEF None
  <2> QED
    BY <2>1, MinimalSubset
<1>3. \A Q \in SUBSET R : Q # R => IsSums(f, Q, Sums(f, Q))
  <2> SUFFICES ASSUME NEW Q \in SUBSET R, Q # R PROVE IsSums(f, Q, Sums(f, Q))
    OBVIOUS
  <2>1. Q \notin None /\ Q \in SUBSET S
    BY <1>2
  <2>2. \E g : IsSums(f, Q, g)
    BY <2>1
  <2> QED
    BY <2>2 DEF Sums
<1> DEFINE Val(s) == IF s = {} THEN 0
                     ELSE f[Taken(s)] + Sums(f, s \ {Taken(s)})[s \ {Taken(s)}]
           g == [s \in SUBSET R |-> Val(s)]
<1>4. \A s \in SUBSET R : s # R => g[s] = Sums(f, s)[s]
  <2> SUFFICES ASSUME NEW s \in SUBSET R, s # R PROVE Val(s) = Sums(f, s)[s]
    OBVIOUS
  <2>1. IsSums(f, s, Sums(f, s))
    BY <1>3
  <2>2. Sums(f, s)[s] = IF s = {} THEN 0
                        ELSE f[Taken(s)] + Sums(f, s)[s \ {Taken(s)}]
    BY <2>1, IsSumsAt
  <2>3. CASE s = {}
    BY <2>2, <2>3
  <2>4. CASE s # {}
    <3> DEFINE t == s \ {Taken(s)}
    <3>1. t # s /\ t \subseteq s /\ t \in SUBSET R /\ t # R
      BY <2>4, TakenIsMember
    <3>2. IsSums(f, t, Sums(f, t))
      BY <3>1, <1>3
    <3>3. IsFiniteSet(s)
      BY FS_Subset
    <3>4. Sums(f, s)[t] = Sums(f, t)[t]
      <4> HIDE DEF t
      <4> QED
        BY <3>1, <3>2, <3>3, <2>1, SumsAgree
    <3> QED
      BY <2>2, <2>4, <3>4
  <2> QED
    BY <2>3, <2>4
<1>5. IsSums(f, R, g)
  <2>1. \A s \in SUBSET R :
            Val(s) = IF s = {} THEN 0 ELSE f[Taken(s)] + g[s \ {Taken(s)}]
    <3> SUFFICES ASSUME NEW s \in SUBSET R, s # {}
                 PROVE  Val(s) = f[Taken(s)] + g[s \ {Taken(s)}]
      OBVIOUS
    <3> DEFINE t == s \ {Taken(s)}
    <3>1. t \in SUBSET R /\ t # R
      BY TakenIsMember
    <3>2. g[t] = Sums(f, t)[t]
      BY <3>1, <1>4
    <3> QED
      BY <3>2
  <2> QED
    BY <2>1 DEF IsSums
<1> QED
  BY <1>5, <1>2

------------------------------------------------------------------------------
(* The sum of no value is zero.                                               *)
THEOREM SumEmpty == ASSUME NEW f PROVE SumFunctionOnSet(f, {}) = 0
<1>1. IsSums(f, {}, Sums(f, {}))
  BY SumsExist, FS_EmptySet
<1> QED
  BY <1>1, SumIsSums, IsSumsAt

\* The sum is the taken element and the sum of the rest: the recursion, freed of its LET.
LEMMA SumTaken ==
    ASSUME NEW f, NEW S, IsFiniteSet(S), S # {}
    PROVE  SumFunctionOnSet(f, S)
               = f[Taken(S)] + SumFunctionOnSet(f, S \ {Taken(S)})
<1> DEFINE R == S \ {Taken(S)}
<1>1. IsFiniteSet(R)
  BY FS_Subset
<1>2. IsSums(f, S, Sums(f, S)) /\ IsSums(f, R, Sums(f, R))
  BY <1>1, SumsExist
<1>3. Sums(f, S)[S] = f[Taken(S)] + Sums(f, S)[R]
  BY <1>2, IsSumsAt
<1>4. Sums(f, S)[R] = Sums(f, R)[R]
  <2>1. R \subseteq S
    OBVIOUS
  <2> HIDE DEF R
  <2> QED
    BY <1>2, <2>1, SumsAgree
<1> QED
  BY <1>3, <1>4, SumIsSums

(* Whole numbers have a whole sum.                                            *)
THEOREM SumIsInt ==
    ASSUME NEW f, NEW S, IsFiniteSet(S), \A x \in S : f[x] \in Int
    PROVE  SumFunctionOnSet(f, S) \in Int
<1> DEFINE Bad == {s \in SUBSET S : SumFunctionOnSet(f, s) \notin Int}
<1> SUFFICES ASSUME Bad # {} PROVE FALSE
  OBVIOUS
<1>1. PICK s \in Bad : \A y \in Bad : y \subseteq s => y = s
  <2>1. Bad \subseteq SUBSET S
    OBVIOUS
  <2> HIDE DEF Bad
  <2> QED
    BY <2>1, MinimalSubset
<1>2. s # {}
  BY SumEmpty
<1>3. Taken(s) \in s /\ IsFiniteSet(s) /\ s \subseteq S
  BY <1>2, TakenIsMember, FS_Subset
<1>4. SumFunctionOnSet(f, s \ {Taken(s)}) \in Int
  BY <1>1, <1>3
<1>5. SumFunctionOnSet(f, s) = f[Taken(s)] + SumFunctionOnSet(f, s \ {Taken(s)})
  BY <1>2, <1>3, SumTaken
<1> QED
  BY <1>3, <1>4, <1>5

(* Any member's value can be taken out of a sum, not only the next one's.     *)
THEOREM SumWithout ==
    ASSUME NEW f, NEW S, IsFiniteSet(S), \A y \in S : f[y] \in Int
    PROVE  \A x \in S : SumFunctionOnSet(f, S)
                            = f[x] + SumFunctionOnSet(f, S \ {x})
<1> DEFINE Fails(s, x) == SumFunctionOnSet(f, s)
                              # f[x] + SumFunctionOnSet(f, s \ {x})
           Bad == {s \in SUBSET S : \E x \in s : Fails(s, x)}
<1> SUFFICES ASSUME Bad # {} PROVE FALSE
  OBVIOUS
<1>1. PICK s \in Bad : \A y \in Bad : y \subseteq s => y = s
  <2>1. Bad \subseteq SUBSET S
    OBVIOUS
  <2> HIDE DEF Bad
  <2> QED
    BY <2>1, MinimalSubset
<1>2. PICK x \in s : Fails(s, x)
  OBVIOUS
<1> DEFINE k == Taken(s)
<1>3. k \in s /\ IsFiniteSet(s) /\ s \subseteq S
  BY <1>2, TakenIsMember, FS_Subset
<1>4. SumFunctionOnSet(f, s) = f[k] + SumFunctionOnSet(f, s \ {k})
  BY <1>2, <1>3, SumTaken
<1>5. k # x
  BY <1>4, <1>2
<1> HIDE DEF k
<1>6. s \ {k} \notin Bad /\ s \ {x} \notin Bad
  BY <1>1, <1>2, <1>3
<1>7. ~ Fails(s \ {k}, x) /\ ~ Fails(s \ {x}, k)
  BY <1>2, <1>3, <1>5, <1>6
<1>8. (s \ {k}) \ {x} = (s \ {x}) \ {k} /\ IsFiniteSet((s \ {x}) \ {k})
  BY <1>3, FS_Subset
<1>9. SumFunctionOnSet(f, (s \ {x}) \ {k}) \in Int
  <2>1. \A y \in (s \ {x}) \ {k} : f[y] \in Int
    BY <1>3
  <2> QED
    BY <1>8, <2>1, SumIsInt
<1>10. f[x] \in Int /\ f[k] \in Int
  BY <1>2, <1>3
<1> QED
  BY <1>2, <1>4, <1>7, <1>8, <1>9, <1>10

(* One value more.                                                            *)
THEOREM SumWith ==
    ASSUME NEW f, NEW S, IsFiniteSet(S), NEW x, x \notin S,
           \A y \in S \cup {x} : f[y] \in Int
    PROVE  SumFunctionOnSet(f, S \cup {x}) = f[x] + SumFunctionOnSet(f, S)
<1>1. IsFiniteSet(S \cup {x}) /\ (S \cup {x}) \ {x} = S
  BY FS_AddElement
<1> QED
  BY <1>1, SumWithout

(* The sum depends on the values at the indices only.                         *)
THEOREM SumSame ==
    ASSUME NEW f, NEW g, NEW S, IsFiniteSet(S), \A x \in S : f[x] = g[x]
    PROVE  SumFunctionOnSet(f, S) = SumFunctionOnSet(g, S)
<1> DEFINE Bad == {s \in SUBSET S : SumFunctionOnSet(f, s) # SumFunctionOnSet(g, s)}
<1> SUFFICES ASSUME Bad # {} PROVE FALSE
  OBVIOUS
<1>1. PICK s \in Bad : \A y \in Bad : y \subseteq s => y = s
  <2>1. Bad \subseteq SUBSET S
    OBVIOUS
  <2> HIDE DEF Bad
  <2> QED
    BY <2>1, MinimalSubset
<1>2. s # {}
  BY SumEmpty
<1>3. Taken(s) \in s /\ IsFiniteSet(s) /\ s \subseteq S
  BY <1>2, TakenIsMember, FS_Subset
<1>4. s \ {Taken(s)} \notin Bad
  BY <1>1, <1>3
<1>5. /\ SumFunctionOnSet(f, s) = f[Taken(s)] + SumFunctionOnSet(f, s \ {Taken(s)})
      /\ SumFunctionOnSet(g, s) = g[Taken(s)] + SumFunctionOnSet(g, s \ {Taken(s)})
  BY <1>2, <1>3, SumTaken
<1> QED
  BY <1>3, <1>4, <1>5

(* Values that differ at one index move the sum by the difference there.      *)
THEOREM SumChanged ==
    ASSUME NEW f, NEW g, NEW S, IsFiniteSet(S), NEW x \in S,
           \A y \in S : f[y] \in Int /\ g[y] \in Int,
           \A y \in S : y # x => g[y] = f[y]
    PROVE  SumFunctionOnSet(g, S) = SumFunctionOnSet(f, S) - f[x] + g[x]
<1> DEFINE R == S \ {x}
<1>1. IsFiniteSet(R) /\ \A y \in R : f[y] = g[y]
  BY FS_Subset
<1>2. SumFunctionOnSet(f, R) = SumFunctionOnSet(g, R)
  <2> HIDE DEF R
  <2> QED
    BY <1>1, SumSame
<1>3. SumFunctionOnSet(f, R) \in Int
  BY <1>1, SumIsInt
<1>4. /\ SumFunctionOnSet(f, S) = f[x] + SumFunctionOnSet(f, R)
      /\ SumFunctionOnSet(g, S) = g[x] + SumFunctionOnSet(g, R)
  BY SumWithout
<1>5. f[x] \in Int /\ g[x] \in Int
  OBVIOUS
<1> HIDE DEF R
<1> QED
  BY <1>2, <1>3, <1>4, <1>5

(* Values that are not negative: neither is their sum, and no value exceeds   *)
(* it.                                                                        *)
THEOREM SumIsNat ==
    ASSUME NEW f, NEW S, IsFiniteSet(S), \A x \in S : f[x] \in Nat
    PROVE  SumFunctionOnSet(f, S) \in Nat
<1> DEFINE Bad == {s \in SUBSET S : SumFunctionOnSet(f, s) \notin Nat}
<1> SUFFICES ASSUME Bad # {} PROVE FALSE
  OBVIOUS
<1>1. PICK s \in Bad : \A y \in Bad : y \subseteq s => y = s
  <2>1. Bad \subseteq SUBSET S
    OBVIOUS
  <2> HIDE DEF Bad
  <2> QED
    BY <2>1, MinimalSubset
<1>2. s # {}
  BY SumEmpty
<1>3. Taken(s) \in s /\ IsFiniteSet(s) /\ s \subseteq S
  BY <1>2, TakenIsMember, FS_Subset
<1>4. SumFunctionOnSet(f, s \ {Taken(s)}) \in Nat
  BY <1>1, <1>3
<1>5. SumFunctionOnSet(f, s) = f[Taken(s)] + SumFunctionOnSet(f, s \ {Taken(s)})
  BY <1>2, <1>3, SumTaken
<1> QED
  BY <1>3, <1>4, <1>5

\* With no negative term, no term exceeds the sum.
THEOREM SumBoundsMember ==
    ASSUME NEW f, NEW S, IsFiniteSet(S), \A x \in S : f[x] \in Nat, NEW x \in S
    PROVE  f[x] <= SumFunctionOnSet(f, S)
<1>1. \A y \in S : f[y] \in Int
  OBVIOUS
<1>2. SumFunctionOnSet(f, S) = f[x] + SumFunctionOnSet(f, S \ {x})
  BY <1>1, SumWithout
<1>3. SumFunctionOnSet(f, S \ {x}) \in Nat
  <2>1. IsFiniteSet(S \ {x}) /\ \A y \in S \ {x} : f[y] \in Nat
    BY FS_Subset
  <2> QED
    BY <2>1, SumIsNat
<1> QED
  BY <1>2, <1>3

(* Zeros sum to zero.                                                         *)
THEOREM SumOfZeros ==
    ASSUME NEW f, NEW S, IsFiniteSet(S), \A x \in S : f[x] = 0
    PROVE  SumFunctionOnSet(f, S) = 0
<1> DEFINE Bad == {s \in SUBSET S : SumFunctionOnSet(f, s) # 0}
<1> SUFFICES ASSUME Bad # {} PROVE FALSE
  OBVIOUS
<1>1. PICK s \in Bad : \A y \in Bad : y \subseteq s => y = s
  <2>1. Bad \subseteq SUBSET S
    OBVIOUS
  <2> HIDE DEF Bad
  <2> QED
    BY <2>1, MinimalSubset
<1>2. s # {}
  BY SumEmpty
<1>3. Taken(s) \in s /\ IsFiniteSet(s) /\ s \subseteq S
  BY <1>2, TakenIsMember, FS_Subset
<1>4. SumFunctionOnSet(f, s \ {Taken(s)}) = 0
  BY <1>1, <1>3
<1>5. SumFunctionOnSet(f, s) = f[Taken(s)] + SumFunctionOnSet(f, s \ {Taken(s)})
  BY <1>2, <1>3, SumTaken
<1> QED
  BY <1>3, <1>4, <1>5

(* The sum over two sets that share nothing is the sum of their sums.         *)
THEOREM SumOfUnion ==
    ASSUME NEW f, NEW S, NEW R, IsFiniteSet(S), IsFiniteSet(R), S \cap R = {},
           \A x \in S \cup R : f[x] \in Int
    PROVE  SumFunctionOnSet(f, S \cup R)
               = SumFunctionOnSet(f, S) + SumFunctionOnSet(f, R)
<1> DEFINE Bad == {s \in SUBSET S :
                       SumFunctionOnSet(f, s \cup R)
                           # SumFunctionOnSet(f, s) + SumFunctionOnSet(f, R)}
<1> SUFFICES ASSUME Bad # {} PROVE FALSE
  OBVIOUS
<1>1. PICK s \in Bad : \A y \in Bad : y \subseteq s => y = s
  <2>1. Bad \subseteq SUBSET S
    OBVIOUS
  <2> HIDE DEF Bad
  <2> QED
    BY <2>1, MinimalSubset
<1>2. SumFunctionOnSet(f, R) \in Int
  BY SumIsInt
<1>3. s # {}
  <2> SUFFICES ASSUME s = {} PROVE FALSE
    OBVIOUS
  <2>1. s \cup R = R
    OBVIOUS
  <2>2. SumFunctionOnSet(f, s) = 0
    BY SumEmpty
  <2>3. SumFunctionOnSet(f, s \cup R) = SumFunctionOnSet(f, R)
    BY <2>1
  <2> QED
    BY <1>2, <2>2, <2>3
<1>4. PICK x : x \in s
  BY <1>3
<1> DEFINE r == s \ {x}
<1>5. /\ r \in SUBSET S /\ r # s /\ r \subseteq s /\ IsFiniteSet(s) /\ IsFiniteSet(r)
      /\ IsFiniteSet(s \cup R) /\ x \in s \cup R /\ (s \cup R) \ {x} = r \cup R
      /\ \A y \in s \cup R : f[y] \in Int
  BY <1>4, FS_Subset, FS_Union
<1>6. r \notin Bad
  BY <1>1, <1>5
<1>7. SumFunctionOnSet(f, s) = f[x] + SumFunctionOnSet(f, r)
  BY <1>4, <1>5, SumWithout
<1>8. SumFunctionOnSet(f, s \cup R) = f[x] + SumFunctionOnSet(f, r \cup R)
  <2> HIDE DEF r
  <2> QED
    BY <1>5, SumWithout
<1>9. SumFunctionOnSet(f, r) \in Int
  <2> HIDE DEF r
  <2> QED
    BY <1>5, SumIsInt
<1> QED
  BY <1>2, <1>4, <1>5, <1>6, <1>7, <1>8, <1>9

(* Of values that are not negative, fewer sum to no more.                     *)
THEOREM SumOfFewer ==
    ASSUME NEW f, NEW S, IsFiniteSet(S), \A x \in S : f[x] \in Nat,
           NEW R, R \subseteq S
    PROVE  SumFunctionOnSet(f, R) <= SumFunctionOnSet(f, S)
<1> DEFINE Q == S \ R
<1>1. IsFiniteSet(R) /\ IsFiniteSet(Q) /\ R \cap Q = {} /\ R \cup Q = S
  BY FS_Subset
<1> HIDE DEF Q
<1>2. SumFunctionOnSet(f, S) = SumFunctionOnSet(f, R) + SumFunctionOnSet(f, Q)
  <2>1. \A x \in R \cup Q : f[x] \in Int
    BY <1>1
  <2> QED
    BY <1>1, <2>1, SumOfUnion
<1>3. SumFunctionOnSet(f, R) \in Nat /\ SumFunctionOnSet(f, Q) \in Nat
  <2>1. (\A x \in R : f[x] \in Nat) /\ (\A x \in Q : f[x] \in Nat)
    BY <1>1
  <2> QED
    BY <1>1, <2>1, SumIsNat
<1> QED
  BY <1>2, <1>3

(* The same for a whole function.                                             *)
THEOREM SumOfFunction ==
    ASSUME NEW f, NEW S, DOMAIN f = S
    PROVE  SumFunction(f) = SumFunctionOnSet(f, S)
  BY DEF SumFunction

(* One value of a function changed.                                           *)
THEOREM SumOfExcept ==
    ASSUME NEW S, IsFiniteSet(S), NEW f \in [S -> Int], NEW x \in S, NEW v \in Int
    PROVE  SumFunction([f EXCEPT ![x] = v]) = SumFunction(f) - f[x] + v
<1> DEFINE g == [f EXCEPT ![x] = v]
<1>1. g \in [S -> Int] /\ g[x] = v /\ \A y \in S : y # x => g[y] = f[y]
  OBVIOUS
<1> HIDE DEF g
<1>2. SumFunctionOnSet(g, S) = SumFunctionOnSet(f, S) - f[x] + g[x]
  BY <1>1, SumChanged
<1> QED
  BY <1>1, <1>2, SumOfFunction DEF g

\* The sum of a function from a finite set to integers is an integer.
THEOREM SumFunctionIsInt ==
    ASSUME NEW S, IsFiniteSet(S), NEW f \in [S -> Int]
    PROVE  SumFunction(f) \in Int
  BY SumOfFunction, SumIsInt

(* A function that is zero outside R sums to its sum over R.                  *)
THEOREM SumPadded ==
    ASSUME NEW S, IsFiniteSet(S), NEW R, R \subseteq S, NEW f, NEW g,
           \A x \in R : f[x] \in Int /\ g[x] = f[x],
           \A x \in S \ R : g[x] = 0
    PROVE  SumFunctionOnSet(g, S) = SumFunctionOnSet(f, R)
<1> DEFINE Q == S \ R
<1>1. /\ IsFiniteSet(R) /\ IsFiniteSet(Q) /\ R \cap Q = {} /\ R \cup Q = S
      /\ \A x \in R \cup Q : g[x] \in Int
  BY FS_Subset
<1>2. \A x \in Q : g[x] = 0
  OBVIOUS
<1> HIDE DEF Q
<1>3. SumFunctionOnSet(g, S) = SumFunctionOnSet(g, R) + SumFunctionOnSet(g, Q)
  BY <1>1, SumOfUnion
<1>4. SumFunctionOnSet(g, Q) = 0
  BY <1>1, <1>2, SumOfZeros
<1>5. SumFunctionOnSet(f, R) = SumFunctionOnSet(g, R)
  BY <1>1, SumSame
<1>6. SumFunctionOnSet(f, R) \in Int
  BY <1>1, SumIsInt
<1> QED
  BY <1>3, <1>4, <1>5, <1>6

(* The sum of the differences is the difference of the sums.                  *)
THEOREM SumOfDifferences ==
    ASSUME NEW S, IsFiniteSet(S), NEW f, NEW g, NEW h,
           \A x \in S : f[x] \in Int /\ g[x] \in Int /\ h[x] = f[x] - g[x]
    PROVE  SumFunctionOnSet(h, S)
               = SumFunctionOnSet(f, S) - SumFunctionOnSet(g, S)
<1> DEFINE Bad == {s \in SUBSET S :
                       SumFunctionOnSet(h, s)
                           # SumFunctionOnSet(f, s) - SumFunctionOnSet(g, s)}
<1> SUFFICES ASSUME Bad # {} PROVE FALSE
  OBVIOUS
<1>1. PICK s \in Bad : \A y \in Bad : y \subseteq s => y = s
  <2>1. Bad \subseteq SUBSET S
    OBVIOUS
  <2> HIDE DEF Bad
  <2> QED
    BY <2>1, MinimalSubset
<1>2. s # {}
  <2> SUFFICES ASSUME s = {} PROVE FALSE
    OBVIOUS
  <2>1. /\ SumFunctionOnSet(f, s) = 0 /\ SumFunctionOnSet(g, s) = 0
        /\ SumFunctionOnSet(h, s) = 0
    BY SumEmpty
  <2> QED
    BY <2>1
<1> DEFINE k == Taken(s)
           r == s \ {k}
<1>3. /\ k \in s /\ IsFiniteSet(s) /\ IsFiniteSet(r) /\ r \notin Bad /\ r \in SUBSET S
      /\ \A x \in r : f[x] \in Int /\ g[x] \in Int
      /\ f[k] \in Int /\ g[k] \in Int /\ h[k] = f[k] - g[k]
  BY <1>1, <1>2, TakenIsMember, FS_Subset
<1>4. /\ SumFunctionOnSet(f, s) = f[k] + SumFunctionOnSet(f, r)
      /\ SumFunctionOnSet(g, s) = g[k] + SumFunctionOnSet(g, r)
      /\ SumFunctionOnSet(h, s) = h[k] + SumFunctionOnSet(h, r)
  BY <1>2, <1>3, SumTaken
<1>5. SumFunctionOnSet(f, r) \in Int /\ SumFunctionOnSet(g, r) \in Int
  <2> HIDE DEF r
  <2> QED
    BY <1>3, SumIsInt
<1>6. SumFunctionOnSet(h, r) = SumFunctionOnSet(f, r) - SumFunctionOnSet(g, r)
  BY <1>3
<1>7. SumFunctionOnSet(h, s) # SumFunctionOnSet(f, s) - SumFunctionOnSet(g, s)
  OBVIOUS
<1> HIDE DEF Bad, k, r
<1> QED
  BY <1>3, <1>4, <1>5, <1>6, <1>7

(* Greater values, a greater sum.                                             *)
THEOREM SumGrows ==
    ASSUME NEW S, IsFiniteSet(S), NEW f, NEW g,
           \A x \in S : f[x] \in Int /\ g[x] \in Int /\ f[x] <= g[x]
    PROVE  SumFunctionOnSet(f, S) <= SumFunctionOnSet(g, S)
<1> DEFINE h == [x \in S |-> g[x] - f[x]]
<1>1. \A x \in S : h[x] = g[x] - f[x] /\ h[x] \in Nat
  OBVIOUS
<1> HIDE DEF h
<1>2. SumFunctionOnSet(h, S) = SumFunctionOnSet(g, S) - SumFunctionOnSet(f, S)
  BY <1>1, SumOfDifferences
<1>3. SumFunctionOnSet(h, S) \in Nat
  BY <1>1, SumIsNat
<1>4. SumFunctionOnSet(g, S) \in Int /\ SumFunctionOnSet(f, S) \in Int
  BY SumIsInt
<1> QED
  BY <1>2, <1>3, <1>4

------------------------------------------------------------------------------
(* A finite set of whole numbers that is not empty has a greatest number.     *)
THEOREM GreatestExists ==
    ASSUME NEW S, IsFiniteSet(S), S # {}, \A x \in S : x \in Int
    PROVE  \E x \in S : \A y \in S : x >= y
<1> DEFINE Bad == {s \in SUBSET S : s # {} /\ ~ \E x \in s : \A y \in s : x >= y}
<1>0. SUFFICES ASSUME Bad # {} PROVE FALSE
  OBVIOUS
<1>1. PICK s \in Bad : \A y \in Bad : y \subseteq s => y = s
  <2>1. Bad \subseteq SUBSET S
    OBVIOUS
  <2> HIDE DEF Bad
  <2> QED
    BY <1>0, <2>1, MinimalSubset
<1>2. PICK x : x \in s
  OBVIOUS
<1>3. s \ {x} # {}
  BY <1>1, <1>2
<1>4. s \ {x} \notin Bad
  BY <1>1, <1>2
<1>5. PICK m \in s \ {x} : \A y \in s \ {x} : m >= y
  BY <1>1, <1>3, <1>4
<1>6. \A y \in s : x >= y \/ m >= y
  BY <1>1, <1>2, <1>5
<1>7. x \in Int /\ m \in Int /\ \A y \in s : y \in Int
  BY <1>2, <1>5
<1>8. (\A y \in s : x >= y) \/ (\A y \in s : m >= y)
  BY <1>5, <1>6, <1>7
<1> QED
  BY <1>1, <1>2, <1>5, <1>8

(* And a least one.                                                           *)
THEOREM LeastExists ==
    ASSUME NEW S, IsFiniteSet(S), S # {}, \A x \in S : x \in Int
    PROVE  \E x \in S : \A y \in S : x <= y
<1> DEFINE Bad == {s \in SUBSET S : s # {} /\ ~ \E x \in s : \A y \in s : x <= y}
<1>0. SUFFICES ASSUME Bad # {} PROVE FALSE
  OBVIOUS
<1>1. PICK s \in Bad : \A y \in Bad : y \subseteq s => y = s
  <2>1. Bad \subseteq SUBSET S
    OBVIOUS
  <2> HIDE DEF Bad
  <2> QED
    BY <1>0, <2>1, MinimalSubset
<1>2. PICK x : x \in s
  OBVIOUS
<1>3. s \ {x} # {}
  BY <1>1, <1>2
<1>4. s \ {x} \notin Bad
  BY <1>1, <1>2
<1>5. PICK m \in s \ {x} : \A y \in s \ {x} : m <= y
  BY <1>1, <1>3, <1>4
<1>6. \A y \in s : x <= y \/ m <= y
  BY <1>1, <1>2, <1>5
<1>7. x \in Int /\ m \in Int /\ \A y \in s : y \in Int
  BY <1>2, <1>5
<1>8. (\A y \in s : x <= y) \/ (\A y \in s : m <= y)
  BY <1>5, <1>6, <1>7
<1> QED
  BY <1>1, <1>2, <1>5, <1>8

(* Max and Min choose these.                                                  *)
THEOREM GreatestOf ==
    ASSUME NEW S, IsFiniteSet(S), S # {}, \A x \in S : x \in Int
    PROVE  Max(S) \in S /\ \A y \in S : y <= Max(S)
<1>1. \E x \in S : \A y \in S : x >= y
  BY GreatestExists
<1>2. Max(S) \in S /\ \A y \in S : Max(S) >= y
  BY <1>1 DEF Max
<1> QED
  BY <1>2

(* The same of the least.                                                     *)
THEOREM LeastOf ==
    ASSUME NEW S, IsFiniteSet(S), S # {}, \A x \in S : x \in Int
    PROVE  Min(S) \in S /\ \A y \in S : Min(S) <= y
<1>1. \E x \in S : \A y \in S : x <= y
  BY LeastExists
<1>2. Min(S) \in S /\ \A y \in S : Min(S) <= y
  BY <1>1 DEF Min
<1> QED
  BY <1>2

(* The values of a function on a finite set are finitely many.                *)
THEOREM ValuesFinite ==
    ASSUME NEW S, IsFiniteSet(S), NEW f
    PROVE  IsFiniteSet({f[x] : x \in S})
<1> DEFINE image == {f[x] : x \in S}
           h == [x \in S |-> f[x]]
<1>1. h \in Surjection(S, image)
  BY DEF Surjection
<1> HIDE DEF h, image
<1>2. IsFiniteSet(image)
  BY <1>1, FS_Surjection
<1> QED
  BY <1>2 DEF image

=============================================================================
