--------------------------------- MODULE Sums ----------------------------------
(***************************************************************************)
(* Facts about the sums of Functions (SumFunctionOnSet, SumFunction) of    *)
(* integers over a finite set, and about the greatest element of a finite  *)
(* set of numbers.                                                         *)
(*                                                                         *)
(* Each is proved by induction over the subsets of a finite set, stated    *)
(* for a family of sets (SubsetInduction): the subsets that have a         *)
(* property are all of them, because a least one that lacks it would be    *)
(* one element larger than one that has it.                                *)
(*                                                                         *)
(* The last part is about taking a quantity from numbered lots in order,   *)
(* as much as each has before the next.                                    *)
(***************************************************************************)
EXTENDS Functions, FiniteSetTheorems, TLAPS

-------------------------------------------------------------------------------
(* Induction over the subsets of a finite set.                             *)

\* A family of subsets that holds the empty set, and every other one of which
\* each part with one element less is in it, holds all of them.
LEMMA SubsetInduction ==
  ASSUME NEW S, IsFiniteSet(S), NEW Family, {} \in Family,
         \A s \in SUBSET S :
             s # {} /\ (\A x \in s : s \ {x} \in Family) => s \in Family
  PROVE  \A s \in SUBSET S : s \in Family
<1> DEFINE Rest == {s \in SUBSET S : s \notin Family}
<1>1. ASSUME Rest # {} PROVE FALSE
  <2>1. IsWellFoundedOn(StrictSubsetOrdering(S), SUBSET S)
    BY FS_StrictSubsetOrderingWellFounded, FS_FiniteSubsetsOfFinite
  <2>2. Rest \subseteq SUBSET S
    OBVIOUS
  <2> HIDE DEF Rest
  <2>3. PICK s \in Rest : \A t \in Rest : ~(<<t, s>> \in StrictSubsetOrdering(S))
    BY <1>1, <2>1, <2>2, WFMin
  <2> USE DEF Rest
  <2>4. \A t \in Rest : t \subseteq s => t = s
    BY <2>3 DEF StrictSubsetOrdering
  <2>5. \A x \in s : s \ {x} \in Family
    BY <2>3, <2>4
  <2> QED
    BY <2>3, <2>5
<1> QED
  BY <1>1

-------------------------------------------------------------------------------
(* The recursion behind a sum.                                             *)

\* What is added next.
Added(s) == CHOOSE x \in s : TRUE

\* The sums of f over the members of a family of sets.
IsSum(sum, f, family) ==
    sum = [s \in family |-> IF s = {} THEN 0
                            ELSE f[Added(s)] + sum[s \ {Added(s)}]]

Sums(f, S) == CHOOSE sum : IsSum(sum, f, SUBSET S)

\* The sum over S is what the recursion over its subsets ends with.
LEMMA SumIsLast ==
  ASSUME NEW f, NEW S
  PROVE  SumFunctionOnSet(f, S) = Sums(f, S)[S]
BY DEF SumFunctionOnSet, FoldFunctionOnSet, MapThenFoldSet, Sums, IsSum, Added

\* A function's sum is the sum over its domain.
LEMMA SumOfAll ==
  ASSUME NEW f
  PROVE  SumFunction(f) = SumFunctionOnSet(f, DOMAIN f)
BY DEF SumFunction

\* The element that is added next is one of the set.
LEMMA AddedIn ==
  ASSUME NEW s, s # {}
  PROVE  Added(s) \in s
BY DEF Added

\* The sums exist, those of the sets with at most so many members first.
LEMMA SumsExist ==
  ASSUME NEW f, NEW S, IsFiniteSet(S)
  PROVE  IsSum(Sums(f, S), f, SUBSET S)
<1> DEFINE UpTo(s) == {t \in SUBSET S : Cardinality(t) <= Cardinality(s)}
           Family == {s \in SUBSET S : \E sum : IsSum(sum, f, UpTo(s))}
<1>0. \A s \in SUBSET S : IsFiniteSet(s) /\ Cardinality(s) \in Nat
                          /\ Cardinality(s) <= Cardinality(S)
  BY FS_Subset, FS_CardinalityType
<1>1. {} \in Family
  <2>1. UpTo({}) = {{}}
    BY <1>0, FS_EmptySet
  <2>2. IsSum([s \in UpTo({}) |-> 0], f, UpTo({}))
    BY <2>1 DEF IsSum
  <2> QED
    BY <2>2
<1>2. ASSUME NEW s \in SUBSET S, s # {}, \A x \in s : s \ {x} \in Family
      PROVE  s \in Family
  <2>1. PICK x \in s : TRUE
    BY <1>2
  <2> DEFINE r == s \ {x}
  <2>2. PICK sum : IsSum(sum, f, UpTo(r))
    BY <1>2
  <2>3. Cardinality(r) = Cardinality(s) - 1 /\ r \in SUBSET S
    BY <1>0, <2>1, FS_RemoveElement
  <2> DEFINE next == [t \in UpTo(s) |->
                        IF t \in UpTo(r) THEN sum[t]
                        ELSE f[Added(t)] + sum[t \ {Added(t)}]]
  <2>4. \A t \in UpTo(s) : t # {} => Added(t) \in t /\ t \ {Added(t)} \in UpTo(r)
    <3> SUFFICES ASSUME NEW t \in UpTo(s), t # {}
                 PROVE  Added(t) \in t /\ t \ {Added(t)} \in UpTo(r)
      OBVIOUS
    <3>1. Added(t) \in t
      BY AddedIn
    <3>2. Cardinality(t \ {Added(t)}) = Cardinality(t) - 1
      BY <1>0, <3>1, FS_RemoveElement
    <3> QED
      BY <1>0, <2>3, <3>1, <3>2
  <2>5. {} \in UpTo(r) /\ UpTo(r) \subseteq UpTo(s)
    BY <1>0, <2>3, FS_EmptySet
  <2>6. \A t \in UpTo(r) : sum[t] = IF t = {} THEN 0
                                    ELSE f[Added(t)] + sum[t \ {Added(t)}]
    BY <2>2 DEF IsSum
  <2> HIDE DEF UpTo, r
  <2>7. \A t \in UpTo(s) : next[t] = IF t = {} THEN 0
                                     ELSE f[Added(t)] + next[t \ {Added(t)}]
    <3> SUFFICES ASSUME NEW t \in UpTo(s)
                 PROVE  next[t] = IF t = {} THEN 0
                                  ELSE f[Added(t)] + next[t \ {Added(t)}]
      OBVIOUS
    <3>1. CASE t = {}
      BY <2>5, <2>6, <3>1
    <3>2. CASE t # {}
      <4>1. next[t \ {Added(t)}] = sum[t \ {Added(t)}]
        BY <2>4, <2>5, <3>2
      <4>2. next[t] = f[Added(t)] + sum[t \ {Added(t)}]
        BY <2>6, <3>2
      <4> QED
        BY <3>2, <4>1, <4>2
    <3> QED
      BY <3>1, <3>2
  <2>8. IsSum(next, f, UpTo(s))
    BY <2>7 DEF IsSum
  <2> QED
    BY <2>8
<1> HIDE DEF Family
<1>3. \A s \in SUBSET S : s \in Family
  BY <1>1, <1>2, SubsetInduction
<1>4. S \in Family
  BY <1>3
<1>5. UpTo(S) = SUBSET S
  BY <1>0
<1>6. \E sum : IsSum(sum, f, SUBSET S)
  BY <1>4, <1>5 DEF Family
<1> QED
  BY <1>6 DEF Sums

\* One step of the recursion.
LEMMA SumsNext ==
  ASSUME NEW g, NEW W, IsFiniteSet(W), NEW w \in SUBSET W
  PROVE  /\ w = {} => Sums(g, W)[w] = 0
         /\ w # {} => Sums(g, W)[w] = g[Added(w)] + Sums(g, W)[w \ {Added(w)}]
<1> DEFINE sum == Sums(g, W)
<1>1. IsSum(sum, g, SUBSET W)
  BY SumsExist
<1> HIDE DEF sum
<1>2. sum = [t \in SUBSET W |-> IF t = {} THEN 0 ELSE g[Added(t)] + sum[t \ {Added(t)}]]
  BY <1>1 DEF IsSum
<1>3. sum[w] = IF w = {} THEN 0 ELSE g[Added(w)] + sum[w \ {Added(w)}]
  BY <1>2
<1> QED
  BY <1>3 DEF sum

SameOn(S, f, g) == \A x \in S : f[x] = g[x]

\* A sum depends on the values summed and on nothing else.
LEMMA SumsAgree ==
  ASSUME NEW S, IsFiniteSet(S), NEW U, IsFiniteSet(U), S \subseteq U,
         NEW f, NEW g, SameOn(S, f, g)
  PROVE  Sums(f, U)[S] = Sums(g, S)[S]
<1> DEFINE Family == {s \in SUBSET S : Sums(f, U)[s] = Sums(g, S)[s]}
<1>1. {} \in Family
  <2>1. {} \in SUBSET S /\ {} \in SUBSET U
    OBVIOUS
  <2>2. Sums(f, U)[{}] = 0 /\ Sums(g, S)[{}] = 0
    BY <2>1, SumsNext
  <2> QED
    BY <2>2
<1>2. ASSUME NEW s \in SUBSET S, s # {}, \A x \in s : s \ {x} \in Family
      PROVE  s \in Family
  <2>1. Added(s) \in s
    BY <1>2, AddedIn
  <2>2. Sums(f, U)[s \ {Added(s)}] = Sums(g, S)[s \ {Added(s)}]
    BY <1>2, <2>1
  <2>3. s \in SUBSET U /\ s # {}
    BY <1>2
  <2> HIDE DEF Family
  <2>4. Sums(f, U)[s] = f[Added(s)] + Sums(f, U)[s \ {Added(s)}]
    BY <2>3, SumsNext
  <2>5. Sums(g, S)[s] = g[Added(s)] + Sums(g, S)[s \ {Added(s)}]
    BY <2>3, SumsNext
  <2> QED
    BY <2>1, <2>2, <2>4, <2>5 DEF Family, SameOn
<1> HIDE DEF Family
<1>3. \A s \in SUBSET S : s \in Family
  BY <1>1, <1>2, SubsetInduction
<1>4. S \in Family
  BY <1>3
<1> QED
  BY <1>4 DEF Family

\* So a sum over a subset is one of the sums of the whole.
LEMMA SumOfPart ==
  ASSUME NEW f, NEW S, IsFiniteSet(S), NEW s \in SUBSET S
  PROVE  SumFunctionOnSet(f, s) = Sums(f, S)[s]
<1>1. IsFiniteSet(s)
  BY FS_Subset
<1>2. Sums(f, S)[s] = Sums(f, s)[s]
  BY <1>1, SumsAgree DEF SameOn
<1> QED
  BY <1>2, SumIsLast

-------------------------------------------------------------------------------
(* Sums of integers.                                                       *)

\* Nothing sums to nothing.
LEMMA SumEmpty ==
  ASSUME NEW f
  PROVE  SumFunctionOnSet(f, {}) = 0
BY SumIsLast, SumsNext, FS_EmptySet

\* The sum depends on the function's values on the set alone.
LEMMA SumEqual ==
  ASSUME NEW S, IsFiniteSet(S), NEW f, NEW g, \A x \in S : f[x] = g[x]
  PROVE  SumFunctionOnSet(f, S) = SumFunctionOnSet(g, S)
BY SumsAgree, SumIsLast DEF SameOn

\* A step of the recursion, for sums.
LEMMA SumNext ==
  ASSUME NEW f, NEW S, IsFiniteSet(S), S # {}
  PROVE  /\ Added(S) \in S
         /\ SumFunctionOnSet(f, S)
              = f[Added(S)] + SumFunctionOnSet(f, S \ {Added(S)})
<1>1. Sums(f, S)[S] = f[Added(S)] + Sums(f, S)[S \ {Added(S)}]
  BY SumsNext
<1>2. Sums(f, S)[S \ {Added(S)}] = SumFunctionOnSet(f, S \ {Added(S)})
  BY SumOfPart
<1>3. Sums(f, S)[S] = SumFunctionOnSet(f, S)
  BY SumOfPart
<1> QED
  BY <1>1, <1>2, <1>3, AddedIn

\* A sum of integers is an integer.
LEMMA SumType ==
  ASSUME NEW S, IsFiniteSet(S), NEW f, \A x \in S : f[x] \in Int
  PROVE  SumFunctionOnSet(f, S) \in Int
<1> DEFINE Family == {s \in SUBSET S : SumFunctionOnSet(f, s) \in Int}
<1>1. {} \in Family
  BY SumEmpty
<1>2. ASSUME NEW s \in SUBSET S, s # {}, \A x \in s : s \ {x} \in Family
      PROVE  s \in Family
  <2>1. IsFiniteSet(s)
    BY FS_Subset
  <2>2. /\ Added(s) \in s
        /\ SumFunctionOnSet(f, s) = f[Added(s)] + SumFunctionOnSet(f, s \ {Added(s)})
    BY <1>2, <2>1, SumNext
  <2>3. SumFunctionOnSet(f, s \ {Added(s)}) \in Int /\ f[Added(s)] \in Int
    BY <1>2, <2>2
  <2> QED
    BY <2>2, <2>3
<1> HIDE DEF Family
<1>3. \A s \in SUBSET S : s \in Family
  BY <1>1, <1>2, SubsetInduction
<1>4. S \in Family
  BY <1>3
<1> QED
  BY <1>4 DEF Family

\* So is the sum over a part of the set.
LEMMA SumPartType ==
  ASSUME NEW S, IsFiniteSet(S), NEW f, \A x \in S : f[x] \in Int, NEW s \in SUBSET S
  PROVE  SumFunctionOnSet(f, s) \in Int
<1>1. IsFiniteSet(s)
  BY FS_Subset
<1> QED
  BY <1>1, SumType

\* Any member may be added last.
LEMMA SumRemove ==
  ASSUME NEW S, IsFiniteSet(S), NEW f, \A x \in S : f[x] \in Int, NEW x \in S
  PROVE  SumFunctionOnSet(f, S) = f[x] + SumFunctionOnSet(f, S \ {x})
<1> DEFINE Total(s) == SumFunctionOnSet(f, s)
           Family == {s \in SUBSET S : \A y \in s : Total(s) = f[y] + Total(s \ {y})}
<1>0. \A s \in SUBSET S : Total(s) \in Int
  BY SumPartType
<1>1. {} \in Family
  OBVIOUS
<1>2. ASSUME NEW s \in SUBSET S, s # {}, \A y \in s : s \ {y} \in Family
      PROVE  s \in Family
  <2> SUFFICES ASSUME NEW y \in s PROVE Total(s) = f[y] + Total(s \ {y})
    OBVIOUS
  <2> DEFINE z == Added(s)
  <2>1. IsFiniteSet(s)
    BY FS_Subset
  <2>2. z \in s /\ Total(s) = f[z] + Total(s \ {z})
    BY <1>2, <2>1, SumNext
  <2> HIDE DEF z, Total
  <2>3. CASE y = z
    BY <2>2, <2>3
  <2>4. CASE y # z
    <3>1. s \ {z} \in Family /\ s \ {y} \in Family
      BY <1>2, <2>2
    <3>2. Total(s \ {z}) = f[y] + Total((s \ {z}) \ {y})
      BY <2>4, <3>1
    <3>3. Total(s \ {y}) = f[z] + Total((s \ {y}) \ {z})
      BY <2>2, <2>4, <3>1
    <3>4. (s \ {z}) \ {y} = (s \ {y}) \ {z}
      OBVIOUS
    <3>5. /\ f[y] \in Int /\ f[z] \in Int
          /\ Total((s \ {y}) \ {z}) \in Int
      BY <1>0, <2>2
    <3>6. Total(s) = f[z] + (f[y] + Total((s \ {y}) \ {z}))
      BY <2>2, <3>2, <3>4
    <3> QED
      BY <3>3, <3>5, <3>6
  <2> QED
    BY <2>3, <2>4
<1> HIDE DEF Family
<1>3. \A s \in SUBSET S : s \in Family
  BY <1>1, <1>2, SubsetInduction
<1>4. S \in Family
  BY <1>3
<1> QED
  BY <1>4 DEF Family

\* A new element adds its value.
LEMMA SumAdd ==
  ASSUME NEW S, IsFiniteSet(S), NEW f, NEW x, x \notin S,
         \A y \in S \cup {x} : f[y] \in Int
  PROVE  SumFunctionOnSet(f, S \cup {x}) = f[x] + SumFunctionOnSet(f, S)
<1>1. IsFiniteSet(S \cup {x}) /\ x \in S \cup {x}
  BY FS_AddElement
<1>2. (S \cup {x}) \ {x} = S
  OBVIOUS
<1> QED
  BY <1>1, <1>2, SumRemove

\* The sum of two functions.
LEMMA SumPlus ==
  ASSUME NEW S, IsFiniteSet(S), NEW f, NEW g, NEW h,
         \A x \in S : f[x] \in Int /\ g[x] \in Int /\ h[x] = f[x] + g[x]
  PROVE  SumFunctionOnSet(h, S) = SumFunctionOnSet(f, S) + SumFunctionOnSet(g, S)
<1> DEFINE F(s) == SumFunctionOnSet(f, s)
           G(s) == SumFunctionOnSet(g, s)
           H(s) == SumFunctionOnSet(h, s)
           Family == {s \in SUBSET S : H(s) = F(s) + G(s)}
<1>0. \A s \in SUBSET S : F(s) \in Int /\ G(s) \in Int
  BY SumPartType
<1>1. {} \in Family
  BY SumEmpty
<1>2. ASSUME NEW s \in SUBSET S, s # {}, \A y \in s : s \ {y} \in Family
      PROVE  s \in Family
  <2> DEFINE z == Added(s)
  <2>1. IsFiniteSet(s)
    BY FS_Subset
  <2>2. z \in s
    BY <1>2, AddedIn
  <2>3. /\ F(s) = f[z] + F(s \ {z})
        /\ G(s) = g[z] + G(s \ {z})
        /\ H(s) = h[z] + H(s \ {z})
    BY <1>2, <2>1, SumNext
  <2> HIDE DEF F, G, H, z
  <2>4. H(s \ {z}) = F(s \ {z}) + G(s \ {z})
    BY <1>2, <2>2
  <2>5. F(s \ {z}) \in Int /\ G(s \ {z}) \in Int
    BY <1>0
  <2> QED
    BY <2>2, <2>3, <2>4, <2>5
<1> HIDE DEF Family
<1>3. \A s \in SUBSET S : s \in Family
  BY <1>1, <1>2, SubsetInduction
<1>4. S \in Family
  BY <1>3
<1> QED
  BY <1>4 DEF Family

\* Zeros sum to zero.
LEMMA SumZero ==
  ASSUME NEW S, IsFiniteSet(S), NEW f, \A x \in S : f[x] = 0
  PROVE  SumFunctionOnSet(f, S) = 0
<1>1. SumFunctionOnSet(f, S) = SumFunctionOnSet(f, S) + SumFunctionOnSet(f, S)
  BY SumPlus
<1>2. SumFunctionOnSet(f, S) \in Int
  BY SumType
<1> QED
  BY <1>1, <1>2

\* Negated, the values sum to the negated sum.
LEMMA SumNegative ==
  ASSUME NEW S, IsFiniteSet(S), NEW f, NEW g,
         \A x \in S : f[x] \in Int /\ g[x] = -f[x]
  PROVE  SumFunctionOnSet(g, S) = -SumFunctionOnSet(f, S)
<1> DEFINE zero == [x \in S |-> 0]
<1>1. SumFunctionOnSet(zero, S) = SumFunctionOnSet(f, S) + SumFunctionOnSet(g, S)
  <2>1. \A x \in S : f[x] \in Int /\ g[x] \in Int /\ zero[x] = f[x] + g[x]
    OBVIOUS
  <2> HIDE DEF zero
  <2> QED
    BY <2>1, SumPlus
<1>2. SumFunctionOnSet(zero, S) = 0
  BY SumZero
<1>3. SumFunctionOnSet(f, S) \in Int /\ SumFunctionOnSet(g, S) \in Int
  BY SumType
<1> QED
  BY <1>1, <1>2, <1>3

\* Only one member counts.
LEMMA SumOfOne ==
  ASSUME NEW S, IsFiniteSet(S), NEW f, NEW x \in S, f[x] \in Int,
         \A y \in S \ {x} : f[y] = 0
  PROVE  SumFunctionOnSet(f, S) = f[x]
<1>1. SumFunctionOnSet(f, S \ {x}) = 0
  BY SumZero, FS_RemoveElement
<1>2. SumFunctionOnSet(f, S) = f[x] + SumFunctionOnSet(f, S \ {x})
  BY SumRemove
<1> QED
  BY <1>1, <1>2

\* Members that count for nothing may be left out.
LEMMA SumOfSupport ==
  ASSUME NEW S, IsFiniteSet(S), NEW f, \A x \in S : f[x] \in Int,
         NEW T \in SUBSET S, \A x \in S \ T : f[x] = 0
  PROVE  SumFunctionOnSet(f, S) = SumFunctionOnSet(f, T)
<1> DEFINE F(s) == SumFunctionOnSet(f, s)
           Family == {s \in SUBSET S : F(s) = F(s \cap T)}
<1>0. \A s \in SUBSET S : F(s) \in Int
  BY SumPartType
<1>1. {} \in Family
  BY SumEmpty
<1>2. ASSUME NEW s \in SUBSET S, s # {}, \A y \in s : s \ {y} \in Family
      PROVE  s \in Family
  <2>1. PICK z \in s : TRUE
    BY <1>2
  <2>2. IsFiniteSet(s) /\ IsFiniteSet(s \cap T)
    BY FS_Subset
  <2>3. F(s) = f[z] + F(s \ {z})
    BY <2>1, <2>2, SumRemove
  <2>4. F(s \ {z}) = F((s \ {z}) \cap T)
    BY <1>2, <2>1
  <2>5. CASE z \in T
    <3>1. z \in s \cap T /\ (s \cap T) \ {z} = (s \ {z}) \cap T
      BY <2>1, <2>5
    <3>2. F(s \cap T) = f[z] + F((s \cap T) \ {z})
      BY <2>2, <3>1, SumRemove
    <3> QED
      BY <2>3, <2>4, <3>1, <3>2
  <2>6. CASE z \notin T
    <3>1. (s \ {z}) \cap T = s \cap T
      BY <2>1, <2>6
    <3>2. f[z] = 0 /\ F(s \ {z}) \in Int
      BY <1>0, <2>1, <2>6
    <3>3. F(s \ {z}) = F(s \cap T)
      BY <2>4, <3>1
    <3> HIDE DEF F
    <3>4. F(s) = F(s \cap T)
      BY <2>3, <3>2, <3>3
    <3> QED
      BY <3>4
  <2> QED
    BY <2>5, <2>6
<1> HIDE DEF Family
<1>3. \A s \in SUBSET S : s \in Family
  BY <1>1, <1>2, SubsetInduction
<1>4. S \in Family
  BY <1>3
<1>5. S \cap T = T
  OBVIOUS
<1> QED
  BY <1>4, <1>5 DEF Family

\* A sum of numbers that are not negative grows with the set.
LEMMA SumGrows ==
  ASSUME NEW S, IsFiniteSet(S), NEW f, \A x \in S : f[x] \in Nat, NEW part \in SUBSET S
  PROVE  /\ SumFunctionOnSet(f, part) \in Nat
         /\ SumFunctionOnSet(f, part) <= SumFunctionOnSet(f, S)
<1> DEFINE F(s) == SumFunctionOnSet(f, s)
           Family == {s \in SUBSET S : \A t \in SUBSET s : F(t) \in Nat /\ F(t) <= F(s)}
<1>0. F({}) = 0
  BY SumEmpty
<1>1. {} \in Family
  BY <1>0
<1>2. ASSUME NEW s \in SUBSET S, s # {}, \A y \in s : s \ {y} \in Family
      PROVE  s \in Family
  <2> SUFFICES ASSUME NEW t \in SUBSET s PROVE F(t) \in Nat /\ F(t) <= F(s)
    OBVIOUS
  <2>1. IsFiniteSet(s)
    BY FS_Subset
  <2>2. \A x \in s : F(s) = f[x] + F(s \ {x})
    BY <2>1, SumRemove
  <2> HIDE DEF F
  <2>3. PICK z \in s : t # s => z \notin t
    BY <1>2
  <2>4. /\ F(s) = f[z] + F(s \ {z}) /\ f[z] \in Nat
        /\ F(s \ {z}) \in Nat
    BY <1>2, <2>2
  <2>5. CASE t = s
    BY <2>4, <2>5
  <2>6. CASE t # s
    <3>1. t \in SUBSET (s \ {z})
      BY <2>3, <2>6
    <3>2. F(t) \in Nat /\ F(t) <= F(s \ {z})
      BY <1>2, <3>1
    <3> QED
      BY <2>4, <3>2
  <2> QED
    BY <2>5, <2>6
<1> HIDE DEF Family
<1>3. \A s \in SUBSET S : s \in Family
  BY <1>1, <1>2, SubsetInduction
<1>4. S \in Family
  BY <1>3
<1> QED
  BY <1>4 DEF Family

\* Larger terms make a larger sum.
LEMMA SumOrder ==
  ASSUME NEW S, IsFiniteSet(S), NEW f, NEW g,
         \A x \in S : f[x] \in Int /\ g[x] \in Int /\ f[x] <= g[x]
  PROVE  SumFunctionOnSet(f, S) <= SumFunctionOnSet(g, S)
<1> DEFINE more == [x \in S |-> g[x] - f[x]]
<1>1. \A x \in S : more[x] \in Nat
  OBVIOUS
<1>2. SumFunctionOnSet(g, S) = SumFunctionOnSet(f, S) + SumFunctionOnSet(more, S)
  <2>1. \A x \in S : f[x] \in Int /\ more[x] \in Int /\ g[x] = f[x] + more[x]
    OBVIOUS
  <2> HIDE DEF more
  <2> QED
    BY <2>1, SumPlus
<1> HIDE DEF more
<1>3. SumFunctionOnSet(more, S) \in Nat /\ SumFunctionOnSet(f, S) \in Int
  <2>1. SumFunctionOnSet(f, S) \in Int
    BY SumType
  <2> QED
    BY <1>1, <2>1, SumGrows
<1> QED
  BY <1>2, <1>3

\* One term changes, and the sum with it.
LEMMA SumUpdate ==
  ASSUME NEW S, IsFiniteSet(S), NEW f, NEW g, NEW x \in S,
         \A y \in S : f[y] \in Int /\ g[y] \in Int,
         SameOn(S \ {x}, f, g)
  PROVE  SumFunctionOnSet(g, S) = SumFunctionOnSet(f, S) + g[x] - f[x]
<1>1. SumFunctionOnSet(f, S) = f[x] + SumFunctionOnSet(f, S \ {x})
  BY SumRemove
<1>2. SumFunctionOnSet(g, S) = g[x] + SumFunctionOnSet(g, S \ {x})
  BY SumRemove
<1>3. SumFunctionOnSet(g, S \ {x}) = SumFunctionOnSet(f, S \ {x})
  BY SumEqual, FS_RemoveElement DEF SameOn
<1>4. SumFunctionOnSet(f, S \ {x}) \in Int
  BY SumPartType
<1>5. f[x] \in Int /\ g[x] \in Int
  OBVIOUS
<1> QED
  BY <1>1, <1>2, <1>3, <1>4, <1>5

\* The sum over two sets that share nothing.
LEMMA SumOfBoth ==
  ASSUME NEW S, IsFiniteSet(S), NEW f, \A x \in S : f[x] \in Int,
         NEW A \in SUBSET S, NEW B \in SUBSET S, A \cap B = {}
  PROVE  SumFunctionOnSet(f, A \cup B) = SumFunctionOnSet(f, A) + SumFunctionOnSet(f, B)
<1> DEFINE C == A \cup B
           g == [x \in C |-> IF x \in A THEN f[x] ELSE 0]
           h == [x \in C |-> IF x \in B THEN f[x] ELSE 0]
<1>1. IsFiniteSet(C) /\ IsFiniteSet(A) /\ IsFiniteSet(B)
  BY FS_Subset
<1>2. \A x \in C : g[x] \in Int /\ h[x] \in Int /\ f[x] = g[x] + h[x]
  OBVIOUS
<1>3. /\ \A x \in A : g[x] = f[x]
      /\ \A x \in B : h[x] = f[x]
      /\ \A x \in C \ A : g[x] = 0
      /\ \A x \in C \ B : h[x] = 0
  OBVIOUS
<1>4. A \in SUBSET C /\ B \in SUBSET C
  OBVIOUS
<1> HIDE DEF g, h, C
<1>5. SumFunctionOnSet(f, C) = SumFunctionOnSet(g, C) + SumFunctionOnSet(h, C)
  BY <1>1, <1>2, SumPlus
<1>6. SumFunctionOnSet(g, C) = SumFunctionOnSet(g, A)
  BY <1>1, <1>2, <1>3, <1>4, SumOfSupport
<1>7. SumFunctionOnSet(h, C) = SumFunctionOnSet(h, B)
  BY <1>1, <1>2, <1>3, <1>4, SumOfSupport
<1>8. SumFunctionOnSet(g, A) = SumFunctionOnSet(f, A)
  BY <1>1, <1>3, SumEqual
<1>9. SumFunctionOnSet(h, B) = SumFunctionOnSet(f, B)
  BY <1>1, <1>3, SumEqual
<1> QED
  BY <1>5, <1>6, <1>7, <1>8, <1>9 DEF C

\* Renaming the members.
LEMMA SumRenamed ==
  ASSUME NEW S, IsFiniteSet(S), NEW name,
         \A x, y \in S : name[x] = name[y] => x = y,
         NEW f, NEW g, \A x \in S : f[x] \in Int /\ g[name[x]] = f[x]
  PROVE  /\ IsFiniteSet({name[x] : x \in S})
         /\ SumFunctionOnSet(g, {name[x] : x \in S}) = SumFunctionOnSet(f, S)
<1> DEFINE Names(s) == {name[x] : x \in s}
           Family == {s \in SUBSET S :
                        /\ IsFiniteSet(Names(s))
                        /\ SumFunctionOnSet(g, Names(s)) = SumFunctionOnSet(f, s)}
<1>1. {} \in Family
  <2>1. Names({}) = {}
    OBVIOUS
  <2> QED
    BY <2>1, SumEmpty, FS_EmptySet
<1>2. ASSUME NEW s \in SUBSET S, s # {}, \A y \in s : s \ {y} \in Family
      PROVE  s \in Family
  <2>1. PICK z \in s : TRUE
    BY <1>2
  <2> DEFINE t == s \ {z}
  <2>2. IsFiniteSet(s)
    BY FS_Subset
  <2>3. Names(s) = Names(t) \cup {name[z]} /\ name[z] \notin Names(t)
    BY <2>1
  <2>4. IsFiniteSet(Names(t)) /\ SumFunctionOnSet(g, Names(t)) = SumFunctionOnSet(f, t)
    BY <1>2, <2>1
  <2>5. SumFunctionOnSet(f, s) = f[z] + SumFunctionOnSet(f, t)
    BY <2>1, <2>2, SumRemove
  <2>6. /\ \A y \in Names(t) \cup {name[z]} : g[y] \in Int
        /\ g[name[z]] = f[z]
    <3>1. \A x \in s : g[name[x]] = f[x] /\ f[x] \in Int
      OBVIOUS
    <3>2. \A y \in Names(t) \cup {name[z]} : \E x \in s : y = name[x]
      BY <2>1
    <3> QED
      BY <2>1, <3>1, <3>2
  <2> HIDE DEF Names, t
  <2>7. SumFunctionOnSet(g, Names(t) \cup {name[z]})
           = g[name[z]] + SumFunctionOnSet(g, Names(t))
    BY <2>3, <2>4, <2>6, SumAdd
  <2>8. IsFiniteSet(Names(t) \cup {name[z]})
    BY <2>4, FS_AddElement
  <2> QED
    BY <2>3, <2>4, <2>5, <2>6, <2>7, <2>8
<1> HIDE DEF Family
<1>3. \A s \in SUBSET S : s \in Family
  BY <1>1, <1>2, SubsetInduction
<1>4. S \in Family
  BY <1>3
<1> QED
  BY <1>4 DEF Family

\* A table of integers, by columns and by rows, and the sums of each.
IsTable(L, K, entry, row, column, total) ==
    /\ \A l \in L : \A k \in K : entry[l][k] \in Int
    /\ \A k \in K : \A l \in L : row[k][l] = entry[l][k]
    /\ \A k \in K : total[k] = SumFunctionOnSet(row[k], L)
    /\ \A l \in L : column[l] = SumFunctionOnSet(entry[l], K)

\* A table has one sum, by rows or by columns.
LEMMA SumByColumns ==
  ASSUME NEW K, IsFiniteSet(K), NEW L, IsFiniteSet(L),
         NEW entry, NEW row, NEW column, NEW total, IsTable(L, K, entry, row, column, total)
  PROVE  SumFunctionOnSet(column, L) = SumFunctionOnSet(total, K)
<1> USE DEF IsTable
<1> DEFINE Column(s) == [l \in L |-> SumFunctionOnSet(entry[l], s)]
           Family == {s \in SUBSET K : SumFunctionOnSet(Column(s), L)
                                           = SumFunctionOnSet(total, s)}
<1>0. /\ \A s \in SUBSET K : IsFiniteSet(s)
      /\ \A k \in K : total[k] \in Int
  <2>1. ASSUME NEW k \in K PROVE total[k] \in Int
    BY SumType
  <2> QED
    BY <2>1, FS_Subset
<1>1. {} \in Family
  <2>1. \A l \in L : Column({})[l] = 0
    BY SumEmpty
  <2> HIDE DEF Column
  <2>2. SumFunctionOnSet(Column({}), L) = 0
    BY <2>1, SumZero
  <2> QED
    BY <2>2, SumEmpty
<1>2. ASSUME NEW s \in SUBSET K, s # {}, \A y \in s : s \ {y} \in Family
      PROVE  s \in Family
  <2>1. PICK z \in s : TRUE
    BY <1>2
  <2> DEFINE t == s \ {z}
  <2>2. SumFunctionOnSet(total, s) = total[z] + SumFunctionOnSet(total, t)
    BY <1>0, <2>1, SumRemove
  <2>3. ASSUME NEW l \in L
        PROVE  /\ row[z][l] \in Int /\ Column(t)[l] \in Int
               /\ Column(s)[l] = row[z][l] + Column(t)[l]
    <3> DEFINE f == entry[l]
    <3>1. (\A k \in K : f[k] \in Int) /\ row[z][l] = f[z]
      BY <2>1
    <3> HIDE DEF f
    <3>2. SumFunctionOnSet(f, s) = f[z] + SumFunctionOnSet(f, t)
      BY <1>0, <2>1, <3>1, SumRemove
    <3>3. SumFunctionOnSet(f, t) \in Int
      BY <3>1, SumPartType
    <3> QED
      BY <2>1, <3>1, <3>2, <3>3 DEF f
  <2> HIDE DEF Column, t
  <2>4. SumFunctionOnSet(Column(s), L)
          = SumFunctionOnSet(row[z], L) + SumFunctionOnSet(Column(t), L)
    BY <2>3, SumPlus
  <2>5. SumFunctionOnSet(Column(t), L) = SumFunctionOnSet(total, t)
    BY <1>2, <2>1 DEF t
  <2>6. total[z] = SumFunctionOnSet(row[z], L)
    BY <2>1
  <2> QED
    BY <2>2, <2>4, <2>5, <2>6
<1> HIDE DEF Family
<1>3. \A s \in SUBSET K : s \in Family
  BY <1>1, <1>2, SubsetInduction
<1>4. K \in Family
  BY <1>3
<1>5. SumFunctionOnSet(column, L) = SumFunctionOnSet(Column(K), L)
  <2>1. \A l \in L : column[l] = Column(K)[l]
    OBVIOUS
  <2> HIDE DEF Column
  <2> QED
    BY <2>1, SumEqual
<1> QED
  BY <1>4, <1>5 DEF Family

-------------------------------------------------------------------------------
(* The greatest of finitely many numbers.                                  *)

\* Finitely many integers have a greatest one.
LEMMA Greatest ==
  ASSUME NEW S, IsFiniteSet(S), S \subseteq Int, S # {}
  PROVE  \E x \in S : \A y \in S : y <= x
<1> DEFINE Family == {s \in SUBSET S : s # {} => \E x \in s : \A y \in s : y <= x}
<1>1. {} \in Family
  OBVIOUS
<1>2. ASSUME NEW s \in SUBSET S, s # {}, \A y \in s : s \ {y} \in Family
      PROVE  s \in Family
  <2>1. PICK z \in s : TRUE
    BY <1>2
  <2>2. CASE s = {z}
    BY <2>2
  <2>3. CASE s # {z}
    <3>1. PICK x \in s \ {z} : \A y \in s \ {z} : y <= x
      BY <1>2, <2>1, <2>3
    <3>2. CASE x <= z
      BY <3>1, <3>2
    <3>3. CASE ~(x <= z)
      BY <3>1, <3>3
    <3> QED
      BY <3>2, <3>3
  <2> QED
    BY <2>2, <2>3
<1> HIDE DEF Family
<1>3. \A s \in SUBSET S : s \in Family
  BY <1>1, <1>2, SubsetInduction
<1>4. S \in Family
  BY <1>3
<1> QED
  BY <1>4 DEF Family

\* Every set of natural numbers has a least one.
LEMMA Least ==
  ASSUME NEW S, S \subseteq Nat, S # {}
  PROVE  \E x \in S : \A y \in S : x <= y
<1>1. PICK x \in S : \A y \in S : ~(<<y, x>> \in OpToRel(<, Nat))
  <2>1. IsWellFoundedOn(OpToRel(<, Nat), Nat)
    BY NatLessThanWellFounded
  <2> QED
    BY <2>1, WFMin
<1>2. \A y \in S : ~(y < x)
  BY <1>1 DEF OpToRel
<1> QED
  BY <1>2

-------------------------------------------------------------------------------
(* Taking in an order.                                                     *)

\* An order of the members of a set: those that come before each.
IsOrder(before, S) ==
    /\ \A l \in S : before[l] \subseteq S /\ l \notin before[l]
    /\ \A k, l \in S : k \in before[l] => before[k] \subseteq before[l]
    /\ \A k, l \in S : k = l \/ k \in before[l] \/ l \in before[k]

\* A finite set that is not empty has a member that comes last.
LEMMA LastInOrder ==
  ASSUME NEW S, IsFiniteSet(S), NEW before, IsOrder(before, S),
         NEW t \in SUBSET S, t # {}
  PROVE  \E m \in t : \A l \in t \ {m} : l \in before[m]
<1> DEFINE Last(s, m) == \A l \in s \ {m} : l \in before[m]
           Family == {s \in SUBSET t : s # {} => \E m \in s : Last(s, m)}
<1>0. IsFiniteSet(t)
  BY FS_Subset
<1>1. {} \in Family
  OBVIOUS
<1>2. ASSUME NEW s \in SUBSET t, s # {}, \A y \in s : s \ {y} \in Family
      PROVE  s \in Family
  <2>1. PICK z \in s : TRUE
    BY <1>2
  <2>2. CASE s = {z}
    BY <2>2
  <2>3. CASE s # {z}
    <3>1. PICK m \in s \ {z} : Last(s \ {z}, m)
      BY <1>2, <2>1, <2>3
    <3>2. m \in S /\ z \in S /\ m # z
      BY <2>1
    <3>3. CASE z \in before[m]
      BY <3>1, <3>3
    <3>4. CASE m \in before[z]
      <4>1. before[m] \subseteq before[z]
        BY <3>2, <3>4 DEF IsOrder
      <4> QED
        BY <2>1, <3>1, <3>4, <4>1
    <3> QED
      BY <3>2, <3>3, <3>4 DEF IsOrder
  <2> QED
    BY <2>2, <2>3
<1> HIDE DEF Family
<1>3. \A s \in SUBSET t : s \in Family
  BY <1>0, <1>1, <1>2, SubsetInduction
<1>4. t \in Family
  BY <1>3
<1> QED
  BY <1>4 DEF Family

\* What is asked of something, between nothing and all it has.
Part(x, most) == IF x \in 0..most THEN x ELSE IF x > most THEN most ELSE 0

\* Each in an order gives, of what it has, what those before it could not: together they
\* give what is asked for, or all they have.
LEMMA TakenInOrder ==
  ASSUME NEW S, IsFiniteSet(S), NEW before, IsOrder(before, S), NEW n \in Nat,
         NEW held, \A l \in S : held[l] \in Nat,
         NEW take, \A l \in S :
             take[l] = Part(n - SumFunctionOnSet(held, before[l]), held[l])
  PROVE  /\ SumFunctionOnSet(held, S) \in Nat
         /\ n <= SumFunctionOnSet(held, S) => SumFunctionOnSet(take, S) = n
<1> DEFINE Total(t) == SumFunctionOnSet(held, t)
           Taken(t) == SumFunctionOnSet(take, t)
           Prefix(t) == \A l \in t : before[l] \subseteq t
           Exact(t) == Taken(t) = IF n <= Total(t) THEN n ELSE Total(t)
           Family == {t \in SUBSET S : Prefix(t) => Exact(t)}
<1>1. \A t \in SUBSET S : Total(t) \in Nat
  BY SumGrows
<1>2. \A l \in S : before[l] \in SUBSET S
  BY DEF IsOrder
<1>3. \A l \in S : take[l] \in Int
  <2>1. ASSUME NEW l \in S PROVE take[l] \in Int
    <3>1. Total(before[l]) \in Nat /\ held[l] \in Nat
      BY <1>1, <1>2
    <3>2. take[l] = Part(n - Total(before[l]), held[l])
      OBVIOUS
    <3> HIDE DEF Total
    <3> QED
      BY <3>1, <3>2 DEF Part
  <2> QED
    BY <2>1
<1>4. {} \in Family
  BY SumEmpty
<1>5. ASSUME NEW t \in SUBSET S, t # {}, \A l \in t : t \ {l} \in Family
      PROVE  t \in Family
  <2> SUFFICES ASSUME Prefix(t) PROVE Exact(t)
    OBVIOUS
  <2>1. IsFiniteSet(t)
    BY FS_Subset
  <2>2. PICK m \in t : \A l \in t \ {m} : l \in before[m]
    BY <1>5, LastInOrder
  <2> DEFINE rest == t \ {m}
  <2>3. before[m] = rest
    <3>1. before[m] \subseteq t /\ m \notin before[m]
      BY <2>2 DEF IsOrder
    <3> QED
      BY <2>2, <3>1
  <2>4. Prefix(rest)
    <3> SUFFICES ASSUME NEW l \in rest, m \in before[l] PROVE FALSE
      OBVIOUS
    <3>1. l \in S /\ m \in S /\ l \in before[m]
      BY <2>2
    <3>2. before[l] \subseteq before[m] /\ m \notin before[m]
      BY <3>1 DEF IsOrder
    <3> QED
      BY <3>2
  <2>5. Exact(rest)
    <3> HIDE DEF Prefix, Exact
    <3>1. rest \in Family
      BY <1>5, <2>2
    <3> QED
      BY <2>4, <3>1
  <2>6. Total(t) = held[m] + Total(rest) /\ Taken(t) = take[m] + Taken(rest)
    <3>1. \A l \in t : held[l] \in Int /\ take[l] \in Int
      BY <1>3
    <3>2. Total(t) = held[m] + Total(rest)
      BY <2>1, <2>2, <3>1, SumRemove
    <3>3. Taken(t) = take[m] + Taken(rest)
      BY <2>1, <2>2, <3>1, SumRemove
    <3> QED
      BY <3>2, <3>3
  <2>7. take[m] = Part(n - Total(rest), held[m])
    BY <2>2, <2>3
  <2>8. held[m] \in Nat /\ Total(rest) \in Nat
    BY <1>1, <2>2
  <2> HIDE DEF Total, Taken, rest
  <2> QED
    BY <2>5, <2>6, <2>7, <2>8 DEF Part
<1> HIDE DEF Family
<1>6. \A t \in SUBSET S : t \in Family
  BY <1>1, <1>4, <1>5, SubsetInduction
<1>7. Exact(S)
  <2>1. Prefix(S)
    BY <1>2
  <2> HIDE DEF Prefix, Exact
  <2> QED
    BY <1>6, <2>1 DEF Family
<1>8. Total(S) \in Nat
  BY <1>1
<1> QED
  BY <1>7, <1>8
===============================================================================
