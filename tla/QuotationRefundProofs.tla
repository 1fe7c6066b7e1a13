------------------------ MODULE QuotationRefundProofs ------------------------
(***************************************************************************)
(* Proofs about QuotationRefund, for any number of refunds, any amount     *)
(* paid and any lawyer's part of it.                                       *)
(*                                                                         *)
(* What may be refunded is worked out from sums over the rows, so the      *)
(* first part is about SumFunctionOnSet (as in WalletProofs), up to        *)
(* SumGrows; the second relates the sums to a step of one refund.          *)
(***************************************************************************)
EXTENDS QuotationRefund, TLAPS, FiniteSetTheorems, WellFoundedInduction

\* What SumFunctionOnSet adds up: the element it chooses, and the sum of the rest.
Chosen(s) == CHOOSE x \in s : TRUE
SumStep(f, g, s) == IF s = {} THEN 0 ELSE f[Chosen(s)] + g[s \ {Chosen(s)}]
SumRecursion(f, S, g) == g = [s \in SUBSET S |-> SumStep(f, g, s)]
Sums(f, S) == CHOOSE g : SumRecursion(f, S, g)

\* Induction, as the least counterexample.
LEMMA LeastNatural ==
  ASSUME NEW T, T \subseteq Nat, T # {}
  PROVE \E n \in T : \A m \in T : n <= m
<1> DEFINE R == OpToRel(<, Nat)
<1>1. IsWellFoundedOn(R, Nat)
  BY NatLessThanWellFounded
<1>2. \A m, n \in Nat : <<m, n>> \in R <=> m < n
  BY DEF OpToRel
<1> HIDE DEF R
<1>3. PICK n \in T : \A m \in T : ~ (<<m, n>> \in R)
  BY <1>1, WFMin
<1>4. ASSUME NEW m \in T PROVE n <= m
  <2>1. m \in Nat /\ n \in Nat /\ ~(m < n)
    BY <1>2, <1>3
  <2> QED
    BY <2>1
<1> QED
  BY <1>4

LEMMA ChosenIsIn == ASSUME NEW s, s # {} PROVE Chosen(s) \in s
BY DEF Chosen

LEMMA SumIsSums == ASSUME NEW f, NEW S PROVE SumFunctionOnSet(f, S) = Sums(f, S)[S]
BY DEF SumFunctionOnSet, FoldFunctionOnSet, MapThenFoldSet, Sums, SumRecursion, SumStep, Chosen

LEMMA SumsExist == ASSUME NEW f, NEW S, IsFiniteSet(S) PROVE \E g : SumRecursion(f, S, g)
<1> DEFINE UpTo(n, g) == \A s \in SUBSET S : Cardinality(s) <= n => g[s] = SumStep(f, g, s)
           T == {n \in Nat : \A g : ~UpTo(n, g)}
<1>1. \A s \in SUBSET S : IsFiniteSet(s) /\ Cardinality(s) \in Nat /\ Cardinality(s) <= Cardinality(S)
  BY FS_Subset, FS_CardinalityType
<1>2. \A s \in SUBSET S : s # {} => /\ Chosen(s) \in s /\ s \ {Chosen(s)} \in SUBSET S
                                    /\ Cardinality(s \ {Chosen(s)}) = Cardinality(s) - 1
  <2> SUFFICES ASSUME NEW s \in SUBSET S, s # {}
               PROVE /\ Chosen(s) \in s /\ s \ {Chosen(s)} \in SUBSET S
                     /\ Cardinality(s \ {Chosen(s)}) = Cardinality(s) - 1
    OBVIOUS
  <2>1. Chosen(s) \in s
    BY ChosenIsIn
  <2> QED
    BY <1>1, <2>1, FS_RemoveElement
<1>3. T = {}
  <2> SUFFICES ASSUME T # {} PROVE FALSE
    OBVIOUS
  <2>1. PICK n \in T : \A m \in T : n <= m
    <3>1. T \subseteq Nat
      OBVIOUS
    <3> HIDE DEF T
    <3> QED
      BY <3>1, LeastNatural
  <2>2. CASE n = 0
    <3> DEFINE g == [s \in SUBSET S |-> 0]
    <3>1. ASSUME NEW s \in SUBSET S, Cardinality(s) <= 0 PROVE g[s] = SumStep(f, g, s)
      <4>1. s = {}
        BY <1>1, <3>1, FS_EmptySet
      <4> QED
        BY <4>1 DEF SumStep
    <3>2. UpTo(0, g)
      BY <3>1
    <3> QED
      BY <2>1, <2>2, <3>2
  <2>3. CASE n # 0
    <3>1. n - 1 \in Nat /\ n - 1 \notin T /\ n \in Nat
      BY <2>1, <2>3
    <3>2. PICK g : UpTo(n - 1, g)
      BY <3>1
    <3> DEFINE h == [s \in SUBSET S |-> IF Cardinality(s) <= n - 1 THEN g[s] ELSE SumStep(f, g, s)]
    <3>3. ASSUME NEW s \in SUBSET S, Cardinality(s) <= n PROVE h[s] = SumStep(f, h, s)
      <4>1. h[s] = SumStep(f, g, s)
        BY <3>2
      <4>2. SumStep(f, h, s) = SumStep(f, g, s)
        <5>1. CASE s = {}
          BY <5>1 DEF SumStep
        <5>2. CASE s # {}
          <6> DEFINE rest == s \ {Chosen(s)}
          <6>1. rest \in SUBSET S /\ Cardinality(rest) <= n - 1
            BY <1>1, <1>2, <3>1, <3>3, <5>2
          <6>2. h[rest] = g[rest]
            BY <6>1
          <6> QED
            BY <5>2, <6>2 DEF SumStep
        <5> QED
          BY <5>1, <5>2
      <4> QED
        BY <4>1, <4>2
    <3>4. UpTo(n, h)
      BY <3>3
    <3> QED
      BY <2>1, <3>4
  <2> QED
    BY <2>2, <2>3
<1>4. PICK g : UpTo(Cardinality(S), g)
  BY <1>1, <1>3
<1> DEFINE h == [s \in SUBSET S |-> g[s]]
<1>5. ASSUME NEW s \in SUBSET S PROVE SumStep(f, g, s) = SumStep(f, h, s) /\ g[s] = SumStep(f, g, s)
  BY <1>1, <1>2, <1>4 DEF SumStep
<1>6. SumRecursion(f, S, h)
  BY <1>5 DEF SumRecursion
<1> QED
  BY <1>6

LEMMA SumsUnfold ==
  ASSUME NEW f, NEW S, IsFiniteSet(S), NEW s \in SUBSET S
  PROVE Sums(f, S)[s] = IF s = {} THEN 0 ELSE f[Chosen(s)] + Sums(f, S)[s \ {Chosen(s)}]
<1>1. SumRecursion(f, S, Sums(f, S))
  BY SumsExist DEF Sums
<1> QED
  BY <1>1 DEF SumRecursion, SumStep

LEMMA SumsAgree ==
  ASSUME NEW f, NEW S, IsFiniteSet(S), NEW g, NEW U, IsFiniteSet(U),
         NEW s, s \subseteq S, s \subseteq U, \A x \in s : f[x] = g[x]
  PROVE Sums(f, S)[s] = Sums(g, U)[s]
<1> DEFINE Wrong(t) == t \subseteq s /\ Sums(f, S)[t] # Sums(g, U)[t]
           T == {n \in Nat : \E t : Wrong(t) /\ n = Cardinality(t)}
<1>1. \A t : t \subseteq s => IsFiniteSet(t) /\ Cardinality(t) \in Nat
  BY FS_Subset, FS_CardinalityType
<1>2. T = {}
  <2> SUFFICES ASSUME T # {} PROVE FALSE
    OBVIOUS
  <2>1. PICK n \in T : \A m \in T : n <= m
    <3>1. T \subseteq Nat
      OBVIOUS
    <3> HIDE DEF T
    <3> QED
      BY <3>1, LeastNatural
  <2>2. PICK t : Wrong(t) /\ n = Cardinality(t)
    BY <2>1
  <2>3. t # {}
    BY <2>2, SumsUnfold
  <2> DEFINE rest == t \ {Chosen(t)}
  <2>4. Chosen(t) \in t /\ Cardinality(rest) = n - 1 /\ Cardinality(rest) \in Nat /\ rest \subseteq s
    BY <1>1, <2>2, <2>3, ChosenIsIn, FS_RemoveElement
  <2>5. Sums(f, S)[rest] = Sums(g, U)[rest]
    <3>1. n - 1 \notin T
      BY <2>1, <2>4
    <3> QED
      BY <2>4, <3>1
  <2>6. /\ Sums(f, S)[t] = f[Chosen(t)] + Sums(f, S)[rest]
        /\ Sums(g, U)[t] = g[Chosen(t)] + Sums(g, U)[rest]
    BY <2>2, <2>3, SumsUnfold
  <2> QED
    BY <2>2, <2>4, <2>5, <2>6
<1> QED
  BY <1>1, <1>2

-----------------------------------------------------------------------------
\* What SumFunctionOnSet is.
LEMMA SumEmpty == ASSUME NEW f PROVE SumFunctionOnSet(f, {}) = 0
BY SumIsSums, SumsUnfold, FS_EmptySet

LEMMA SumAgrees ==
  ASSUME NEW f, NEW g, NEW S, IsFiniteSet(S), \A x \in S : f[x] = g[x]
  PROVE SumFunctionOnSet(f, S) = SumFunctionOnSet(g, S)
BY SumIsSums, SumsAgree

LEMMA SumChosen ==
  ASSUME NEW f, NEW S, IsFiniteSet(S), S # {}
  PROVE SumFunctionOnSet(f, S) = f[Chosen(S)] + SumFunctionOnSet(f, S \ {Chosen(S)})
<1> DEFINE rest == S \ {Chosen(S)}
<1>1. Sums(f, S)[S] = f[Chosen(S)] + Sums(f, S)[rest]
  BY SumsUnfold
<1>2. IsFiniteSet(rest)
  BY FS_Subset
<1>3. Sums(f, S)[rest] = Sums(f, rest)[rest]
  BY <1>2, SumsAgree
<1> QED
  BY <1>1, <1>3, SumIsSums

\* A sum of integers is one.
LEMMA SumType ==
  ASSUME NEW f, NEW S, IsFiniteSet(S), \A x \in S : f[x] \in Int
  PROVE SumFunctionOnSet(f, S) \in Int /\ ((\A x \in S : f[x] >= 0) => SumFunctionOnSet(f, S) >= 0)
<1> DEFINE Right(t) == SumFunctionOnSet(f, t) \in Int /\ ((\A x \in S : f[x] >= 0) => SumFunctionOnSet(f, t) >= 0)
           T == {n \in Nat : \E t : t \subseteq S /\ ~Right(t) /\ n = Cardinality(t)}
<1>1. \A t : t \subseteq S => IsFiniteSet(t) /\ Cardinality(t) \in Nat
  BY FS_Subset, FS_CardinalityType
<1>2. T = {}
  <2> SUFFICES ASSUME T # {} PROVE FALSE
    OBVIOUS
  <2>1. PICK n \in T : \A m \in T : n <= m
    <3>1. T \subseteq Nat
      OBVIOUS
    <3> HIDE DEF T
    <3> QED
      BY <3>1, LeastNatural
  <2>2. PICK t : t \subseteq S /\ ~Right(t) /\ n = Cardinality(t)
    BY <2>1
  <2>3. t # {}
    BY <2>2, SumEmpty
  <2> DEFINE rest == t \ {Chosen(t)}
  <2>4. Chosen(t) \in t /\ Cardinality(rest) = n - 1 /\ Cardinality(rest) \in Nat /\ rest \subseteq S
    BY <1>1, <2>2, <2>3, ChosenIsIn, FS_RemoveElement
  <2>5. Right(rest)
    <3>1. n - 1 \notin T
      BY <2>1, <2>4
    <3> QED
      BY <2>4, <3>1
  <2>6. SumFunctionOnSet(f, t) = f[Chosen(t)] + SumFunctionOnSet(f, rest)
    BY <1>1, <2>2, <2>3, SumChosen
  <2>7. f[Chosen(t)] \in Int /\ ((\A x \in S : f[x] >= 0) => f[Chosen(t)] >= 0)
    BY <2>2, <2>4
  <2> HIDE DEF rest
  <2>8. Right(t)
    BY <2>5, <2>6, <2>7
  <2> QED
    BY <2>2, <2>8
<1>3. S \subseteq S /\ Right(S)
  BY <1>1, <1>2
<1> QED
  BY <1>3

\* Any element may be taken out first.
LEMMA SumWithout ==
  ASSUME NEW f, NEW S, IsFiniteSet(S), \A x \in S : f[x] \in Int, NEW y \in S
  PROVE SumFunctionOnSet(f, S) = f[y] + SumFunctionOnSet(f, S \ {y})
<1> DEFINE Right(t, x) == SumFunctionOnSet(f, t) = f[x] + SumFunctionOnSet(f, t \ {x})
           T == {n \in Nat : \E t : t \subseteq S /\ n = Cardinality(t) /\ \E x \in t : ~Right(t, x)}
<1>1. \A t : t \subseteq S => IsFiniteSet(t) /\ Cardinality(t) \in Nat
  BY FS_Subset, FS_CardinalityType
<1>2. T = {}
  <2> SUFFICES ASSUME T # {} PROVE FALSE
    OBVIOUS
  <2>1. PICK n \in T : \A m \in T : n <= m
    <3>1. T \subseteq Nat
      OBVIOUS
    <3> HIDE DEF T
    <3> QED
      BY <3>1, LeastNatural
  <2>2. PICK t : t \subseteq S /\ n = Cardinality(t) /\ \E x \in t : ~Right(t, x)
    BY <2>1
  <2>3. PICK x \in t : ~Right(t, x)
    BY <2>2
  <2> DEFINE c == Chosen(t)
  <2>4. c \in t
    BY <2>3, ChosenIsIn
  <2>5. SumFunctionOnSet(f, t) = f[c] + SumFunctionOnSet(f, t \ {c})
    BY <1>1, <2>2, <2>3, SumChosen
  <2> HIDE DEF c
  <2>6. c # x
    BY <2>3, <2>5
  <2>7. \A z \in t : /\ Cardinality(t \ {z}) = n - 1 /\ Cardinality(t \ {z}) \in Nat /\ t \ {z} \subseteq S
                     /\ Cardinality(t \ {z}) \notin T
    <3> SUFFICES ASSUME NEW z \in t
                 PROVE /\ Cardinality(t \ {z}) = n - 1 /\ Cardinality(t \ {z}) \in Nat /\ t \ {z} \subseteq S
                       /\ Cardinality(t \ {z}) \notin T
      OBVIOUS
    <3>1. Cardinality(t \ {z}) = n - 1 /\ Cardinality(t \ {z}) \in Nat /\ t \ {z} \subseteq S
      BY <1>1, <2>2, FS_RemoveElement
    <3>2. n \in Nat
      BY <2>1
    <3>3. n - 1 \notin T
      BY <2>1, <3>2
    <3> QED
      BY <3>1, <3>3
  <2>8. \A z \in t : \A v \in t \ {z} : Right(t \ {z}, v)
    BY <2>7
  <2>9. /\ SumFunctionOnSet(f, t \ {c}) = f[x] + SumFunctionOnSet(f, (t \ {c}) \ {x})
        /\ SumFunctionOnSet(f, t \ {x}) = f[c] + SumFunctionOnSet(f, (t \ {x}) \ {c})
    BY <2>4, <2>6, <2>8
  <2>10. (t \ {c}) \ {x} = (t \ {x}) \ {c}
    OBVIOUS
  <2>11. SumFunctionOnSet(f, (t \ {x}) \ {c}) \in Int /\ f[x] \in Int /\ f[c] \in Int
    <3>1. (t \ {x}) \ {c} \subseteq S
      BY <2>2
    <3> QED
      BY <1>1, <2>2, <2>4, <3>1, SumType
  <2>12. Right(t, x)
    BY <2>5, <2>9, <2>10, <2>11
  <2> QED
    BY <2>3, <2>12
<1>3. S \subseteq S /\ Right(S, y)
  BY <1>1, <1>2
<1> QED
  BY <1>3

\* One row changes, and may come into the sum or leave it.
LEMMA SumMoves ==
  ASSUME NEW Rows, IsFiniteSet(Rows), NEW f \in [Rows -> Int], NEW g \in [Rows -> Int],
         NEW S \in SUBSET Rows, NEW T \in SUBSET Rows, NEW y \in Rows,
         S \ {y} = T \ {y}, \A x \in Rows \ {y} : f[x] = g[x]
  PROVE /\ SumFunctionOnSet(f, S) \in Int
        /\ SumFunctionOnSet(g, T) = SumFunctionOnSet(f, S) - (IF y \in S THEN f[y] ELSE 0)
                                                           + (IF y \in T THEN g[y] ELSE 0)
<1>1. IsFiniteSet(S) /\ IsFiniteSet(T) /\ IsFiniteSet(S \ {y})
  <2>1. S \ {y} \in SUBSET Rows
    OBVIOUS
  <2> QED
    BY <2>1, FS_Subset
<1>2. SumFunctionOnSet(f, S \ {y}) = SumFunctionOnSet(g, S \ {y}) /\ SumFunctionOnSet(f, S \ {y}) \in Int
  BY <1>1, SumAgrees, SumType
<1>3. SumFunctionOnSet(f, S) = (IF y \in S THEN f[y] ELSE 0) + SumFunctionOnSet(f, S \ {y})
  <2>1. CASE y \in S
    BY <1>1, <2>1, SumWithout
  <2>2. CASE y \notin S
    <3>1. SumFunctionOnSet(f, S \ {y}) = SumFunctionOnSet(f, S)
      <4>1. S \ {y} = S
        BY <2>2
      <4> QED
        BY <4>1, Zenon
    <3> QED
      BY <1>2, <2>2, <3>1
  <2> QED
    BY <2>1, <2>2
<1>4. SumFunctionOnSet(g, T) = (IF y \in T THEN g[y] ELSE 0) + SumFunctionOnSet(g, S \ {y})
  <2>1. CASE y \in T
    BY <1>1, <2>1, SumWithout
  <2>2. CASE y \notin T
    <3>1. S \ {y} = T
      BY <2>2
    <3> QED
      BY <1>2, <2>2, <3>1
  <2> QED
    BY <2>1, <2>2
<1>5. f[y] \in Int /\ g[y] \in Int
  OBVIOUS
<1> QED
  BY <1>2, <1>3, <1>4, <1>5

\* A part of a set of rows adds up to no more than all of it.
LEMMA SumGrows ==
  ASSUME NEW f, NEW S, IsFiniteSet(S), \A x \in S : f[x] \in Int /\ f[x] >= 0, NEW s, s \subseteq S
  PROVE SumFunctionOnSet(f, s) <= SumFunctionOnSet(f, S)
<1> DEFINE Wrong(t) == s \subseteq t /\ t \subseteq S /\ ~(SumFunctionOnSet(f, s) <= SumFunctionOnSet(f, t))
           T == {n \in Nat : \E t : Wrong(t) /\ n = Cardinality(t)}
<1>1. \A t : t \subseteq S => IsFiniteSet(t) /\ Cardinality(t) \in Nat
  BY FS_Subset, FS_CardinalityType
<1>2. \A t : t \subseteq S => SumFunctionOnSet(f, t) \in Int
  BY <1>1, SumType
<1>3. T = {}
  <2> SUFFICES ASSUME T # {} PROVE FALSE
    OBVIOUS
  <2>1. PICK n \in T : \A m \in T : n <= m
    <3>1. T \subseteq Nat
      OBVIOUS
    <3> HIDE DEF T
    <3> QED
      BY <3>1, LeastNatural
  <2>2. PICK t : Wrong(t) /\ n = Cardinality(t)
    BY <2>1
  <2>3. t # s
    BY <1>2, <2>2
  <2>4. PICK y \in t : y \notin s
    BY <2>2, <2>3
  <2> DEFINE rest == t \ {y}
  <2>5. Cardinality(rest) = n - 1 /\ Cardinality(rest) \in Nat /\ rest \subseteq S /\ s \subseteq rest
    BY <1>1, <2>2, <2>4, FS_RemoveElement
  <2>6. SumFunctionOnSet(f, s) <= SumFunctionOnSet(f, rest)
    <3>1. n - 1 \notin T
      BY <2>1, <2>5
    <3> QED
      BY <2>5, <3>1
  <2>7. SumFunctionOnSet(f, t) = f[y] + SumFunctionOnSet(f, rest)
    BY <1>1, <2>2, <2>4, SumWithout
  <2>8. f[y] \in Int /\ f[y] >= 0
    BY <2>2, <2>4
  <2>9. SumFunctionOnSet(f, s) \in Int /\ SumFunctionOnSet(f, rest) \in Int
    BY <1>2, <2>2, <2>5
  <2> HIDE DEF rest
  <2> QED
    BY <2>2, <2>6, <2>7, <2>8, <2>9
<1> QED
  BY <1>1, <1>3

-----------------------------------------------------------------------------
(* What the proofs need beside the properties.                             *)

\* A refund being settled is PENDING still, and Stripe has made it.
SettlesWhatIsPending ==
    \A r \in Refunds : settling[r].open => refund[r].status = "PENDING" /\ asked[r] = "succeeded"

ReversedInFull == earning.status = "REVERSED" => earning.reversed = ServiceFee

IInv ==
    /\ TypeOK
    /\ NeverOverRefunded
    /\ LawyerGivesBackTheirPart
    /\ DisputedIsHeld
    /\ SettlesWhatIsPending
    /\ ReversedInFull

Refund == [status : RefundStatuses, amount : 0..Amount, service : 0..ServiceFee]
Earning == [status : {"PENDING", "AVAILABLE", "REVERSED"}, reversed : 0..ServiceFee, disputed : BOOLEAN]
Payment == [status : Paid, refunded : Nat]

AmountIn(statuses) == AmountOf({r \in Refunds : refund[r].status \in statuses})
ServiceIn(statuses) == ServiceOf({r \in Refunds : refund[r].status \in statuses})

HeldStatuses == {"PENDING", "SUCCEEDED"}
DoneStatuses == {"SUCCEEDED"}

RefundsTyped == refund \in [Refunds -> Refund]

LEMMA RefundFields ==
  ASSUME NEW row \in Refund
  PROVE row.status \in RefundStatuses /\ row.amount \in 0..Amount /\ row.service \in 0..ServiceFee
BY DEF Refund

\* A row with some of its fields written.
LEMMA RowWritten ==
  ASSUME RefundsTyped, NEW r \in Refunds, NEW status, NEW amount, NEW service
  PROVE /\ [refund EXCEPT ![r].status = status]
             = [refund EXCEPT ![r] = [status |-> status, amount |-> refund[r].amount, service |-> refund[r].service]]
        /\ [refund EXCEPT ![r].status = status, ![r].amount = amount]
             = [refund EXCEPT ![r] = [status |-> status, amount |-> amount, service |-> refund[r].service]]
        /\ [refund EXCEPT ![r].status = status, ![r].service = service]
             = [refund EXCEPT ![r] = [status |-> status, amount |-> refund[r].amount, service |-> service]]
<1> DEFINE row == refund[r]
<1>1. row \in Refund /\ refund \in [Refunds -> Refund]
  BY DEF RefundsTyped
<1>2. /\ [row EXCEPT !.status = status] = [status |-> status, amount |-> row.amount, service |-> row.service]
      /\ [row EXCEPT !.status = status, !.amount = amount]
           = [status |-> status, amount |-> amount, service |-> row.service]
      /\ [row EXCEPT !.status = status, !.service = service]
           = [status |-> status, amount |-> row.amount, service |-> service]
  <2> HIDE DEF row
  <2>1. [row EXCEPT !.status = status] = [status |-> status, amount |-> row.amount, service |-> row.service]
    BY <1>1 DEF Refund
  <2>2. [row EXCEPT !.status = status, !.amount = amount]
          = [status |-> status, amount |-> amount, service |-> row.service]
    <3> DEFINE mid == [status |-> status, amount |-> row.amount, service |-> row.service]
    <3>1. [row EXCEPT !.status = status, !.amount = amount] = [[row EXCEPT !.status = status] EXCEPT !.amount = amount]
      OBVIOUS
    <3>2. [mid EXCEPT !.amount = amount] = [status |-> status, amount |-> amount, service |-> row.service]
      OBVIOUS
    <3> QED
      BY <2>1, <3>1, <3>2
  <2>3. [row EXCEPT !.status = status, !.service = service]
          = [status |-> status, amount |-> row.amount, service |-> service]
    <3> DEFINE mid == [status |-> status, amount |-> row.amount, service |-> row.service]
    <3>1. [row EXCEPT !.status = status, !.service = service] = [[row EXCEPT !.status = status] EXCEPT !.service = service]
      OBVIOUS
    <3>2. [mid EXCEPT !.service = service] = [status |-> status, amount |-> row.amount, service |-> service]
      OBVIOUS
    <3> QED
      BY <2>1, <3>1, <3>2
  <2> QED
    BY <2>1, <2>2, <2>3
<1>3. /\ [refund EXCEPT ![r].status = status] = [refund EXCEPT ![r] = [refund[r] EXCEPT !.status = status]]
      /\ [refund EXCEPT ![r].status = status, ![r].amount = amount]
           = [refund EXCEPT ![r] = [refund[r] EXCEPT !.status = status, !.amount = amount]]
      /\ [refund EXCEPT ![r].status = status, ![r].service = service]
           = [refund EXCEPT ![r] = [refund[r] EXCEPT !.status = status, !.service = service]]
  BY <1>1
<1> QED
  BY <1>1, <1>2, <1>3

\* The two money properties in terms of these sums.
LEMMA MoneyAsSums ==
  /\ NeverOverRefunded <=> AmountIn(HeldStatuses) <= Amount /\ ServiceIn(HeldStatuses) <= ServiceFee
  /\ LawyerGivesBackTheirPart <=> \/ earning.reversed = ServiceIn(DoneStatuses)
                                  \/ LostAndReversed /\ earning.reversed = ServiceFee
  /\ Left = Amount - AmountIn(HeldStatuses)
  /\ ServiceLeft = ServiceFee - ServiceIn(HeldStatuses)
<1>1. {r \in Refunds : refund[r].status = "SUCCEEDED"} = {r \in Refunds : refund[r].status \in DoneStatuses}
  BY DEF DoneStatuses
<1>2. ServiceOf({r \in Refunds : refund[r].status = "SUCCEEDED"}) = ServiceIn(DoneStatuses)
  BY <1>1, Zenon DEF ServiceIn
<1> QED
  BY <1>2 DEF NeverOverRefunded, LawyerGivesBackTheirPart, Left, ServiceLeft, Held, HeldStatuses, AmountIn, ServiceIn

LEMMA MoneyAsSumsNext ==
  /\ NeverOverRefunded' <=> AmountIn(HeldStatuses)' <= Amount /\ ServiceIn(HeldStatuses)' <= ServiceFee
  /\ LawyerGivesBackTheirPart' <=> \/ earning'.reversed = ServiceIn(DoneStatuses)'
                                   \/ LostAndReversed' /\ earning'.reversed = ServiceFee
<1>1. {r \in Refunds : refund'[r].status = "SUCCEEDED"} = {r \in Refunds : refund'[r].status \in DoneStatuses}
  BY DEF DoneStatuses
<1>2. ServiceOf({r \in Refunds : refund[r].status = "SUCCEEDED"})' = ServiceIn(DoneStatuses)'
  BY <1>1, Zenon DEF ServiceIn, ServiceOf
<1> QED
  BY <1>2 DEF NeverOverRefunded, LawyerGivesBackTheirPart, HeldStatuses, AmountIn, ServiceIn

LEMMA SumsAreNat ==
  ASSUME RefundsTyped, NEW statuses
  PROVE AmountIn(statuses) \in Nat /\ ServiceIn(statuses) \in Nat
<1> DEFINE f == [r \in Refunds |-> refund[r].amount]
           g == [r \in Refunds |-> refund[r].service]
           S == {r \in Refunds : refund[r].status \in statuses}
<1>1. IsFiniteSet(S)
  BY RefundAssumption, FS_Subset
<1>2. \A r \in S : f[r] \in Int /\ f[r] >= 0 /\ g[r] \in Int /\ g[r] >= 0
  BY RefundFields, RefundAssumption DEF RefundsTyped
<1>3. AmountIn(statuses) = SumFunctionOnSet(f, S) /\ ServiceIn(statuses) = SumFunctionOnSet(g, S)
  BY DEF AmountIn, ServiceIn, AmountOf, ServiceOf
<1> HIDE DEF f, g, S
<1>4. SumFunctionOnSet(f, S) \in Int /\ SumFunctionOnSet(f, S) >= 0
  BY <1>1, <1>2, SumType
<1>5. SumFunctionOnSet(g, S) \in Int /\ SumFunctionOnSet(g, S) >= 0
  BY <1>1, <1>2, SumType
<1> QED
  BY <1>3, <1>4, <1>5

LEMMA SumsStay ==
  ASSUME UNCHANGED refund, NEW statuses
  PROVE AmountIn(statuses)' = AmountIn(statuses) /\ ServiceIn(statuses)' = ServiceIn(statuses)
BY DEF AmountIn, ServiceIn, AmountOf, ServiceOf

\* What is settled and one refund on its way fit in what is held.
LEMMA RoomForOneMore ==
  ASSUME RefundsTyped, NEW r \in Refunds, refund[r].status = "PENDING"
  PROVE ServiceIn(DoneStatuses) + refund[r].service <= ServiceIn(HeldStatuses)
<1> DEFINE g == [x \in Refunds |-> refund[x].service]
           held == {x \in Refunds : refund[x].status \in HeldStatuses}
           done == {x \in Refunds : refund[x].status \in DoneStatuses}
<1>1. IsFiniteSet(held) /\ IsFiniteSet(held \ {r})
  BY RefundAssumption, FS_Subset
<1>2. \A x \in held : g[x] \in Int /\ g[x] >= 0
  BY RefundFields, RefundAssumption DEF RefundsTyped
<1>3. r \in held /\ done \subseteq held \ {r} /\ held \ {r} \subseteq held /\ g[r] = refund[r].service
  BY DEF HeldStatuses, DoneStatuses
<1>4. ServiceIn(HeldStatuses) = SumFunctionOnSet(g, held) /\ ServiceIn(DoneStatuses) = SumFunctionOnSet(g, done)
  BY DEF ServiceIn, ServiceOf
<1>5. ServiceIn(DoneStatuses) \in Nat
  BY SumsAreNat
<1> HIDE DEF g, held, done
<1>6. SumFunctionOnSet(g, held) = g[r] + SumFunctionOnSet(g, held \ {r})
  BY <1>1, <1>2, <1>3, SumWithout
<1>7. SumFunctionOnSet(g, done) <= SumFunctionOnSet(g, held \ {r})
  <2>1. \A x \in held \ {r} : g[x] \in Int /\ g[x] >= 0
    BY <1>2
  <2> QED
    BY <1>1, <1>3, <2>1, SumGrows
<1>8. SumFunctionOnSet(g, held \ {r}) \in Int /\ g[r] \in Int
  <2>1. \A x \in held \ {r} : g[x] \in Int
    BY <1>2
  <2> QED
    BY <1>1, <1>2, <1>3, <2>1, SumType
<1> QED
  BY <1>3, <1>4, <1>5, <1>6, <1>7, <1>8

\* One refund changes.
LEMMA RefundMoves ==
  ASSUME RefundsTyped, NEW r \in Refunds, NEW row \in Refund, refund' = [refund EXCEPT ![r] = row], NEW statuses
  PROVE /\ AmountIn(statuses)' = AmountIn(statuses) - (IF refund[r].status \in statuses THEN refund[r].amount ELSE 0)
                                                    + (IF row.status \in statuses THEN row.amount ELSE 0)
        /\ ServiceIn(statuses)' = ServiceIn(statuses) - (IF refund[r].status \in statuses THEN refund[r].service ELSE 0)
                                                      + (IF row.status \in statuses THEN row.service ELSE 0)
<1> DEFINE fa == [x \in Refunds |-> refund[x].amount]
           ga == [x \in Refunds |-> refund'[x].amount]
           fs == [x \in Refunds |-> refund[x].service]
           gs == [x \in Refunds |-> refund'[x].service]
           S == {x \in Refunds : refund[x].status \in statuses}
           T == {x \in Refunds : refund'[x].status \in statuses}
<1>1. refund' \in [Refunds -> Refund] /\ refund'[r] = row /\ \A x \in Refunds \ {r} : refund'[x] = refund[x]
  BY DEF RefundsTyped
<1>2. \A x \in Refunds : /\ refund[x].amount \in Int /\ refund[x].service \in Int
                         /\ refund'[x].amount \in Int /\ refund'[x].service \in Int
  BY <1>1, RefundFields, RefundAssumption DEF RefundsTyped
<1>3. fa \in [Refunds -> Int] /\ ga \in [Refunds -> Int] /\ fs \in [Refunds -> Int] /\ gs \in [Refunds -> Int]
  BY <1>2
<1>4. \A x \in Refunds \ {r} : fa[x] = ga[x] /\ fs[x] = gs[x]
  BY <1>1
<1>5. S \in SUBSET Refunds /\ T \in SUBSET Refunds /\ S \ {r} = T \ {r}
  BY <1>1
<1>6. /\ AmountIn(statuses) = SumFunctionOnSet(fa, S) /\ AmountIn(statuses)' = SumFunctionOnSet(ga, T)
      /\ ServiceIn(statuses) = SumFunctionOnSet(fs, S) /\ ServiceIn(statuses)' = SumFunctionOnSet(gs, T)
  BY DEF AmountIn, ServiceIn, AmountOf, ServiceOf
<1>7. /\ fa[r] = refund[r].amount /\ ga[r] = row.amount /\ fs[r] = refund[r].service /\ gs[r] = row.service
      /\ r \in S <=> refund[r].status \in statuses
      /\ r \in T <=> row.status \in statuses
  BY <1>1
<1> HIDE DEF fa, ga, fs, gs, S, T
<1>8. \A x \in Refunds \ {r} : fa[x] = ga[x]
  BY <1>4
<1>9. \A x \in Refunds \ {r} : fs[x] = gs[x]
  BY <1>4
<1>10. SumFunctionOnSet(ga, T) = SumFunctionOnSet(fa, S) - (IF r \in S THEN fa[r] ELSE 0) + (IF r \in T THEN ga[r] ELSE 0)
  BY <1>3, <1>5, <1>8, RefundAssumption, SumMoves
<1>11. SumFunctionOnSet(gs, T) = SumFunctionOnSet(fs, S) - (IF r \in S THEN fs[r] ELSE 0) + (IF r \in T THEN gs[r] ELSE 0)
  BY <1>3, <1>5, <1>9, RefundAssumption, SumMoves
<1> QED
  BY <1>6, <1>7, <1>10, <1>11

-----------------------------------------------------------------------------
(* What the steps do to the earning.                                       *)

LEMMA MinOfTwo == ASSUME NEW a \in Int, NEW b \in Int PROVE Min({a, b}) = IF a <= b THEN a ELSE b
BY DEF Min

\* A reversal takes what is asked, or all that is left.
LEMMA ReversedIs ==
  ASSUME earning \in Earning, ReversedInFull, NEW amount \in Nat
  PROVE /\ Reversed(amount) \in Earning
        /\ Reversed(amount).disputed = earning.disputed
        /\ Reversed(amount).reversed = IF amount <= ServiceFee - earning.reversed
                                         THEN earning.reversed + amount ELSE ServiceFee
        /\ Reversed(amount).status = "REVERSED" => Reversed(amount).reversed = ServiceFee
<1> DEFINE left == ServiceFee - earning.reversed
           taken == Min({amount, left})
<1>1. /\ ServiceFee \in Nat /\ earning.reversed \in Nat /\ earning.reversed <= ServiceFee
      /\ earning.status \in {"PENDING", "AVAILABLE", "REVERSED"} /\ earning.disputed \in BOOLEAN
  BY RefundAssumption DEF Earning
<1>2. left \in Nat
  BY <1>1
<1>3. taken = IF amount <= left THEN amount ELSE left
  BY <1>2, MinOfTwo
<1>4. taken \in Nat /\ taken <= left
  BY <1>2, <1>3
<1>5. CASE earning.status = "REVERSED"
  <2>1. Reversed(amount) = earning
    BY <1>5 DEF Reversed
  <2>2. earning.reversed = ServiceFee
    BY <1>5 DEF ReversedInFull
  <2> QED
    BY <1>1, <2>1, <2>2
<1>6. CASE earning.status # "REVERSED"
  <2> DEFINE total == earning.reversed + taken
             ends == IF total >= ServiceFee THEN "REVERSED" ELSE earning.status
  <2>1. Reversed(amount) = [earning EXCEPT !.reversed = total, !.status = ends]
    BY <1>6 DEF Reversed
  <2>2. total \in Nat /\ total <= ServiceFee /\ total \in 0..ServiceFee
    BY <1>1, <1>2, <1>4
  <2>3. ends \in {"PENDING", "AVAILABLE", "REVERSED"} /\ (ends = "REVERSED" => total = ServiceFee)
    BY <1>1, <1>6, <2>2
  <2>4. total = IF amount <= ServiceFee - earning.reversed THEN earning.reversed + amount ELSE ServiceFee
    BY <1>1, <1>2, <1>3
  <2> HIDE DEF total, ends
  <2>5. Reversed(amount) = [status |-> ends, reversed |-> total, disputed |-> earning.disputed]
    BY <2>1 DEF Earning
  <2> QED
    BY <1>1, <2>2, <2>3, <2>4, <2>5 DEF Earning
<1> QED
  BY <1>5, <1>6

\* A step that leaves the refunds and the earning alone, and does not undo a lost dispute.
LEMMA MoneyStays ==
  ASSUME IInv, UNCHANGED <<refund, earning>>, LostAndReversed => LostAndReversed'
  PROVE NeverOverRefunded' /\ LawyerGivesBackTheirPart' /\ ReversedInFull'
<1>1. NeverOverRefunded'
  BY DEF IInv, NeverOverRefunded, AmountOf, ServiceOf
<1>2. LawyerGivesBackTheirPart'
  BY DEF IInv, LawyerGivesBackTheirPart, ServiceOf
<1> QED
  BY <1>1, <1>2 DEF IInv, ReversedInFull

\* A step that changes one refund, on its way from one status that is not settled to another.
LEMMA MoneyOfOthers ==
  ASSUME IInv, UNCHANGED <<earning, dispute, event>>,
         NEW r \in Refunds, NEW row \in Refund, refund' = [refund EXCEPT ![r] = row],
         refund[r].status # "SUCCEEDED", row.status # "SUCCEEDED"
  PROVE LawyerGivesBackTheirPart' /\ ReversedInFull'
<1>1. RefundsTyped
  BY DEF IInv, TypeOK, RefundsTyped, Refund
<1>2. ServiceIn(DoneStatuses)' = ServiceIn(DoneStatuses)
  <2>1. ServiceIn(DoneStatuses) \in Nat
    BY <1>1, SumsAreNat
  <2>2. refund[r].status \notin DoneStatuses /\ row.status \notin DoneStatuses
    BY DEF DoneStatuses
  <2>3. ServiceIn(DoneStatuses)' = ServiceIn(DoneStatuses) - (IF refund[r].status \in DoneStatuses THEN refund[r].service ELSE 0)
                                                      + (IF row.status \in DoneStatuses THEN row.service ELSE 0)
    BY <1>1, RefundMoves
  <2> QED
    BY <2>1, <2>2, <2>3
<1>3. LawyerGivesBackTheirPart' <=> \/ earning'.reversed = ServiceIn(DoneStatuses)'
                                    \/ LostAndReversed' /\ earning'.reversed = ServiceFee
  BY MoneyAsSumsNext
<1> QED
  BY <1>2, <1>3, MoneyAsSums DEF IInv, LostAndReversed, ReversedInFull

-----------------------------------------------------------------------------
(* One lemma per action.                                                   *)

LEMMA TypedParts ==
  ASSUME TypeOK
  PROVE /\ payment \in Payment /\ payment.status \in Paid /\ payment.refunded \in Nat
        /\ RefundsTyped /\ earning \in Earning
        /\ \A r \in Refunds : settling[r] \in Reading /\ settling[r].refunded \in Nat
        /\ closing.refunded \in Nat
BY DEF TypeOK, Payment, RefundsTyped, Refund, Earning, Reading

LEMMA CheckKeeps == ASSUME IInv, NEW r \in Refunds, NEW amount \in 1..Amount, Check(r, amount) PROVE IInv'
<1> DEFINE row == [status |-> "checked", amount |-> amount, service |-> refund[r].service]
<1>1. RefundsTyped /\ refund[r].status = "NONE" /\ refund[r].service \in 0..ServiceFee
  BY TypedParts, RefundFields DEF IInv, RefundsTyped, Check
<1>2. refund' = [refund EXCEPT ![r] = row]
  <2>1. [refund EXCEPT ![r].status = "checked", ![r].amount = amount] = [refund EXCEPT ![r] = row]
    BY <1>1, RowWritten
  <2> QED
    BY <2>1 DEF Check
<1>3. row \in Refund
  BY <1>1, RefundAssumption DEF Refund, RefundStatuses
<1>4. row.status = "checked" /\ row.amount = amount
  OBVIOUS
<1> HIDE DEF row
<1>5. TypeOK' /\ SettlesWhatIsPending' /\ DisputedIsHeld'
  <2>1. (refund \in [Refunds -> Refund])'
    BY <1>1, <1>2, <1>3 DEF RefundsTyped
  <2>2. TypeOK'
    BY <2>1 DEF IInv, Check, TypeOK, disputeVars, Refund
  <2>3. SettlesWhatIsPending'
    BY <1>1, <1>2 DEF IInv, Check, SettlesWhatIsPending, RefundsTyped
  <2> QED
    BY <2>2, <2>3 DEF IInv, Check, DisputedIsHeld
<1>6. LawyerGivesBackTheirPart' /\ ReversedInFull'
  BY <1>1, <1>2, <1>3, <1>4, MoneyOfOthers DEF Check, disputeVars
<1>7. NeverOverRefunded'
  <2>1. refund[r].status \notin HeldStatuses /\ row.status \notin HeldStatuses
    BY <1>1, <1>4 DEF HeldStatuses
  <2>2. AmountIn(HeldStatuses) \in Nat /\ ServiceIn(HeldStatuses) \in Nat
    BY <1>1, SumsAreNat
  <2>3. /\ AmountIn(HeldStatuses)' = AmountIn(HeldStatuses) - (IF refund[r].status \in HeldStatuses THEN refund[r].amount ELSE 0)
                                  + (IF row.status \in HeldStatuses THEN row.amount ELSE 0)
        /\ ServiceIn(HeldStatuses)' = ServiceIn(HeldStatuses) - (IF refund[r].status \in HeldStatuses THEN refund[r].service ELSE 0)
                                  + (IF row.status \in HeldStatuses THEN row.service ELSE 0)
    BY <1>1, <1>2, <1>3, RefundMoves
  <2>4. AmountIn(HeldStatuses)' = AmountIn(HeldStatuses) /\ ServiceIn(HeldStatuses)' = ServiceIn(HeldStatuses)
    BY <2>1, <2>2, <2>3
  <2> QED
    BY <2>4, MoneyAsSums, MoneyAsSumsNext DEF IInv
<1> QED
  BY <1>5, <1>6, <1>7 DEF IInv

\* The split: what comes of a part taken with the row locked still fits.
LEMMA SplitFits ==
  ASSUME IInv, NEW amount \in 0..Amount, MayRefund(amount)
  PROVE /\ ServicePart(amount) \in 0..ServiceFee
        /\ AmountIn(HeldStatuses) + amount <= Amount
        /\ ServiceIn(HeldStatuses) + ServicePart(amount) <= ServiceFee
<1>1. AmountIn(HeldStatuses) \in Nat /\ ServiceIn(HeldStatuses) \in Nat
  BY TypedParts, SumsAreNat DEF IInv
<1>2. /\ AmountIn(HeldStatuses) <= Amount /\ ServiceIn(HeldStatuses) <= ServiceFee
      /\ Left = Amount - AmountIn(HeldStatuses) /\ ServiceLeft = ServiceFee - ServiceIn(HeldStatuses)
  BY MoneyAsSums DEF IInv
<1>3. Amount \in Nat /\ ServiceFee \in Nat
  BY RefundAssumption
<1> QED
  BY <1>1, <1>2, <1>3 DEF MayRefund, ServicePart

LEMMA CreateRefundKeeps == ASSUME IInv, NEW r \in Refunds, CreateRefund(r) PROVE IInv'
<1> DEFINE amount == refund[r].amount
           given == MayRefund(amount)
           row == IF given THEN [status |-> "PENDING", amount |-> amount, service |-> ServicePart(amount)]
                           ELSE [status |-> "NONE", amount |-> amount, service |-> refund[r].service]
<1>1. /\ RefundsTyped /\ refund[r].status = "checked"
      /\ refund[r].service \in 0..ServiceFee /\ amount \in 0..Amount
  BY TypedParts, RefundFields DEF IInv, RefundsTyped, CreateRefund
<1>2. refund' = [refund EXCEPT ![r] = row]
  <2>1. CASE given
    <3>1. [refund EXCEPT ![r].status = "PENDING", ![r].service = ServicePart(amount)]
            = [refund EXCEPT ![r] = [status |-> "PENDING", amount |-> amount, service |-> ServicePart(amount)]]
      BY <1>1, RowWritten
    <3> QED
      BY <2>1, <3>1 DEF CreateRefund
  <2>2. CASE ~given
    <3>1. [refund EXCEPT ![r].status = "NONE"]
            = [refund EXCEPT ![r] = [status |-> "NONE", amount |-> amount, service |-> refund[r].service]]
      BY <1>1, RowWritten
    <3> QED
      BY <2>2, <3>1 DEF CreateRefund
  <2> QED
    BY <2>1, <2>2
<1>3. given => /\ ServicePart(amount) \in 0..ServiceFee
               /\ AmountIn(HeldStatuses) + amount <= Amount
               /\ ServiceIn(HeldStatuses) + ServicePart(amount) <= ServiceFee
  BY <1>1, SplitFits
<1>4. row \in Refund
  BY <1>1, <1>3 DEF Refund, RefundStatuses
<1>5. /\ row.status \in {"PENDING", "NONE"}
      /\ row.status = "PENDING" => given /\ row.amount = amount /\ row.service = ServicePart(amount)
  OBVIOUS
<1> HIDE DEF row, given
<1>6. TypeOK' /\ SettlesWhatIsPending' /\ DisputedIsHeld'
  <2>1. (refund \in [Refunds -> Refund])'
    BY <1>1, <1>2, <1>4 DEF RefundsTyped
  <2>2. TypeOK'
    BY <2>1 DEF IInv, CreateRefund, TypeOK, disputeVars, Refund
  <2>3. SettlesWhatIsPending'
    BY <1>1, <1>2 DEF IInv, CreateRefund, SettlesWhatIsPending, RefundsTyped
  <2> QED
    BY <2>2, <2>3 DEF IInv, CreateRefund, DisputedIsHeld
<1>7. LawyerGivesBackTheirPart' /\ ReversedInFull'
  BY <1>1, <1>2, <1>4, <1>5, MoneyOfOthers DEF CreateRefund, disputeVars
<1>8. NeverOverRefunded'
  <2>1. AmountIn(HeldStatuses) \in Nat /\ ServiceIn(HeldStatuses) \in Nat
    BY <1>1, SumsAreNat
  <2>2. AmountIn(HeldStatuses) <= Amount /\ ServiceIn(HeldStatuses) <= ServiceFee
    BY MoneyAsSums DEF IInv
  <2>3. /\ AmountIn(HeldStatuses)' = AmountIn(HeldStatuses) - (IF refund[r].status \in HeldStatuses THEN refund[r].amount ELSE 0)
                                                      + (IF row.status \in HeldStatuses THEN row.amount ELSE 0)
        /\ ServiceIn(HeldStatuses)' = ServiceIn(HeldStatuses) - (IF refund[r].status \in HeldStatuses THEN refund[r].service ELSE 0)
                                                      + (IF row.status \in HeldStatuses THEN row.service ELSE 0)
    BY <1>1, <1>2, <1>4, RefundMoves
  <2>4. refund[r].status \notin HeldStatuses /\ (row.status \in HeldStatuses <=> row.status = "PENDING")
    BY <1>1, <1>5 DEF HeldStatuses
  <2>5. AmountIn(HeldStatuses)' <= Amount /\ ServiceIn(HeldStatuses)' <= ServiceFee
    <3>1. CASE row.status = "PENDING"
      BY <1>1, <1>3, <1>5, <2>1, <2>3, <2>4, <3>1
    <3>2. CASE row.status # "PENDING"
      BY <2>1, <2>2, <2>3, <2>4, <3>2
    <3> QED
      BY <3>1, <3>2
  <2> QED
    BY <2>5, MoneyAsSumsNext
<1> QED
  BY <1>6, <1>7, <1>8 DEF IInv

LEMMA SettleFailedKeeps == ASSUME IInv, NEW r \in Refunds, SettleFailed(r) PROVE IInv'
<1> DEFINE row == [status |-> "FAILED", amount |-> refund[r].amount, service |-> refund[r].service]
<1>1. /\ RefundsTyped /\ refund[r].status = "PENDING"
      /\ refund[r].amount \in 0..Amount /\ refund[r].service \in 0..ServiceFee
  BY TypedParts, RefundFields DEF IInv, RefundsTyped, SettleFailed
<1>2. refund' = [refund EXCEPT ![r] = row]
  BY <1>1, RowWritten DEF SettleFailed
<1>3. row \in Refund
  BY <1>1 DEF Refund, RefundStatuses
<1>4. row.status = "FAILED"
  OBVIOUS
<1> HIDE DEF row
<1>5. TypeOK' /\ SettlesWhatIsPending' /\ DisputedIsHeld'
  <2>1. (refund \in [Refunds -> Refund])'
    BY <1>1, <1>2, <1>3 DEF RefundsTyped
  <2>2. TypeOK'
    BY <2>1 DEF IInv, SettleFailed, TypeOK, disputeVars, Refund
  <2>3. SettlesWhatIsPending'
    BY <1>1, <1>2 DEF IInv, SettleFailed, SettlesWhatIsPending, RefundsTyped
  <2> QED
    BY <2>2, <2>3 DEF IInv, SettleFailed, DisputedIsHeld
<1>6. LawyerGivesBackTheirPart' /\ ReversedInFull'
  BY <1>1, <1>2, <1>3, <1>4, MoneyOfOthers DEF SettleFailed, disputeVars
<1>7. NeverOverRefunded'
  <2>1. refund[r].status \in HeldStatuses /\ row.status \notin HeldStatuses
    BY <1>1, <1>4 DEF HeldStatuses
  <2>2. /\ AmountIn(HeldStatuses) \in Nat /\ ServiceIn(HeldStatuses) \in Nat
        /\ AmountIn(HeldStatuses) <= Amount /\ ServiceIn(HeldStatuses) <= ServiceFee
    BY <1>1, SumsAreNat, MoneyAsSums DEF IInv
  <2>3. /\ AmountIn(HeldStatuses)' = AmountIn(HeldStatuses) - (IF refund[r].status \in HeldStatuses THEN refund[r].amount ELSE 0)
                                  + (IF row.status \in HeldStatuses THEN row.amount ELSE 0)
        /\ ServiceIn(HeldStatuses)' = ServiceIn(HeldStatuses) - (IF refund[r].status \in HeldStatuses THEN refund[r].service ELSE 0)
                                  + (IF row.status \in HeldStatuses THEN row.service ELSE 0)
    BY <1>1, <1>2, <1>3, RefundMoves
  <2>4. AmountIn(HeldStatuses)' <= Amount /\ ServiceIn(HeldStatuses)' <= ServiceFee
    BY <1>1, <2>1, <2>2, <2>3, RefundAssumption
  <2> QED
    BY <2>4, MoneyAsSumsNext
<1> QED
  BY <1>5, <1>6, <1>7 DEF IInv

\* Stripe ends a refund it had made, or answers the call.
LEMMA AskStripeKeeps == ASSUME IInv, NEW r \in Refunds, AskStripe(r) \/ StripeEnds(r) PROVE IInv'
<1>1. PICK to \in {"made", "succeeded", "failed"} : asked' = [asked EXCEPT ![r] = to]
  BY DEF AskStripe, StripeEnds
<1>2. asked[r] # "succeeded" /\ UNCHANGED <<rowVars, settling, disputeVars>>
  BY DEF AskStripe, StripeEnds
<1>3. TypeOK'
  BY <1>1, <1>2 DEF IInv, TypeOK, rowVars, disputeVars
<1>4. SettlesWhatIsPending'
  BY <1>1, <1>2 DEF IInv, TypeOK, SettlesWhatIsPending, rowVars
<1>5. NeverOverRefunded' /\ LawyerGivesBackTheirPart' /\ ReversedInFull'
  BY <1>2, MoneyStays DEF rowVars, disputeVars, LostAndReversed
<1> QED
  BY <1>2, <1>3, <1>4, <1>5 DEF IInv, DisputedIsHeld, rowVars

LEMMA SettleReadsKeeps == ASSUME IInv, NEW r \in Refunds, SettleReads(r) PROVE IInv'
<1>1. settling' = [settling EXCEPT ![r] = [open |-> TRUE, refunded |-> payment.refunded,
                                            disputed |-> payment.status = "DISPUTED"]]
  BY DEF SettleReads
<1>2. payment.refunded \in Nat
  BY TypedParts DEF IInv
<1>3. TypeOK'
  BY <1>1, <1>2 DEF IInv, SettleReads, TypeOK, rowVars, disputeVars, Reading
<1>4. SettlesWhatIsPending'
  BY <1>1 DEF IInv, TypeOK, SettleReads, SettlesWhatIsPending, rowVars
<1>5. NeverOverRefunded' /\ LawyerGivesBackTheirPart' /\ ReversedInFull'
  BY MoneyStays DEF SettleReads, rowVars, disputeVars, LostAndReversed
<1> QED
  BY <1>3, <1>4, <1>5 DEF IInv, DisputedIsHeld, SettleReads, rowVars

LEMMA SettleWritesKeeps == ASSUME IInv, NEW r \in Refunds, SettleWrites(r) PROVE IInv'
<1> DEFINE service == refund[r].service
           row == [status |-> "SUCCEEDED", amount |-> refund[r].amount, service |-> service]
           total == settling[r].refunded + refund[r].amount
<1>1. /\ RefundsTyped /\ refund[r].status = "PENDING"
      /\ refund[r].amount \in 0..Amount /\ service \in 0..ServiceFee
  BY TypedParts, RefundFields DEF IInv, RefundsTyped, SettleWrites, SettlesWhatIsPending
<1>2. refund' = [refund EXCEPT ![r] = row]
  BY <1>1, RowWritten DEF SettleWrites
<1>3. row \in Refund
  BY <1>1 DEF Refund, RefundStatuses
<1>4. row.status = "SUCCEEDED" /\ row.amount = refund[r].amount /\ row.service = service
  OBVIOUS
<1> HIDE DEF row
<1>5. earning \in Earning /\ service \in Nat
  BY <1>1, TypedParts, RefundAssumption DEF IInv
<1>6. earning' = IF service > 0 THEN Reversed(service) ELSE earning
  BY DEF SettleWrites, FromTheLawyer
<1> HIDE DEF service
<1>7. /\ earning' \in Earning /\ earning'.disputed = earning.disputed
      /\ earning'.status = "REVERSED" => earning'.reversed = ServiceFee
      /\ earning'.reversed = IF service <= ServiceFee - earning.reversed
                               THEN earning.reversed + service ELSE ServiceFee
  <2>1. /\ Reversed(service) \in Earning
        /\ Reversed(service).disputed = earning.disputed
        /\ Reversed(service).reversed = IF service <= ServiceFee - earning.reversed
                                         THEN earning.reversed + service ELSE ServiceFee
        /\ Reversed(service).status = "REVERSED" => Reversed(service).reversed = ServiceFee
    BY <1>5, ReversedIs DEF IInv
  <2>2. earning.reversed \in Nat /\ earning.reversed <= ServiceFee /\ ServiceFee \in Nat
    BY <1>5, RefundAssumption DEF Earning
  <2>3. CASE service > 0
    BY <1>6, <2>1, <2>3
  <2>4. CASE ~(service > 0)
    <3>1. service = 0 /\ earning' = earning
      BY <1>5, <1>6, <2>4
    <3> QED
      BY <1>5, <2>2, <3>1 DEF IInv, ReversedInFull
  <2> QED
    BY <2>3, <2>4
<1>8. TypeOK'
  <2>1. (refund \in [Refunds -> Refund])'
    BY <1>1, <1>2, <1>3 DEF RefundsTyped
  <2>2. payment' \in Payment
    <3>1. total \in Nat
      BY <1>1, TypedParts, RefundAssumption DEF IInv
    <3>2. payment.status \in Paid
      BY TypedParts DEF IInv
    <3> DEFINE status == IF settling[r].disputed THEN payment.status
                         ELSE IF total >= Amount THEN "REFUNDED" ELSE "PARTIALLY_REFUNDED"
    <3>3. status \in Paid
      BY <3>2 DEF Paid
    <3>4. payment' = [status |-> status, refunded |-> total]
      BY DEF SettleWrites
    <3> HIDE DEF status, total
    <3> QED
      BY <3>1, <3>3, <3>4 DEF Payment
  <2>3. (settling \in [Refunds -> Reading])'
    BY DEF IInv, TypeOK, SettleWrites, Nothing, Reading
  <2> QED
    BY <1>7, <2>1, <2>2, <2>3 DEF IInv, TypeOK, SettleWrites, disputeVars, Payment, Refund, Earning
<1>9. SettlesWhatIsPending'
  BY <1>1, <1>2 DEF IInv, TypeOK, SettleWrites, SettlesWhatIsPending, RefundsTyped, Nothing
<1>10. DisputedIsHeld'
  BY <1>7 DEF IInv, SettleWrites, DisputedIsHeld
<1>11. ReversedInFull'
  BY <1>7 DEF ReversedInFull
<1>12. NeverOverRefunded'
  <2>1. refund[r].status \in HeldStatuses /\ row.status \in HeldStatuses
    BY <1>1, <1>4 DEF HeldStatuses
  <2>2. AmountIn(HeldStatuses) \in Nat /\ ServiceIn(HeldStatuses) \in Nat
    BY <1>1, SumsAreNat
  <2>3. refund[r].amount \in Int /\ refund[r].service \in Int
    BY <1>1, RefundAssumption DEF service
  <2>4. /\ AmountIn(HeldStatuses)' = AmountIn(HeldStatuses) - (IF refund[r].status \in HeldStatuses THEN refund[r].amount ELSE 0)
                                  + (IF row.status \in HeldStatuses THEN row.amount ELSE 0)
        /\ ServiceIn(HeldStatuses)' = ServiceIn(HeldStatuses) - (IF refund[r].status \in HeldStatuses THEN refund[r].service ELSE 0)
                                  + (IF row.status \in HeldStatuses THEN row.service ELSE 0)
    BY <1>1, <1>2, <1>3, RefundMoves
  <2>5. AmountIn(HeldStatuses)' = AmountIn(HeldStatuses) /\ ServiceIn(HeldStatuses)' = ServiceIn(HeldStatuses)
    BY <1>4, <2>1, <2>2, <2>3, <2>4 DEF service
  <2> QED
    BY <2>5, MoneyAsSums, MoneyAsSumsNext DEF IInv
<1>13. LawyerGivesBackTheirPart'
  <2>1. refund[r].status \notin DoneStatuses /\ row.status \in DoneStatuses
    BY <1>1, <1>4 DEF DoneStatuses
  <2>2. ServiceIn(DoneStatuses) \in Nat /\ ServiceIn(HeldStatuses) \in Nat
    BY <1>1, SumsAreNat
  <2>3. ServiceIn(DoneStatuses)' = ServiceIn(DoneStatuses) + service
    <3>1. /\ AmountIn(DoneStatuses)' = AmountIn(DoneStatuses) - (IF refund[r].status \in DoneStatuses THEN refund[r].amount ELSE 0)
                                  + (IF row.status \in DoneStatuses THEN row.amount ELSE 0)
        /\ ServiceIn(DoneStatuses)' = ServiceIn(DoneStatuses) - (IF refund[r].status \in DoneStatuses THEN refund[r].service ELSE 0)
                                  + (IF row.status \in DoneStatuses THEN row.service ELSE 0)
      BY <1>1, <1>2, <1>3, RefundMoves
    <3> QED
      BY <1>4, <1>5, <2>1, <2>2, <3>1
  <2>4. ServiceIn(DoneStatuses) + service <= ServiceFee
    <3>1. ServiceIn(DoneStatuses) + service <= ServiceIn(HeldStatuses)
      BY <1>1, RoomForOneMore DEF service
    <3>2. ServiceIn(HeldStatuses) <= ServiceFee
      BY MoneyAsSums DEF IInv
    <3> QED
      BY <1>5, <2>2, <3>1, <3>2, RefundAssumption
  <2>5. \/ earning.reversed = ServiceIn(DoneStatuses)
        \/ LostAndReversed /\ earning.reversed = ServiceFee
    BY MoneyAsSums DEF IInv
  <2>6. earning.reversed \in Nat /\ ServiceFee \in Nat
    BY <1>5, RefundAssumption DEF Earning
  <2>7. LostAndReversed' <=> LostAndReversed
    BY DEF SettleWrites, disputeVars, LostAndReversed
  <2>8. \/ earning'.reversed = ServiceIn(DoneStatuses)'
        \/ LostAndReversed' /\ earning'.reversed = ServiceFee
    <3>1. CASE earning.reversed = ServiceIn(DoneStatuses)
      BY <1>5, <1>7, <2>2, <2>3, <2>4, <2>6, <3>1
    <3>2. CASE LostAndReversed /\ earning.reversed = ServiceFee
      <4>1. earning'.reversed = ServiceFee
        BY <1>5, <1>7, <2>6, <3>2
      <4> QED
        BY <2>7, <3>2, <4>1
    <3> QED
      BY <2>5, <3>1, <3>2
  <2> QED
    BY <2>8, MoneyAsSumsNext
<1> QED
  BY <1>8, <1>9, <1>10, <1>11, <1>12, <1>13 DEF IInv

\* The bank's own steps, and the reads and events that change no row.
LEMMA BankKeeps ==
  ASSUME IInv, BankDisputes \/ BankDecides \/ CloseNothing \/ CloseReads
  PROVE IInv'
<1>1. UNCHANGED <<payment, refund, earning, asked, settling>>
  BY DEF BankDisputes, BankDecides, CloseNothing, CloseReads, rowVars
<1>2. (LostAndReversed => LostAndReversed')
  BY DEF IInv, TypeOK, BankDisputes, BankDecides, CloseNothing, CloseReads, LostAndReversed, Record
<1>3. TypeOK'
  <2>1. (dispute \in {"none", "open", "won", "lost"})'
    BY DEF IInv, TypeOK, BankDisputes, BankDecides, CloseNothing, CloseReads
  <2>2. (event \in [{"created", "closed"} -> {"none", "sent", "recorded"}])'
    BY DEF IInv, TypeOK, BankDisputes, BankDecides, CloseNothing, CloseReads, Record
  <2>3. (closing \in Reading)'
    <3>1. closing \in Reading /\ [open |-> TRUE, refunded |-> payment.refunded, disputed |-> TRUE] \in Reading
      BY TypedParts DEF IInv, TypeOK, Reading
    <3>2. closing' \in {closing, [open |-> TRUE, refunded |-> payment.refunded, disputed |-> TRUE]}
      BY DEF BankDisputes, BankDecides, CloseNothing, CloseReads
    <3> QED
      BY <3>1, <3>2
  <2> QED
    BY <1>1, <2>1, <2>2, <2>3 DEF IInv, TypeOK
<1>4. NeverOverRefunded' /\ LawyerGivesBackTheirPart' /\ ReversedInFull'
  BY <1>1, <1>2, MoneyStays
<1> QED
  BY <1>1, <1>3, <1>4 DEF IInv, DisputedIsHeld, SettlesWhatIsPending

\* A step that holds, frees or releases the earning.
LEMMA EarningStep ==
  ASSUME IInv, UNCHANGED <<refund, asked, settling, dispute>>, payment' \in Payment, closing' \in Reading,
         event' = event \/ \E e \in {"created", "closed"} : Record(e),
         earning' \in Earning, earning'.reversed = earning.reversed,
         earning'.status = "REVERSED" => earning.status = "REVERSED",
         payment'.status = "DISPUTED" => earning'.disputed
  PROVE IInv'
<1>1. (event \in [{"created", "closed"} -> {"none", "sent", "recorded"}])'
  BY DEF IInv, TypeOK, Record
<1>2. LostAndReversed => LostAndReversed'
  BY DEF IInv, TypeOK, Record, LostAndReversed
<1>3. TypeOK'
  BY <1>1 DEF IInv, TypeOK, Payment, Earning
<1>4. NeverOverRefunded'
  BY DEF IInv, NeverOverRefunded, AmountOf, ServiceOf
<1>5. LawyerGivesBackTheirPart'
  BY <1>2 DEF IInv, LawyerGivesBackTheirPart, ServiceOf
<1> QED
  BY <1>3, <1>4, <1>5 DEF IInv, DisputedIsHeld, SettlesWhatIsPending, ReversedInFull

LEMMA OpenDisputeKeeps == ASSUME IInv, OpenDispute PROVE IInv'
<1>1. payment \in Payment /\ payment.status \in Paid /\ earning \in Earning /\ closing \in Reading
  BY TypedParts DEF IInv, TypeOK
<1>2. payment' \in Payment
  BY <1>1 DEF OpenDispute, Payment, Paid
<1>3. earning' = [earning EXCEPT !.disputed = TRUE]
  BY DEF OpenDispute, Hold
<1>4. /\ earning' \in Earning /\ earning'.reversed = earning.reversed
      /\ earning'.status = earning.status /\ earning'.disputed
  BY <1>1, <1>3 DEF Earning
<1>5. Record("created") /\ UNCHANGED <<refund, asked, settling, dispute, closing>>
  BY DEF OpenDispute
<1> QED
  BY <1>1, <1>2, <1>4, <1>5, EarningStep

LEMMA ReleaseKeeps == ASSUME IInv, Release PROVE IInv'
<1>1. payment \in Payment /\ earning \in Earning /\ closing \in Reading
  BY TypedParts DEF IInv, TypeOK
<1>2. earning' = [earning EXCEPT !.status = "AVAILABLE"] /\ UNCHANGED <<payment, refund, asked, settling, dispute, event, closing>>
  BY DEF Release, disputeVars
<1>3. /\ earning' \in Earning /\ earning'.reversed = earning.reversed
      /\ earning'.status # "REVERSED" /\ earning'.disputed = earning.disputed
  BY <1>1, <1>2 DEF Earning
<1>4. payment'.status = "DISPUTED" => earning'.disputed
  BY <1>2, <1>3 DEF IInv, DisputedIsHeld
<1> QED
  BY <1>1, <1>2, <1>3, <1>4, EarningStep

\* Lost: all that is left of the earning is reversed.
LEMMA CloseLostKeeps == ASSUME IInv, CloseWrites, dispute = "lost" PROVE IInv'
<1>1. payment \in Payment /\ earning \in Earning /\ ServiceFee \in Nat
  BY TypedParts, RefundAssumption DEF IInv
<1>2. /\ payment' = [status |-> "REFUNDED", refunded |-> Amount]
      /\ earning' = [Reversed(ServiceFee) EXCEPT !.disputed = FALSE]
      /\ closing' = Nothing /\ Record("closed") /\ UNCHANGED <<refund, asked, settling, dispute>>
  BY DEF CloseWrites
<1>3. /\ Reversed(ServiceFee) \in Earning
      /\ Reversed(ServiceFee).reversed = IF ServiceFee <= ServiceFee - earning.reversed
                                           THEN earning.reversed + ServiceFee ELSE ServiceFee
  BY <1>1, ReversedIs DEF IInv
<1>4. earning' \in Earning /\ earning'.reversed = ServiceFee
  <2>1. earning.reversed \in Nat
    BY <1>1, RefundAssumption DEF Earning
  <2>2. Reversed(ServiceFee).reversed = ServiceFee
    BY <1>1, <1>3, <2>1
  <2> HIDE DEF Reversed
  <2> QED
    BY <1>2, <1>3, <2>2 DEF Earning
<1>5. event' = [event EXCEPT !["closed"] = "recorded"]
  BY <1>2 DEF Record
<1>6. LostAndReversed'
  BY <1>2, <1>5 DEF IInv, TypeOK, LostAndReversed
<1>7. TypeOK'
  <2>1. payment' \in Payment
    BY <1>2, RefundAssumption DEF Payment, Paid
  <2>2. (closing \in Reading)'
    BY <1>2 DEF Nothing, Reading
  <2>3. (event \in [{"created", "closed"} -> {"none", "sent", "recorded"}])'
    BY <1>5 DEF IInv, TypeOK
  <2> QED
    BY <1>2, <1>4, <2>1, <2>2, <2>3 DEF IInv, TypeOK, Payment, Earning
<1>8. NeverOverRefunded'
  BY <1>2 DEF IInv, NeverOverRefunded, AmountOf, ServiceOf
<1>9. LawyerGivesBackTheirPart' /\ ReversedInFull'
  BY <1>4, <1>6 DEF LawyerGivesBackTheirPart, ReversedInFull
<1>10. DisputedIsHeld' /\ SettlesWhatIsPending'
  BY <1>2 DEF IInv, DisputedIsHeld, SettlesWhatIsPending
<1> QED
  BY <1>7, <1>8, <1>9, <1>10 DEF IInv

LEMMA CloseWritesKeeps == ASSUME IInv, CloseWrites PROVE IInv'
<1>1. CASE dispute # "lost"
  <2>1. payment \in Payment /\ earning \in Earning
    BY TypedParts DEF IInv
  <2> DEFINE status == IF closing.refunded >= Amount THEN "REFUNDED"
                       ELSE IF closing.refunded > 0 THEN "PARTIALLY_REFUNDED" ELSE "SUCCEEDED"
  <2>2. /\ payment' = [payment EXCEPT !.status = status]
        /\ earning' = [earning EXCEPT !.disputed = FALSE]
        /\ closing' = Nothing /\ Record("closed") /\ UNCHANGED <<refund, asked, settling, dispute>>
    BY <1>1 DEF CloseWrites
  <2>3. status \in Paid /\ status # "DISPUTED"
    BY DEF Paid
  <2> HIDE DEF status
  <2>4. payment' \in Payment /\ payment'.status # "DISPUTED"
    BY <2>1, <2>2, <2>3 DEF Payment
  <2>5. earning' \in Earning /\ earning'.reversed = earning.reversed /\ earning'.status = earning.status
    BY <2>1, <2>2 DEF Earning
  <2>6. closing' \in Reading
    BY <2>2 DEF Nothing, Reading
  <2> QED
    BY <2>2, <2>4, <2>5, <2>6, EarningStep
<1> QED
  BY <1>1, CloseLostKeeps

-----------------------------------------------------------------------------
LEMMA InitIInv == Init => IInv
<1> SUFFICES ASSUME Init PROVE IInv
  OBVIOUS
<1>1. TypeOK
  BY RefundAssumption DEF Init, TypeOK, Paid, RefundStatuses, Nothing, Reading
<1>2. {r \in Refunds : refund[r].status \in HeldStatuses} = {} /\ {r \in Refunds : refund[r].status \in DoneStatuses} = {}
  BY DEF Init, HeldStatuses, DoneStatuses
<1>3. AmountIn(HeldStatuses) = 0 /\ ServiceIn(HeldStatuses) = 0 /\ ServiceIn(DoneStatuses) = 0
  BY <1>2, SumEmpty DEF AmountIn, ServiceIn, AmountOf, ServiceOf
<1>4. NeverOverRefunded /\ LawyerGivesBackTheirPart
  BY <1>3, MoneyAsSums, RefundAssumption DEF Init
<1> QED
  BY <1>1, <1>4 DEF Init, IInv, DisputedIsHeld, SettlesWhatIsPending, ReversedInFull, Nothing

LEMMA NextKeeps == IInv /\ [Next]_vars => IInv'
<1> SUFFICES ASSUME IInv, [Next]_vars PROVE IInv'
  OBVIOUS
<1>1. ASSUME UNCHANGED vars PROVE IInv'
  <2>1. NeverOverRefunded' /\ LawyerGivesBackTheirPart' /\ ReversedInFull'
    BY <1>1, MoneyStays DEF vars, rowVars, disputeVars, LostAndReversed
  <2> QED
    BY <1>1, <2>1 DEF IInv, TypeOK, DisputedIsHeld, SettlesWhatIsPending, vars, rowVars, disputeVars
<1>2. ASSUME NEW r \in Refunds, RefundActs(r) PROVE IInv'
  BY <1>2, CheckKeeps, CreateRefundKeeps, AskStripeKeeps, SettleFailedKeeps, SettleReadsKeeps, SettleWritesKeeps
     DEF RefundActs
<1>3. ASSUME DisputeActs PROVE IInv'
  BY <1>3, BankKeeps, OpenDisputeKeeps, CloseWritesKeeps DEF DisputeActs
<1> QED
  BY <1>1, <1>2, <1>3, ReleaseKeeps DEF Next

LEMMA IInvAlways == Spec => []IInv
BY InitIInv, NextKeeps, PTL DEF Spec

\* The payment, its refunds, its earning and what an open transaction read are
\* what the tables allow: no part of a refund is negative or more than there was.
THEOREM TypeSafety == Spec => []TypeOK
<1>1. IInv => TypeOK
  BY DEF IInv
<1> QED
  BY <1>1, IInvAlways, PTL

\* However many admins refund at once, and whatever Stripe answers, what was given
\* back and what is on its way come to no more than was paid, and take no more
\* than the lawyer's part from the lawyer.
THEOREM RefundsFit == Spec => []NeverOverRefunded
<1>1. IInv => NeverOverRefunded
  BY DEF IInv
<1> QED
  BY <1>1, IInvAlways, PTL

\* Whatever order refunds settle in, though two of them read the same payment, what
\* was reversed of the earning is the lawyer's part of the refunds that went
\* through, until a lost dispute reverses all of it.
THEOREM LawyerPartExact == Spec => []LawyerGivesBackTheirPart
<1>1. IInv => LawyerGivesBackTheirPart
  BY DEF IInv
<1> QED
  BY <1>1, IInvAlways, PTL

\* A refund that settles, a sweep or an event out of turn does not free the earning
\* of a payment that is DISPUTED.
THEOREM DisputedEarningHeld == Spec => []DisputedIsHeld
<1>1. IInv => DisputedIsHeld
  BY DEF IInv
<1> QED
  BY <1>1, IInvAlways, PTL
===============================================================================
