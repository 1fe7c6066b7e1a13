----------------------------- MODULE WalletProofs -----------------------------
(***************************************************************************)
(* Proofs about Wallet, for any earnings, withdrawals, amounts and         *)
(* minimum, whether the server stops in the middle of a payout or not.     *)
(*                                                                         *)
(* The ledger is compared with sums over the rows, so the first part is    *)
(* about SumFunctionOnSet: what one row's change does to a sum.            *)
(***************************************************************************)
EXTENDS Wallet, TLAPS, FiniteSetTheorems, WellFoundedInduction

\* What SumFunctionOnSet adds up: the element it chooses, and the sum of the rest.
Chosen(s) == CHOOSE x \in s : TRUE
SumStep(f, g, s) == IF s = {} THEN 0 ELSE f[Chosen(s)] + g[s \ {Chosen(s)}]
SumRecursion(f, S, g) == g = [s \in SUBSET S |-> SumStep(f, g, s)]
Sums(f, S) == CHOOSE g : SumRecursion(f, S, g)

\* Induction, as the least counterexample.
LEMMA LeastNatural ==
  ASSUME NEW T, T \subseteq Nat, T # {}
  PROVE \E n \in T : \A m \in T : n <= m
<1> DEFINE R == OpToRel(<, Nat)
<1>1. IsWellFoundedOn(R, Nat)
  BY NatLessThanWellFounded
<1>2. \A m, n \in Nat : <<m, n>> \in R <=> m < n
  BY DEF OpToRel
<1> HIDE DEF R
<1>3. PICK n \in T : \A m \in T : ~ (<<m, n>> \in R)
  BY <1>1, WFMin
<1>4. ASSUME NEW m \in T PROVE n <= m
  <2>1. m \in Nat /\ n \in Nat /\ ~(m < n)
    BY <1>2, <1>3
  <2> QED
    BY <2>1
<1> QED
  BY <1>4

LEMMA ChosenIsIn == ASSUME NEW s, s # {} PROVE Chosen(s) \in s
BY DEF Chosen

LEMMA SumIsSums == ASSUME NEW f, NEW S PROVE SumFunctionOnSet(f, S) = Sums(f, S)[S]
BY DEF SumFunctionOnSet, FoldFunctionOnSet, MapThenFoldSet, Sums, SumRecursion, SumStep, Chosen

LEMMA SumsExist == ASSUME NEW f, NEW S, IsFiniteSet(S) PROVE \E g : SumRecursion(f, S, g)
<1> DEFINE UpTo(n, g) == \A s \in SUBSET S : Cardinality(s) <= n => g[s] = SumStep(f, g, s)
           T == {n \in Nat : \A g : ~UpTo(n, g)}
<1>1. \A s \in SUBSET S : IsFiniteSet(s) /\ Cardinality(s) \in Nat /\ Cardinality(s) <= Cardinality(S)
  BY FS_Subset, FS_CardinalityType
<1>2. \A s \in SUBSET S : s # {} => /\ Chosen(s) \in s /\ s \ {Chosen(s)} \in SUBSET S
                                    /\ Cardinality(s \ {Chosen(s)}) = Cardinality(s) - 1
  <2> SUFFICES ASSUME NEW s \in SUBSET S, s # {}
               PROVE /\ Chosen(s) \in s /\ s \ {Chosen(s)} \in SUBSET S
                     /\ Cardinality(s \ {Chosen(s)}) = Cardinality(s) - 1
    OBVIOUS
  <2>1. Chosen(s) \in s
    BY ChosenIsIn
  <2> QED
    BY <1>1, <2>1, FS_RemoveElement
<1>3. T = {}
  <2> SUFFICES ASSUME T # {} PROVE FALSE
    OBVIOUS
  <2>1. PICK n \in T : \A m \in T : n <= m
    <3>1. T \subseteq Nat
      OBVIOUS
    <3> HIDE DEF T
    <3> QED
      BY <3>1, LeastNatural
  <2>2. CASE n = 0
    <3> DEFINE g == [s \in SUBSET S |-> 0]
    <3>1. ASSUME NEW s \in SUBSET S, Cardinality(s) <= 0 PROVE g[s] = SumStep(f, g, s)
      <4>1. s = {}
        BY <1>1, <3>1, FS_EmptySet
      <4> QED
        BY <4>1 DEF SumStep
    <3>2. UpTo(0, g)
      BY <3>1
    <3> QED
      BY <2>1, <2>2, <3>2
  <2>3. CASE n # 0
    <3>1. n - 1 \in Nat /\ n - 1 \notin T /\ n \in Nat
      BY <2>1, <2>3
    <3>2. PICK g : UpTo(n - 1, g)
      BY <3>1
    <3> DEFINE h == [s \in SUBSET S |-> IF Cardinality(s) <= n - 1 THEN g[s] ELSE SumStep(f, g, s)]
    <3>3. ASSUME NEW s \in SUBSET S, Cardinality(s) <= n PROVE h[s] = SumStep(f, h, s)
      <4>1. h[s] = SumStep(f, g, s)
        BY <3>2
      <4>2. SumStep(f, h, s) = SumStep(f, g, s)
        <5>1. CASE s = {}
          BY <5>1 DEF SumStep
        <5>2. CASE s # {}
          <6> DEFINE rest == s \ {Chosen(s)}
          <6>1. rest \in SUBSET S /\ Cardinality(rest) <= n - 1
            BY <1>1, <1>2, <3>1, <3>3, <5>2
          <6>2. h[rest] = g[rest]
            BY <6>1
          <6> QED
            BY <5>2, <6>2 DEF SumStep
        <5> QED
          BY <5>1, <5>2
      <4> QED
        BY <4>1, <4>2
    <3>4. UpTo(n, h)
      BY <3>3
    <3> QED
      BY <2>1, <3>4
  <2> QED
    BY <2>2, <2>3
<1>4. PICK g : UpTo(Cardinality(S), g)
  BY <1>1, <1>3
<1> DEFINE h == [s \in SUBSET S |-> g[s]]
<1>5. ASSUME NEW s \in SUBSET S PROVE SumStep(f, g, s) = SumStep(f, h, s) /\ g[s] = SumStep(f, g, s)
  BY <1>1, <1>2, <1>4 DEF SumStep
<1>6. SumRecursion(f, S, h)
  BY <1>5 DEF SumRecursion
<1> QED
  BY <1>6

LEMMA SumsUnfold ==
  ASSUME NEW f, NEW S, IsFiniteSet(S), NEW s \in SUBSET S
  PROVE Sums(f, S)[s] = IF s = {} THEN 0 ELSE f[Chosen(s)] + Sums(f, S)[s \ {Chosen(s)}]
<1>1. SumRecursion(f, S, Sums(f, S))
  BY SumsExist DEF Sums
<1> QED
  BY <1>1 DEF SumRecursion, SumStep

LEMMA SumsAgree ==
  ASSUME NEW f, NEW S, IsFiniteSet(S), NEW g, NEW U, IsFiniteSet(U),
         NEW s, s \subseteq S, s \subseteq U, \A x \in s : f[x] = g[x]
  PROVE Sums(f, S)[s] = Sums(g, U)[s]
<1> DEFINE Wrong(t) == t \subseteq s /\ Sums(f, S)[t] # Sums(g, U)[t]
           T == {n \in Nat : \E t : Wrong(t) /\ n = Cardinality(t)}
<1>1. \A t : t \subseteq s => IsFiniteSet(t) /\ Cardinality(t) \in Nat
  BY FS_Subset, FS_CardinalityType
<1>2. T = {}
  <2> SUFFICES ASSUME T # {} PROVE FALSE
    OBVIOUS
  <2>1. PICK n \in T : \A m \in T : n <= m
    <3>1. T \subseteq Nat
      OBVIOUS
    <3> HIDE DEF T
    <3> QED
      BY <3>1, LeastNatural
  <2>2. PICK t : Wrong(t) /\ n = Cardinality(t)
    BY <2>1
  <2>3. t # {}
    BY <2>2, SumsUnfold
  <2> DEFINE rest == t \ {Chosen(t)}
  <2>4. Chosen(t) \in t /\ Cardinality(rest) = n - 1 /\ Cardinality(rest) \in Nat /\ rest \subseteq s
    BY <1>1, <2>2, <2>3, ChosenIsIn, FS_RemoveElement
  <2>5. Sums(f, S)[rest] = Sums(g, U)[rest]
    <3>1. n - 1 \notin T
      BY <2>1, <2>4
    <3> QED
      BY <2>4, <3>1
  <2>6. /\ Sums(f, S)[t] = f[Chosen(t)] + Sums(f, S)[rest]
        /\ Sums(g, U)[t] = g[Chosen(t)] + Sums(g, U)[rest]
    BY <2>2, <2>3, SumsUnfold
  <2> QED
    BY <2>2, <2>4, <2>5, <2>6
<1> QED
  BY <1>1, <1>2

-----------------------------------------------------------------------------
\* What SumFunctionOnSet is.
LEMMA SumEmpty == ASSUME NEW f PROVE SumFunctionOnSet(f, {}) = 0
BY SumIsSums, SumsUnfold, FS_EmptySet

LEMMA SumAgrees ==
  ASSUME NEW f, NEW g, NEW S, IsFiniteSet(S), \A x \in S : f[x] = g[x]
  PROVE SumFunctionOnSet(f, S) = SumFunctionOnSet(g, S)
BY SumIsSums, SumsAgree

LEMMA SumChosen ==
  ASSUME NEW f, NEW S, IsFiniteSet(S), S # {}
  PROVE SumFunctionOnSet(f, S) = f[Chosen(S)] + SumFunctionOnSet(f, S \ {Chosen(S)})
<1> DEFINE rest == S \ {Chosen(S)}
<1>1. Sums(f, S)[S] = f[Chosen(S)] + Sums(f, S)[rest]
  BY SumsUnfold
<1>2. IsFiniteSet(rest)
  BY FS_Subset
<1>3. Sums(f, S)[rest] = Sums(f, rest)[rest]
  BY <1>2, SumsAgree
<1> QED
  BY <1>1, <1>3, SumIsSums

\* A sum of integers is one.
LEMMA SumType ==
  ASSUME NEW f, NEW S, IsFiniteSet(S), \A x \in S : f[x] \in Int
  PROVE SumFunctionOnSet(f, S) \in Int /\ ((\A x \in S : f[x] >= 0) => SumFunctionOnSet(f, S) >= 0)
<1> DEFINE Right(t) == SumFunctionOnSet(f, t) \in Int /\ ((\A x \in S : f[x] >= 0) => SumFunctionOnSet(f, t) >= 0)
           T == {n \in Nat : \E t : t \subseteq S /\ ~Right(t) /\ n = Cardinality(t)}
<1>1. \A t : t \subseteq S => IsFiniteSet(t) /\ Cardinality(t) \in Nat
  BY FS_Subset, FS_CardinalityType
<1>2. T = {}
  <2> SUFFICES ASSUME T # {} PROVE FALSE
    OBVIOUS
  <2>1. PICK n \in T : \A m \in T : n <= m
    <3>1. T \subseteq Nat
      OBVIOUS
    <3> HIDE DEF T
    <3> QED
      BY <3>1, LeastNatural
  <2>2. PICK t : t \subseteq S /\ ~Right(t) /\ n = Cardinality(t)
    BY <2>1
  <2>3. t # {}
    BY <2>2, SumEmpty
  <2> DEFINE rest == t \ {Chosen(t)}
  <2>4. Chosen(t) \in t /\ Cardinality(rest) = n - 1 /\ Cardinality(rest) \in Nat /\ rest \subseteq S
    BY <1>1, <2>2, <2>3, ChosenIsIn, FS_RemoveElement
  <2>5. Right(rest)
    <3>1. n - 1 \notin T
      BY <2>1, <2>4
    <3> QED
      BY <2>4, <3>1
  <2>6. SumFunctionOnSet(f, t) = f[Chosen(t)] + SumFunctionOnSet(f, rest)
    BY <1>1, <2>2, <2>3, SumChosen
  <2>7. f[Chosen(t)] \in Int /\ ((\A x \in S : f[x] >= 0) => f[Chosen(t)] >= 0)
    BY <2>2, <2>4
  <2> HIDE DEF rest
  <2>8. Right(t)
    BY <2>5, <2>6, <2>7
  <2> QED
    BY <2>2, <2>8
<1>3. S \subseteq S /\ Right(S)
  BY <1>1, <1>2
<1> QED
  BY <1>3

\* Any element may be taken out first.
LEMMA SumWithout ==
  ASSUME NEW f, NEW S, IsFiniteSet(S), \A x \in S : f[x] \in Int, NEW y \in S
  PROVE SumFunctionOnSet(f, S) = f[y] + SumFunctionOnSet(f, S \ {y})
<1> DEFINE Right(t, x) == SumFunctionOnSet(f, t) = f[x] + SumFunctionOnSet(f, t \ {x})
           T == {n \in Nat : \E t : t \subseteq S /\ n = Cardinality(t) /\ \E x \in t : ~Right(t, x)}
<1>1. \A t : t \subseteq S => IsFiniteSet(t) /\ Cardinality(t) \in Nat
  BY FS_Subset, FS_CardinalityType
<1>2. T = {}
  <2> SUFFICES ASSUME T # {} PROVE FALSE
    OBVIOUS
  <2>1. PICK n \in T : \A m \in T : n <= m
    <3>1. T \subseteq Nat
      OBVIOUS
    <3> HIDE DEF T
    <3> QED
      BY <3>1, LeastNatural
  <2>2. PICK t : t \subseteq S /\ n = Cardinality(t) /\ \E x \in t : ~Right(t, x)
    BY <2>1
  <2>3. PICK x \in t : ~Right(t, x)
    BY <2>2
  <2> DEFINE c == Chosen(t)
  <2>4. c \in t
    BY <2>3, ChosenIsIn
  <2>5. SumFunctionOnSet(f, t) = f[c] + SumFunctionOnSet(f, t \ {c})
    BY <1>1, <2>2, <2>3, SumChosen
  <2> HIDE DEF c
  <2>6. c # x
    BY <2>3, <2>5
  <2>7. \A z \in t : /\ Cardinality(t \ {z}) = n - 1 /\ Cardinality(t \ {z}) \in Nat /\ t \ {z} \subseteq S
                     /\ Cardinality(t \ {z}) \notin T
    <3> SUFFICES ASSUME NEW z \in t
                 PROVE /\ Cardinality(t \ {z}) = n - 1 /\ Cardinality(t \ {z}) \in Nat /\ t \ {z} \subseteq S
                       /\ Cardinality(t \ {z}) \notin T
      OBVIOUS
    <3>1. Cardinality(t \ {z}) = n - 1 /\ Cardinality(t \ {z}) \in Nat /\ t \ {z} \subseteq S
      BY <1>1, <2>2, FS_RemoveElement
    <3>2. n \in Nat
      BY <2>1
    <3>3. n - 1 \notin T
      BY <2>1, <3>2
    <3> QED
      BY <3>1, <3>3
  <2>8. \A z \in t : \A v \in t \ {z} : Right(t \ {z}, v)
    BY <2>7
  <2>9. /\ SumFunctionOnSet(f, t \ {c}) = f[x] + SumFunctionOnSet(f, (t \ {c}) \ {x})
        /\ SumFunctionOnSet(f, t \ {x}) = f[c] + SumFunctionOnSet(f, (t \ {x}) \ {c})
    BY <2>4, <2>6, <2>8
  <2>10. (t \ {c}) \ {x} = (t \ {x}) \ {c}
    OBVIOUS
  <2>11. SumFunctionOnSet(f, (t \ {x}) \ {c}) \in Int /\ f[x] \in Int /\ f[c] \in Int
    <3>1. (t \ {x}) \ {c} \subseteq S
      BY <2>2
    <3> QED
      BY <1>1, <2>2, <2>4, <3>1, SumType
  <2>12. Right(t, x)
    BY <2>5, <2>9, <2>10, <2>11
  <2> QED
    BY <2>3, <2>12
<1>3. S \subseteq S /\ Right(S, y)
  BY <1>1, <1>2
<1> QED
  BY <1>3

\* One row changes, and may come into the sum or leave it.
LEMMA SumMoves ==
  ASSUME NEW Rows, IsFiniteSet(Rows), NEW f \in [Rows -> Int], NEW g \in [Rows -> Int],
         NEW S \in SUBSET Rows, NEW T \in SUBSET Rows, NEW y \in Rows,
         S \ {y} = T \ {y}, \A x \in Rows \ {y} : f[x] = g[x]
  PROVE /\ SumFunctionOnSet(f, S) \in Int
        /\ SumFunctionOnSet(g, T) = SumFunctionOnSet(f, S) - (IF y \in S THEN f[y] ELSE 0)
                                                           + (IF y \in T THEN g[y] ELSE 0)
<1>1. IsFiniteSet(S) /\ IsFiniteSet(T) /\ IsFiniteSet(S \ {y})
  <2>1. S \ {y} \in SUBSET Rows
    OBVIOUS
  <2> QED
    BY <2>1, FS_Subset
<1>2. SumFunctionOnSet(f, S \ {y}) = SumFunctionOnSet(g, S \ {y}) /\ SumFunctionOnSet(f, S \ {y}) \in Int
  BY <1>1, SumAgrees, SumType
<1>3. SumFunctionOnSet(f, S) = (IF y \in S THEN f[y] ELSE 0) + SumFunctionOnSet(f, S \ {y})
  <2>1. CASE y \in S
    BY <1>1, <2>1, SumWithout
  <2>2. CASE y \notin S
    <3>1. SumFunctionOnSet(f, S \ {y}) = SumFunctionOnSet(f, S)
      <4>1. S \ {y} = S
        BY <2>2
      <4> QED
        BY <4>1, Zenon
    <3> QED
      BY <1>2, <2>2, <3>1
  <2> QED
    BY <2>1, <2>2
<1>4. SumFunctionOnSet(g, T) = (IF y \in T THEN g[y] ELSE 0) + SumFunctionOnSet(g, S \ {y})
  <2>1. CASE y \in T
    BY <1>1, <2>1, SumWithout
  <2>2. CASE y \notin T
    <3>1. S \ {y} = T
      BY <2>2
    <3> QED
      BY <1>2, <2>2, <3>1
  <2> QED
    BY <2>1, <2>2
<1>5. f[y] \in Int /\ g[y] \in Int
  OBVIOUS
<1> QED
  BY <1>2, <1>3, <1>4, <1>5

-----------------------------------------------------------------------------
(* What the proofs need beside the properties.                             *)

\* Nothing is taken from an earning before it comes in.
NewIsWhole == \A e \in Earnings : earning[e].status = "NONE" => earning[e].reversed = 0

\* What became of a payout fits what its call answered; there is one, and none
\* without a transfer.
StripeInOrder(w) ==
    LET s == stripe[w]
    IN  /\ s.said = "none" => s.payout = "none" /\ s.payouts = 0
        /\ s.said = "pending" => s.payout \in {"pending", "paid", "failed", "returned"}
        /\ s.said = "paid" => s.payout \in {"paid", "returned"}
        /\ s.said = "failed" => s.payout = "failed"
        /\ s.said = "refused" => s.payout = "refused" /\ s.payouts = 0
        /\ s.payouts <= 1
        /\ s.transfer # "made" => s.said = "none"

\* While runPayout is at work Stripe keeps its keys, and it goes by what Stripe said.
RunInOrder(w) ==
    LET step == at["runPayout"][w]
    IN  /\ step # "idle" => withdrawal[w].age # "old"
        /\ step = "payout" => stripe[w].transfer = "made"
        /\ step = "paid" => stripe[w].payout \in {"paid", "returned"}
        /\ step = "takeBack" => stripe[w].said \in {"failed", "refused"}
        /\ step = "failed" => stripe[w].transfer = "refused" \/ stripe[w].said \in {"failed", "refused"}

\* The webhook goes by a payout that failed or was returned.
WebhookInOrder(w) ==
    /\ at["webhook"][w] \in {"idle", "takeBack", "failed"}
    /\ at["webhook"][w] # "idle" => stripe[w].payout \in {"failed", "returned"}

\* A withdrawal is fresh when it comes in, and ended for a reason that lasts.
EndedInOrder(w) ==
    /\ withdrawal[w].status = "NONE" => withdrawal[w].age = "fresh"
    /\ withdrawal[w].status = "PAID" => stripe[w].payout \in {"paid", "returned"}
    /\ withdrawal[w].status = "FAILED" =>
         stripe[w].transfer = "refused" \/ stripe[w].payout \in {"failed", "returned", "refused"}

InOrder(w) == StripeInOrder(w) /\ RunInOrder(w) /\ WebhookInOrder(w) /\ EndedInOrder(w)

PayoutsInOrder == \A w \in Withdrawals : InOrder(w)

IInv == TypeOK /\ NewIsWhole /\ BooksAgree /\ PayoutsInOrder

-----------------------------------------------------------------------------
(* The sums of the ledger.                                                 *)

EarningsTyped ==
    /\ earning \in [Earnings -> Earning]
    /\ \A e \in Earnings : earning[e].reversed <= earning[e].net

LEMMA LeftIsNat ==
  ASSUME EarningsTyped, NEW e \in Earnings
  PROVE LeftOf(e) \in Nat /\ earning[e].net \in Nat /\ earning[e].reversed \in Nat
<1>1. earning[e].net \in Nat /\ earning[e].reversed \in Nat /\ earning[e].reversed <= earning[e].net
  BY DEF EarningsTyped, Earning
<1> QED
  BY <1>1 DEF LeftOf

\* One earning changes.
LEMMA EarningMoves ==
  ASSUME EarningsTyped, EarningsTyped', NEW e \in Earnings, NEW status,
         \A d \in Earnings \ {e} : earning'[d] = earning[d]
  PROVE /\ LeftIn(status) \in Int
        /\ LeftIn(status)' = LeftIn(status) - (IF earning[e].status = status THEN LeftOf(e) ELSE 0)
                                            + (IF earning'[e].status = status THEN LeftOf(e)' ELSE 0)
<1> DEFINE f == [d \in Earnings |-> LeftOf(d)]
           g == [d \in Earnings |-> LeftOf(d)']
           S == {d \in Earnings : earning[d].status = status}
           T == {d \in Earnings : earning'[d].status = status}
<1>1. \A d \in Earnings : LeftOf(d) \in Nat
  BY LeftIsNat
<1>2. \A d \in Earnings : LeftOf(d)' \in Nat
  <2> SUFFICES ASSUME NEW d \in Earnings PROVE LeftOf(d)' \in Nat
    OBVIOUS
  <2>1. earning'[d].net \in Nat /\ earning'[d].reversed \in Nat /\ earning'[d].reversed <= earning'[d].net
    BY DEF EarningsTyped, Earning
  <2> QED
    BY <2>1 DEF LeftOf
<1>3. f \in [Earnings -> Int] /\ g \in [Earnings -> Int]
  BY <1>1, <1>2
<1>4. \A d \in Earnings \ {e} : f[d] = g[d]
  BY DEF LeftOf
<1>5. S \in SUBSET Earnings /\ T \in SUBSET Earnings /\ S \ {e} = T \ {e}
  OBVIOUS
<1>6. LeftIn(status) = SumFunctionOnSet(f, S) /\ LeftIn(status)' = SumFunctionOnSet(g, T)
  BY DEF LeftIn
<1>7. /\ f[e] = LeftOf(e) /\ g[e] = LeftOf(e)'
      /\ (e \in S <=> earning[e].status = status) /\ (e \in T <=> earning'[e].status = status)
  OBVIOUS
<1> HIDE DEF f, g, S, T
<1>8. /\ SumFunctionOnSet(f, S) \in Int
      /\ SumFunctionOnSet(g, T) = SumFunctionOnSet(f, S) - (IF e \in S THEN f[e] ELSE 0)
                                                         + (IF e \in T THEN g[e] ELSE 0)
  BY <1>3, <1>4, <1>5, AmountsAssumption, SumMoves
<1> QED
  BY <1>6, <1>7, <1>8

\* One withdrawal changes.
LEMMA WithdrawalMoves ==
  ASSUME withdrawal \in [Withdrawals -> Withdrawal], (withdrawal \in [Withdrawals -> Withdrawal])',
         NEW w \in Withdrawals, NEW statuses,
         \A v \in Withdrawals \ {w} : withdrawal'[v] = withdrawal[v]
  PROVE /\ AmountIn(statuses) \in Int
        /\ AmountIn(statuses)' =
             AmountIn(statuses) - (IF withdrawal[w].status \in statuses THEN withdrawal[w].amount ELSE 0)
                                + (IF withdrawal'[w].status \in statuses THEN withdrawal'[w].amount ELSE 0)
<1> DEFINE f == [v \in Withdrawals |-> withdrawal[v].amount]
           g == [v \in Withdrawals |-> withdrawal'[v].amount]
           S == {v \in Withdrawals : withdrawal[v].status \in statuses}
           T == {v \in Withdrawals : withdrawal'[v].status \in statuses}
<1>1. \A v \in Withdrawals : withdrawal[v].amount \in Nat /\ withdrawal'[v].amount \in Nat
  BY DEF Withdrawal
<1>2. f \in [Withdrawals -> Int] /\ g \in [Withdrawals -> Int]
  BY <1>1
<1>3. \A v \in Withdrawals \ {w} : f[v] = g[v]
  OBVIOUS
<1>4. S \in SUBSET Withdrawals /\ T \in SUBSET Withdrawals /\ S \ {w} = T \ {w}
  OBVIOUS
<1>5. AmountIn(statuses) = SumFunctionOnSet(f, S) /\ AmountIn(statuses)' = SumFunctionOnSet(g, T)
  BY DEF AmountIn
<1>6. /\ f[w] = withdrawal[w].amount /\ g[w] = withdrawal'[w].amount
      /\ (w \in S <=> withdrawal[w].status \in statuses) /\ (w \in T <=> withdrawal'[w].status \in statuses)
  OBVIOUS
<1> HIDE DEF f, g, S, T
<1>7. /\ SumFunctionOnSet(f, S) \in Int
      /\ SumFunctionOnSet(g, T) = SumFunctionOnSet(f, S) - (IF w \in S THEN f[w] ELSE 0)
                                                         + (IF w \in T THEN g[w] ELSE 0)
  BY <1>2, <1>3, <1>4, AmountsAssumption, SumMoves
<1> QED
  BY <1>5, <1>6, <1>7

LEMMA SumsAreInts ==
  ASSUME EarningsTyped, withdrawal \in [Withdrawals -> Withdrawal], NEW status, NEW statuses
  PROVE LeftIn(status) \in Int /\ AmountIn(statuses) \in Int
<1> DEFINE f == [d \in Earnings |-> LeftOf(d)]
           S == {d \in Earnings : earning[d].status = status}
           g == [v \in Withdrawals |-> withdrawal[v].amount]
           T == {v \in Withdrawals : withdrawal[v].status \in statuses}
<1>1. IsFiniteSet(S) /\ \A x \in S : f[x] \in Int
  <2>1. S \in SUBSET Earnings
    OBVIOUS
  <2>2. IsFiniteSet(S)
    BY <2>1, AmountsAssumption, FS_Subset
  <2> QED
    BY <2>2, LeftIsNat
<1>2. IsFiniteSet(T) /\ \A x \in T : g[x] \in Int
  <2>1. T \in SUBSET Withdrawals
    OBVIOUS
  <2>2. IsFiniteSet(T)
    BY <2>1, AmountsAssumption, FS_Subset
  <2> QED
    BY <2>2 DEF Withdrawal
<1>3. LeftIn(status) = SumFunctionOnSet(f, S) /\ AmountIn(statuses) = SumFunctionOnSet(g, T)
  BY DEF LeftIn, AmountIn
<1> HIDE DEF f, g, S, T
<1> QED
  BY <1>1, <1>2, <1>3, SumType

\* The sums stay when what they add up does.
LEMMA EarningsStay == ASSUME UNCHANGED earning, NEW status PROVE LeftIn(status)' = LeftIn(status)
BY DEF LeftIn, LeftOf

LEMMA WithdrawalsStay == ASSUME UNCHANGED withdrawal, NEW statuses PROVE AmountIn(statuses)' = AmountIn(statuses)
BY DEF AmountIn

-----------------------------------------------------------------------------
(* The earnings: withdrawals and what Stripe made of them stay.            *)

LEMMA MinOfTwo == ASSUME NEW a \in Int, NEW b \in Int PROVE Min({a, b}) = IF a <= b THEN a ELSE b
<1> DEFINE least == IF a <= b THEN a ELSE b
<1>1. least \in {a, b} /\ \A y \in {a, b} : least <= y
  OBVIOUS
<1>2. \A x \in {a, b} : (\A y \in {a, b} : x <= y) => x = least
  OBVIOUS
<1> QED
  BY <1>1, <1>2 DEF Min

\* A reversal takes something, and no more than is left.
LEMMA TakenFits ==
  ASSUME TypeOK, NEW e \in Earnings, NEW amount \in Amounts
  PROVE Taken(e, amount) \in Nat /\ Taken(e, amount) <= LeftOf(e)
<1>1. LeftOf(e) \in Nat /\ amount \in Nat
  BY LeftIsNat, AmountsAssumption DEF TypeOK, EarningsTyped
<1> QED
  BY <1>1, MinOfTwo DEF Taken

\* What is said of the payouts is not about the ledger and the earnings.
LEMMA PayoutsStay == ASSUME PayoutsInOrder, UNCHANGED payoutVars PROVE PayoutsInOrder'
<1>1. UNCHANGED <<withdrawal, at, stripe>>
  BY DEF payoutVars
<1> QED
  BY <1>1 DEF PayoutsInOrder, InOrder, StripeInOrder, RunInOrder, WebhookInOrder, EndedInOrder

\* One earning changes from old to new, and the ledger with it.
LEMMA EarningStep ==
  ASSUME IInv, UNCHANGED payoutVars, NEW e \in Earnings, NEW new \in Earning, new.reversed <= new.net,
         earning' = [earning EXCEPT ![e] = new],
         balance' \in [Buckets -> Int],
         new.status = "NONE" => new.reversed = 0,
         \A status \in {"PENDING", "AVAILABLE"} :
           balance'[status] = balance[status]
             - (IF earning[e].status = status THEN LeftOf(e) ELSE 0)
             + (IF new.status = status THEN new.net - new.reversed ELSE 0),
         \A bucket \in {"RESERVED", "WITHDRAWN"} : balance'[bucket] = balance[bucket]
  PROVE IInv'
<1>1. UNCHANGED <<withdrawal, at, stripe>>
  BY DEF payoutVars
<1>2. earning \in [Earnings -> Earning] /\ EarningsTyped /\ withdrawal \in [Withdrawals -> Withdrawal]
  BY DEF IInv, TypeOK, EarningsTyped
<1>3. earning'[e] = new /\ \A d \in Earnings \ {e} : earning'[d] = earning[d]
  BY <1>2
<1>4. EarningsTyped'
  <2>1. (earning \in [Earnings -> Earning])'
    BY <1>2
  <2>2. ASSUME NEW d \in Earnings PROVE earning'[d].reversed <= earning'[d].net
    BY <1>2, <1>3 DEF EarningsTyped
  <2> QED
    BY <2>1, <2>2 DEF EarningsTyped
<1>5. TypeOK'
  BY <1>1, <1>4 DEF IInv, TypeOK, EarningsTyped
<1>6. NewIsWhole'
  BY <1>3 DEF IInv, NewIsWhole
<1>7. BooksAgree'
  <2>1. LeftOf(e)' = new.net - new.reversed
    BY <1>3 DEF LeftOf
  <2>2. ASSUME NEW status \in {"PENDING", "AVAILABLE"}
        PROVE balance'[status] - balance[status] = LeftIn(status)' - LeftIn(status) /\ LeftIn(status)' \in Int
    <3>1. /\ LeftIn(status) \in Int
          /\ LeftIn(status)' = LeftIn(status) - (IF earning[e].status = status THEN LeftOf(e) ELSE 0)
                                              + (IF earning'[e].status = status THEN LeftOf(e)' ELSE 0)
      BY <1>2, <1>3, <1>4, EarningMoves
    <3>2. balance[status] \in Int
      BY DEF IInv, TypeOK, Buckets
    <3>3. LeftOf(e) \in Int /\ new.net \in Int /\ new.reversed \in Int
      BY <1>2, LeftIsNat DEF Earning
    <3> QED
      BY <1>3, <2>1, <3>1, <3>2, <3>3
  <2>3. /\ balance'["PENDING"] = LeftIn("PENDING")'
        /\ balance'["AVAILABLE"] - balance["AVAILABLE"] = LeftIn("AVAILABLE")' - LeftIn("AVAILABLE")
    <3>1. balance["PENDING"] = LeftIn("PENDING") /\ balance["PENDING"] \in Int
      BY DEF IInv, BooksAgree, TypeOK, Buckets
    <3>2. balance'["PENDING"] \in Int
      BY DEF Buckets
    <3> QED
      BY <2>2, <3>1, <3>2
  <2>4. balance'["AVAILABLE"] = LeftIn("AVAILABLE")' - AmountIn({"PROCESSING", "PAID"})
    <3>1. balance["AVAILABLE"] = LeftIn("AVAILABLE") - AmountIn({"PROCESSING", "PAID"})
      BY DEF IInv, BooksAgree
    <3>2. balance["AVAILABLE"] \in Int /\ balance'["AVAILABLE"] \in Int
      BY DEF IInv, TypeOK, Buckets
    <3>3. LeftIn("AVAILABLE") \in Int /\ LeftIn("AVAILABLE")' \in Int /\ AmountIn({"PROCESSING", "PAID"}) \in Int
      BY <1>2, <2>2, SumsAreInts
    <3> QED
      BY <2>3, <3>1, <3>2, <3>3
  <2>5. /\ AmountIn({"PROCESSING", "PAID"})' = AmountIn({"PROCESSING", "PAID"})
        /\ AmountIn({"PROCESSING"})' = AmountIn({"PROCESSING"})
        /\ AmountIn({"PAID"})' = AmountIn({"PAID"})
    BY <1>1, WithdrawalsStay
  <2>6. balance["RESERVED"] = AmountIn({"PROCESSING"}) /\ balance["WITHDRAWN"] = AmountIn({"PAID"})
    BY DEF IInv, BooksAgree
  <2> QED
    BY <2>3, <2>4, <2>5, <2>6 DEF BooksAgree
<1>8. PayoutsInOrder'
  BY PayoutsStay DEF IInv
<1> QED
  BY <1>5, <1>6, <1>7, <1>8 DEF IInv

LEMMA CreateEarningKeeps ==
  ASSUME IInv, NEW e \in Earnings, NEW net \in Amounts, CreateEarning(e, net) PROVE IInv'
<1> DEFINE new == [earning[e] EXCEPT !.status = "PENDING", !.net = net]
<1>1. earning \in [Earnings -> Earning] /\ net \in Nat /\ balance \in [Buckets -> Int]
  BY AmountsAssumption DEF IInv, TypeOK
<1>2. /\ new \in Earning /\ new.status = "PENDING" /\ new.net = net /\ new.reversed = 0
      /\ earning[e].status = "NONE"
  BY <1>1 DEF CreateEarning, Earning, IInv, NewIsWhole
<1>3. earning' = [earning EXCEPT ![e] = new]
  BY <1>1 DEF CreateEarning
<1>4. /\ balance' \in [Buckets -> Int] /\ balance'["PENDING"] = balance["PENDING"] + net
      /\ \A bucket \in {"AVAILABLE", "RESERVED", "WITHDRAWN"} : balance'[bucket] = balance[bucket]
  BY <1>1 DEF CreateEarning, Into, Buckets
<1>5. UNCHANGED payoutVars
  BY DEF CreateEarning
<1>6. \A bucket \in Buckets : balance[bucket] \in Int
  BY <1>1
<1> HIDE DEF new
<1>7. ASSUME NEW status \in {"PENDING", "AVAILABLE"}
      PROVE balance'[status] = balance[status] - (IF earning[e].status = status THEN LeftOf(e) ELSE 0)
                                               + (IF new.status = status THEN new.net - new.reversed ELSE 0)
  <2>1. status \in Buckets /\ balance[status] \in Int
    BY <1>6 DEF Buckets
  <2> QED
    BY <1>1, <1>2, <1>4, <2>1
<1>8. new.reversed <= new.net
  BY <1>1, <1>2
<1> QED
  BY <1>2, <1>3, <1>4, <1>5, <1>7, <1>8, EarningStep

LEMMA HoldEndsKeeps == ASSUME IInv, NEW e \in Earnings, HoldEnds(e) PROVE IInv'
<1> DEFINE new == [earning[e] EXCEPT !.held = FALSE]
<1>1. earning \in [Earnings -> Earning] /\ balance \in [Buckets -> Int] /\ EarningsTyped
  BY DEF IInv, TypeOK, EarningsTyped
<1>2. /\ new \in Earning /\ new.status = earning[e].status /\ new.net = earning[e].net
      /\ new.reversed = earning[e].reversed
  BY <1>1 DEF Earning
<1>3. earning' = [earning EXCEPT ![e] = new] /\ UNCHANGED <<balance, payoutVars>>
  BY <1>1 DEF HoldEnds
<1>4. LeftOf(e) \in Nat /\ earning[e].reversed <= earning[e].net
  BY <1>1, LeftIsNat DEF EarningsTyped
<1>5. earning[e].status = "NONE" => earning[e].reversed = 0
  BY DEF IInv, NewIsWhole
<1>6. \A bucket \in Buckets : balance[bucket] \in Int
  BY <1>1
<1> HIDE DEF new
<1>7. ASSUME NEW status \in {"PENDING", "AVAILABLE"}
      PROVE balance'[status] = balance[status] - (IF earning[e].status = status THEN LeftOf(e) ELSE 0)
                                               + (IF new.status = status THEN new.net - new.reversed ELSE 0)
  <2>1. status \in Buckets /\ balance[status] \in Int
    BY <1>6 DEF Buckets
  <2>2. new.net - new.reversed = LeftOf(e)
    BY <1>2 DEF LeftOf
  <2> QED
    BY <1>2, <1>3, <1>4, <2>1, <2>2
<1>8. new.reversed <= new.net /\ (new.status = "NONE" => new.reversed = 0) /\ balance' = balance
  BY <1>2, <1>3, <1>4, <1>5
<1> QED
  BY <1>1, <1>2, <1>3, <1>7, <1>8, EarningStep

LEMMA DisputeKeeps == ASSUME IInv, NEW e \in Earnings, Dispute(e) PROVE IInv'
<1> DEFINE new == [earning[e] EXCEPT !.disputed = ~@]
<1>1. earning \in [Earnings -> Earning] /\ balance \in [Buckets -> Int] /\ EarningsTyped
  BY DEF IInv, TypeOK, EarningsTyped
<1>2. /\ new \in Earning /\ new.status = earning[e].status /\ new.net = earning[e].net
      /\ new.reversed = earning[e].reversed
  BY <1>1 DEF Earning
<1>3. earning' = [earning EXCEPT ![e] = new] /\ UNCHANGED <<balance, payoutVars>>
  BY <1>1 DEF Dispute
<1>4. LeftOf(e) \in Nat /\ earning[e].reversed <= earning[e].net
  BY <1>1, LeftIsNat DEF EarningsTyped
<1>5. earning[e].status = "NONE" => earning[e].reversed = 0
  BY DEF IInv, NewIsWhole
<1>6. \A bucket \in Buckets : balance[bucket] \in Int
  BY <1>1
<1> HIDE DEF new
<1>7. ASSUME NEW status \in {"PENDING", "AVAILABLE"}
      PROVE balance'[status] = balance[status] - (IF earning[e].status = status THEN LeftOf(e) ELSE 0)
                                               + (IF new.status = status THEN new.net - new.reversed ELSE 0)
  <2>1. status \in Buckets /\ balance[status] \in Int
    BY <1>6 DEF Buckets
  <2>2. new.net - new.reversed = LeftOf(e)
    BY <1>2 DEF LeftOf
  <2> QED
    BY <1>2, <1>3, <1>4, <2>1, <2>2
<1>8. new.reversed <= new.net /\ (new.status = "NONE" => new.reversed = 0) /\ balance' = balance
  BY <1>2, <1>3, <1>4, <1>5
<1> QED
  BY <1>1, <1>2, <1>3, <1>7, <1>8, EarningStep

LEMMA ReleaseKeeps == ASSUME IInv, NEW e \in Earnings, Release(e) PROVE IInv'
<1> DEFINE new == [earning[e] EXCEPT !.status = "AVAILABLE"]
<1>1. earning \in [Earnings -> Earning] /\ balance \in [Buckets -> Int] /\ EarningsTyped
  BY DEF IInv, TypeOK, EarningsTyped
<1>2. /\ new \in Earning /\ new.status = "AVAILABLE" /\ new.net = earning[e].net
      /\ new.reversed = earning[e].reversed
  BY <1>1 DEF Earning
<1>3. /\ earning' = [earning EXCEPT ![e] = new] /\ UNCHANGED payoutVars /\ earning[e].status = "PENDING"
      /\ balance' = [balance EXCEPT !["PENDING"] = @ - LeftOf(e), !["AVAILABLE"] = @ + LeftOf(e)]
  BY <1>1 DEF Release, Move, ReleasedAmount
<1>4. LeftOf(e) \in Nat /\ earning[e].reversed <= earning[e].net
  BY <1>1, LeftIsNat DEF EarningsTyped
<1>5. \A bucket \in Buckets : balance[bucket] \in Int
  BY <1>1
<1>6. /\ balance' \in [Buckets -> Int]
      /\ balance'["PENDING"] = balance["PENDING"] - LeftOf(e)
      /\ balance'["AVAILABLE"] = balance["AVAILABLE"] + LeftOf(e)
      /\ \A bucket \in {"RESERVED", "WITHDRAWN"} : balance'[bucket] = balance[bucket]
  BY <1>1, <1>3, <1>4, <1>5 DEF Buckets
<1> HIDE DEF new
<1>7. ASSUME NEW status \in {"PENDING", "AVAILABLE"}
      PROVE balance'[status] = balance[status] - (IF earning[e].status = status THEN LeftOf(e) ELSE 0)
                                               + (IF new.status = status THEN new.net - new.reversed ELSE 0)
  <2>1. status \in Buckets /\ balance[status] \in Int
    BY <1>5 DEF Buckets
  <2>2. new.net - new.reversed = LeftOf(e)
    BY <1>2 DEF LeftOf
  <2> QED
    BY <1>2, <1>3, <1>4, <1>6, <2>1, <2>2
<1>8. new.reversed <= new.net /\ new.status # "NONE"
  BY <1>2, <1>4
<1> QED
  BY <1>2, <1>3, <1>6, <1>7, <1>8, EarningStep

LEMMA ReverseKeeps ==
  ASSUME IInv, NEW e \in Earnings, NEW amount \in Amounts, Reverse(e, amount) PROVE IInv'
<1> DEFINE taken == Taken(e, amount)
           new == [earning[e] EXCEPT !.reversed = @ + taken,
                                     !.status = IF taken = LeftOf(e) THEN "REVERSED" ELSE @]
<1>1. earning \in [Earnings -> Earning] /\ balance \in [Buckets -> Int] /\ EarningsTyped
  BY DEF IInv, TypeOK, EarningsTyped
<1>2. taken \in Nat /\ taken <= LeftOf(e) /\ LeftOf(e) \in Nat /\ earning[e].net \in Nat /\ earning[e].reversed \in Nat
  BY <1>1, TakenFits, LeftIsNat DEF IInv
<1>3. /\ earning[e].status \in {"PENDING", "AVAILABLE"} /\ UNCHANGED payoutVars
      /\ earning' = [earning EXCEPT ![e].reversed = @ + taken,
                                    ![e].status = IF taken = LeftOf(e) THEN "REVERSED" ELSE @]
      /\ balance' = [balance EXCEPT ![ReversedBucket(e)] = @ + (-taken)]
  BY DEF Reverse, Into
<1>4. ReversedBucket(e) = earning[e].status
  BY <1>3 DEF ReversedBucket
<1> HIDE DEF taken
<1>5. earning' = [earning EXCEPT ![e] = new]
  BY <1>1, <1>3
<1>6. /\ new.net = earning[e].net /\ new.reversed = earning[e].reversed + taken
      /\ new.status = IF taken = LeftOf(e) THEN "REVERSED" ELSE earning[e].status
  BY <1>1 DEF Earning
<1>7. new \in Earning
  <2>1. earning[e].reversed + taken \in Nat /\ earning[e] \in Earning
    BY <1>1, <1>2
  <2>2. (IF taken = LeftOf(e) THEN "REVERSED" ELSE earning[e].status) \in {"NONE", "PENDING", "AVAILABLE", "REVERSED"}
    BY <1>3
  <2> QED
    BY <2>1, <2>2 DEF Earning
<1> HIDE DEF new
<1>8. new.reversed <= new.net /\ new.net - new.reversed = LeftOf(e) - taken
  BY <1>2, <1>6 DEF LeftOf
<1>9. \A bucket \in Buckets : balance[bucket] \in Int
  BY <1>1
<1>10. /\ balance' \in [Buckets -> Int]
       /\ balance'[earning[e].status] = balance[earning[e].status] - taken
       /\ \A bucket \in Buckets \ {earning[e].status} : balance'[bucket] = balance[bucket]
  BY <1>1, <1>2, <1>3, <1>4, <1>9 DEF Buckets
<1>11. ASSUME NEW status \in {"PENDING", "AVAILABLE"}
       PROVE balance'[status] = balance[status] - (IF earning[e].status = status THEN LeftOf(e) ELSE 0)
                                                + (IF new.status = status THEN new.net - new.reversed ELSE 0)
  <2>1. status \in Buckets /\ balance[status] \in Int
    BY <1>9 DEF Buckets
  <2>2. CASE earning[e].status = status
    BY <1>2, <1>3, <1>6, <1>8, <1>10, <2>1, <2>2
  <2>3. CASE earning[e].status # status
    BY <1>2, <1>3, <1>6, <1>10, <2>1, <2>3
  <2> QED
    BY <2>2, <2>3
<1>12. \A bucket \in {"RESERVED", "WITHDRAWN"} : balance'[bucket] = balance[bucket]
  BY <1>3, <1>10 DEF Buckets
<1>13. new.status # "NONE"
  BY <1>3, <1>6
<1> QED
  BY <1>3, <1>5, <1>7, <1>8, <1>10, <1>11, <1>12, <1>13, EarningStep

-----------------------------------------------------------------------------
(* The withdrawals: the earnings stay.                                     *)

InSum(row, statuses) == IF row.status \in statuses THEN row.amount ELSE 0

\* One withdrawal changes from old to new, and the ledger with it.
LEMMA WithdrawalStep ==
  ASSUME TypeOK, BooksAgree, UNCHANGED earning, NEW w \in Withdrawals, NEW new \in Withdrawal,
         withdrawal' = [withdrawal EXCEPT ![w] = new],
         balance' \in [Buckets -> Int],
         balance'["PENDING"] = balance["PENDING"],
         balance'["AVAILABLE"] = balance["AVAILABLE"] + InSum(withdrawal[w], {"PROCESSING", "PAID"})
                                                     - InSum(new, {"PROCESSING", "PAID"}),
         balance'["RESERVED"] = balance["RESERVED"] - InSum(withdrawal[w], {"PROCESSING"})
                                                   + InSum(new, {"PROCESSING"}),
         balance'["WITHDRAWN"] = balance["WITHDRAWN"] - InSum(withdrawal[w], {"PAID"}) + InSum(new, {"PAID"})
  PROVE BooksAgree'
<1>1. EarningsTyped /\ withdrawal \in [Withdrawals -> Withdrawal]
  BY DEF TypeOK, EarningsTyped
<1>2. /\ (withdrawal \in [Withdrawals -> Withdrawal])' /\ withdrawal'[w] = new
      /\ \A v \in Withdrawals \ {w} : withdrawal'[v] = withdrawal[v]
  BY <1>1
<1>3. ASSUME NEW statuses
      PROVE /\ AmountIn(statuses) \in Int
            /\ AmountIn(statuses)' = AmountIn(statuses) - InSum(withdrawal[w], statuses) + InSum(new, statuses)
  BY <1>1, <1>2, WithdrawalMoves DEF InSum
<1>4. ASSUME NEW statuses PROVE InSum(withdrawal[w], statuses) \in Int /\ InSum(new, statuses) \in Int
  BY <1>1 DEF InSum, Withdrawal
<1>5. \A status : LeftIn(status)' = LeftIn(status) /\ LeftIn(status) \in Int
  BY <1>1, EarningsStay, SumsAreInts
<1>6. balance'["PENDING"] = LeftIn("PENDING")'
  BY <1>5 DEF BooksAgree
<1>7. balance'["AVAILABLE"] = LeftIn("AVAILABLE")' - AmountIn({"PROCESSING", "PAID"})'
  <2>1. balance["AVAILABLE"] = LeftIn("AVAILABLE") - AmountIn({"PROCESSING", "PAID"})
    BY DEF BooksAgree
  <2> QED
    BY <1>3, <1>4, <1>5, <2>1
<1>8. balance'["RESERVED"] = AmountIn({"PROCESSING"})'
  BY <1>3 DEF BooksAgree
<1>9. balance'["WITHDRAWN"] = AmountIn({"PAID"})'
  BY <1>3 DEF BooksAgree
<1> QED
  BY <1>6, <1>7, <1>8, <1>9 DEF BooksAgree

LEMMA BooksStay == ASSUME BooksAgree, UNCHANGED <<balance, earning, withdrawal>> PROVE BooksAgree'
BY EarningsStay, WithdrawalsStay DEF BooksAgree

\* A step of one withdrawal leaves what is said of the others.
LEMMA PayoutStep ==
  ASSUME IInv, NEW w \in Withdrawals, UNCHANGED earning, TypeOK', BooksAgree',
         \A v \in Withdrawals \ {w} : /\ withdrawal'[v] = withdrawal[v] /\ stripe'[v] = stripe[v]
                                      /\ at'["runPayout"][v] = at["runPayout"][v]
                                      /\ at'["webhook"][v] = at["webhook"][v],
         InOrder(w)'
  PROVE IInv'
<1>1. NewIsWhole'
  BY DEF IInv, NewIsWhole
<1>2. PayoutsInOrder'
  <2> SUFFICES ASSUME NEW v \in Withdrawals PROVE InOrder(v)'
    BY DEF PayoutsInOrder
  <2>1. CASE v = w
    BY <2>1
  <2>2. CASE v # w
    <3>1. InOrder(v)
      BY DEF IInv, PayoutsInOrder
    <3> QED
      BY <2>2, <3>1 DEF InOrder, StripeInOrder, RunInOrder, WebhookInOrder, EndedInOrder
  <2> QED
    BY <2>1, <2>2
<1> QED
  BY <1>1, <1>2 DEF IInv

\* runPayout or the webhook goes on to a step.
LEMMA GoesOn ==
  ASSUME TypeOK, NEW c \in Callers, NEW w \in Withdrawals, NEW step \in Steps, GoOn(c, w, step)
  PROVE /\ at' \in [Callers -> [Withdrawals -> Steps]] /\ at'[c][w] = step
        /\ \A d \in Callers \ {c} : at'[d][w] = at[d][w]
        /\ \A v \in Withdrawals \ {w} : \A d \in Callers : at'[d][v] = at[d][v]
BY DEF TypeOK, GoOn

\* Only where the two are changes, or what Stripe made of one withdrawal.
LEMMA StripeStep ==
  ASSUME IInv, NEW w \in Withdrawals, UNCHANGED <<bookVars, withdrawal>>,
         at' \in [Callers -> [Withdrawals -> Steps]],
         \A v \in Withdrawals \ {w} : \A d \in Callers : at'[d][v] = at[d][v],
         stripe' \in [Withdrawals -> AtStripe],
         \A v \in Withdrawals \ {w} : stripe'[v] = stripe[v],
         InOrder(w)'
  PROVE IInv'
<1>1. UNCHANGED <<balance, earning, withdrawal>>
  BY DEF bookVars
<1>2. TypeOK'
  BY <1>1 DEF IInv, TypeOK
<1>3. BooksAgree'
  BY <1>1, BooksStay DEF IInv
<1>4. \A v \in Withdrawals \ {w} : /\ withdrawal'[v] = withdrawal[v] /\ stripe'[v] = stripe[v]
                                   /\ at'["runPayout"][v] = at["runPayout"][v]
                                   /\ at'["webhook"][v] = at["webhook"][v]
  BY <1>1 DEF Callers
<1> QED
  BY <1>1, <1>2, <1>3, <1>4, PayoutStep

LEMMA ReserveKeeps ==
  ASSUME IInv, NEW w \in Withdrawals, NEW amount \in Amounts, Reserve(w, amount) PROVE IInv'
<1> DEFINE new == [withdrawal[w] EXCEPT !.status = "PROCESSING", !.amount = amount]
<1>1. /\ withdrawal \in [Withdrawals -> Withdrawal] /\ balance \in [Buckets -> Int] /\ amount \in Nat
      /\ at \in [Callers -> [Withdrawals -> Steps]]
  BY AmountsAssumption DEF IInv, TypeOK
<1>2. /\ new \in Withdrawal /\ new.status = "PROCESSING" /\ new.amount = amount
      /\ new.age = withdrawal[w].age
  BY <1>1 DEF Withdrawal
<1>3. /\ withdrawal[w].status = "NONE" /\ withdrawal' = [withdrawal EXCEPT ![w] = new]
      /\ UNCHANGED <<earning, stripe>>
      /\ balance' = [balance EXCEPT !["AVAILABLE"] = @ - amount, !["RESERVED"] = @ + amount]
      /\ at' = [at EXCEPT !["runPayout"][w] = "transfer"]
  BY <1>1 DEF Reserve, Move
<1> HIDE DEF new
<1>4. /\ balance' \in [Buckets -> Int]
      /\ balance'["PENDING"] = balance["PENDING"] /\ balance'["AVAILABLE"] = balance["AVAILABLE"] - amount
      /\ balance'["RESERVED"] = balance["RESERVED"] + amount /\ balance'["WITHDRAWN"] = balance["WITHDRAWN"]
      /\ \A bucket \in Buckets : balance[bucket] \in Int
  BY <1>1, <1>3 DEF Buckets
<1>5. BooksAgree'
  <2>1. /\ InSum(withdrawal[w], {"PROCESSING", "PAID"}) = 0 /\ InSum(new, {"PROCESSING", "PAID"}) = amount
        /\ InSum(withdrawal[w], {"PROCESSING"}) = 0 /\ InSum(new, {"PROCESSING"}) = amount
        /\ InSum(withdrawal[w], {"PAID"}) = 0 /\ InSum(new, {"PAID"}) = 0
    BY <1>2, <1>3 DEF InSum
  <2>2. /\ balance["AVAILABLE"] \in Int /\ balance["RESERVED"] \in Int /\ balance["WITHDRAWN"] \in Int
    BY <1>4 DEF Buckets
  <2>3. /\ balance'["PENDING"] = balance["PENDING"]
        /\ balance'["AVAILABLE"] = balance["AVAILABLE"] + InSum(withdrawal[w], {"PROCESSING", "PAID"})
                                                        - InSum(new, {"PROCESSING", "PAID"})
        /\ balance'["RESERVED"] = balance["RESERVED"] - InSum(withdrawal[w], {"PROCESSING"})
                                                      + InSum(new, {"PROCESSING"})
        /\ balance'["WITHDRAWN"] = balance["WITHDRAWN"] - InSum(withdrawal[w], {"PAID"}) + InSum(new, {"PAID"})
    BY <1>1, <1>4, <2>1, <2>2
  <2> QED
    BY <1>2, <1>3, <1>4, <2>3, WithdrawalStep DEF IInv
<1>6. GoOn("runPayout", w, "transfer") /\ "runPayout" \in Callers /\ "transfer" \in Steps
  BY <1>3 DEF GoOn, Callers, Steps
<1>7. /\ at' \in [Callers -> [Withdrawals -> Steps]] /\ at'["runPayout"][w] = "transfer"
      /\ \A d \in Callers \ {"runPayout"} : at'[d][w] = at[d][w]
      /\ \A v \in Withdrawals \ {w} : \A d \in Callers : at'[d][v] = at[d][v]
  BY <1>6, GoesOn DEF IInv
<1>8. TypeOK'
  BY <1>1, <1>2, <1>3, <1>4, <1>7 DEF IInv, TypeOK
<1>9. InOrder(w)'
  <2>1. InOrder(w)
    BY DEF IInv, PayoutsInOrder
  <2>2. withdrawal[w].age # "old"
    BY <1>3, <2>1 DEF InOrder, EndedInOrder
  <2> QED
    BY <1>1, <1>2, <1>3, <1>7, <2>1, <2>2 DEF InOrder, StripeInOrder, RunInOrder, WebhookInOrder, EndedInOrder, Callers
<1> QED
  BY <1>1, <1>3, <1>5, <1>7, <1>8, <1>9, PayoutStep DEF Callers

\* A withdrawal that has ended is left alone; one that has not ends once.
LEMMA SettleStep ==
  ASSUME IInv, NEW w \in Withdrawals, NEW outcome \in {"PAID", "FAILED"}, Settle(w, outcome),
         UNCHANGED <<earning, stripe>>,
         at' \in [Callers -> [Withdrawals -> Steps]],
         \A v \in Withdrawals \ {w} : \A d \in Callers : at'[d][v] = at[d][v],
         \A d \in Callers : at'[d][w] \in {at[d][w], "idle"},
         outcome = "PAID" => stripe[w].payout \in {"paid", "returned"},
         outcome = "FAILED" => stripe[w].transfer = "refused" \/ stripe[w].payout \in {"failed", "returned", "refused"}
  PROVE IInv'
<1>1. /\ withdrawal \in [Withdrawals -> Withdrawal] /\ balance \in [Buckets -> Int]
      /\ \A bucket \in Buckets : balance[bucket] \in Int
  BY DEF IInv, TypeOK
<1>2. InOrder(w)
  BY DEF IInv, PayoutsInOrder
<1>3. CASE withdrawal[w].status # "PROCESSING"
  <2>1. UNCHANGED <<withdrawal, balance>>
    BY <1>3 DEF Settle
  <2>2. TypeOK'
    BY <2>1 DEF IInv, TypeOK
  <2>3. BooksAgree'
    BY <2>1, BooksStay DEF IInv
  <2>4. InOrder(w)'
    BY <1>2, <2>1 DEF InOrder, StripeInOrder, RunInOrder, WebhookInOrder, EndedInOrder, Callers
  <2> QED
    BY <2>1, <2>2, <2>3, <2>4, PayoutStep DEF Callers
<1>4. CASE withdrawal[w].status = "PROCESSING"
  <2> DEFINE new == [withdrawal[w] EXCEPT !.status = outcome]
             amount == withdrawal[w].amount
             to == IF outcome = "PAID" THEN "WITHDRAWN" ELSE "AVAILABLE"
  <2>1. /\ new \in Withdrawal /\ new.status = outcome /\ new.amount = amount /\ amount \in Nat
        /\ new.age = withdrawal[w].age
    BY <1>1 DEF Withdrawal
  <2>2. /\ withdrawal' = [withdrawal EXCEPT ![w] = new]
        /\ balance' = [balance EXCEPT !["RESERVED"] = @ - amount, ![to] = @ + amount]
    BY <1>1, <1>4 DEF Settle, Move
  <2> HIDE DEF new, amount
  <2>3. /\ balance' \in [Buckets -> Int] /\ balance'["PENDING"] = balance["PENDING"]
        /\ balance'["RESERVED"] = balance["RESERVED"] - amount
        /\ outcome = "PAID" => /\ balance'["WITHDRAWN"] = balance["WITHDRAWN"] + amount
                               /\ balance'["AVAILABLE"] = balance["AVAILABLE"]
        /\ outcome = "FAILED" => /\ balance'["AVAILABLE"] = balance["AVAILABLE"] + amount
                                 /\ balance'["WITHDRAWN"] = balance["WITHDRAWN"]
    <3>1. CASE outcome = "PAID"
      BY <1>1, <2>1, <2>2, <3>1 DEF Buckets
    <3>2. CASE outcome = "FAILED"
      BY <1>1, <2>1, <2>2, <3>2 DEF Buckets
    <3> QED
      BY <3>1, <3>2
  <2>4. BooksAgree'
    <3>1. /\ InSum(withdrawal[w], {"PROCESSING", "PAID"}) = amount
          /\ InSum(withdrawal[w], {"PROCESSING"}) = amount /\ InSum(new, {"PROCESSING"}) = 0
          /\ InSum(withdrawal[w], {"PAID"}) = 0
      BY <1>4, <2>1 DEF InSum, amount
    <3>2. InSum(new, {"PROCESSING", "PAID"}) = (IF outcome = "PAID" THEN amount ELSE 0)
          /\ InSum(new, {"PAID"}) = (IF outcome = "PAID" THEN amount ELSE 0)
      BY <2>1 DEF InSum
    <3>3. balance["AVAILABLE"] \in Int /\ balance["RESERVED"] \in Int /\ balance["WITHDRAWN"] \in Int
      BY <1>1 DEF Buckets
    <3>4. /\ balance'["AVAILABLE"] = balance["AVAILABLE"] + InSum(withdrawal[w], {"PROCESSING", "PAID"})
                                                          - InSum(new, {"PROCESSING", "PAID"})
          /\ balance'["RESERVED"] = balance["RESERVED"] - InSum(withdrawal[w], {"PROCESSING"})
                                                        + InSum(new, {"PROCESSING"})
          /\ balance'["WITHDRAWN"] = balance["WITHDRAWN"] - InSum(withdrawal[w], {"PAID"}) + InSum(new, {"PAID"})
      BY <2>1, <2>3, <3>1, <3>2, <3>3
    <3> QED
      BY <2>1, <2>2, <2>3, <3>4, WithdrawalStep DEF IInv
  <2>5. TypeOK'
    BY <1>1, <2>1, <2>2, <2>3 DEF IInv, TypeOK
  <2>6. InOrder(w)'
    BY <1>1, <1>2, <2>1, <2>2 DEF InOrder, StripeInOrder, RunInOrder, WebhookInOrder, EndedInOrder, Callers
  <2> QED
    BY <1>1, <2>2, <2>4, <2>5, <2>6, PayoutStep DEF Callers
<1> QED
  BY <1>3, <1>4

LEMMA SettlePaidKeeps == ASSUME IInv, NEW w \in Withdrawals, SettlePaid(w) PROVE IInv'
<1>1. at["runPayout"][w] = "paid" /\ Settle(w, "PAID") /\ GoOn("runPayout", w, "idle") /\ UNCHANGED <<earning, stripe>>
  BY DEF SettlePaid, Answers
<1>2. /\ at' \in [Callers -> [Withdrawals -> Steps]] /\ at'["runPayout"][w] = "idle"
      /\ \A d \in Callers \ {"runPayout"} : at'[d][w] = at[d][w]
      /\ \A v \in Withdrawals \ {w} : \A d \in Callers : at'[d][v] = at[d][v]
  BY <1>1, GoesOn DEF IInv, Callers, Steps
<1>3. stripe[w].payout \in {"paid", "returned"}
  BY <1>1 DEF IInv, PayoutsInOrder, InOrder, RunInOrder
<1> QED
  BY <1>1, <1>2, <1>3, SettleStep DEF Callers

LEMMA SettleFailedKeeps == ASSUME IInv, NEW c \in Callers, NEW w \in Withdrawals, SettleFailed(c, w) PROVE IInv'
<1>1. at[c][w] = "failed" /\ Settle(w, "FAILED") /\ GoOn(c, w, "idle") /\ UNCHANGED <<earning, stripe>>
  BY DEF SettleFailed, Answers
<1>2. /\ at' \in [Callers -> [Withdrawals -> Steps]] /\ at'[c][w] = "idle"
      /\ \A d \in Callers \ {c} : at'[d][w] = at[d][w]
      /\ \A v \in Withdrawals \ {w} : \A d \in Callers : at'[d][v] = at[d][v]
  BY <1>1, GoesOn DEF IInv, Steps
<1>3. stripe[w].transfer = "refused" \/ stripe[w].payout \in {"failed", "returned", "refused"}
  <2>1. InOrder(w)
    BY DEF IInv, PayoutsInOrder
  <2>2. CASE c = "runPayout"
    BY <1>1, <2>1, <2>2 DEF InOrder, RunInOrder, StripeInOrder
  <2>3. CASE c = "webhook"
    BY <1>1, <2>1, <2>3 DEF InOrder, WebhookInOrder
  <2> QED
    BY <2>2, <2>3 DEF Callers
<1> QED
  BY <1>1, <1>2, <1>3, SettleStep

LEMMA PayoutPaidKeeps == ASSUME IInv, NEW w \in Withdrawals, PayoutPaid(w) PROVE IInv'
BY SettleStep DEF PayoutPaid, IInv, TypeOK

\* The row's flags change, nothing the ledger is about.
LEMMA FlagsStep ==
  ASSUME IInv, NEW w \in Withdrawals, NEW new \in Withdrawal, withdrawal' = [withdrawal EXCEPT ![w] = new],
         new.status = withdrawal[w].status, new.amount = withdrawal[w].amount,
         UNCHANGED <<balance, earning, stripe>>,
         at' \in [Callers -> [Withdrawals -> Steps]],
         \A v \in Withdrawals \ {w} : \A d \in Callers : at'[d][v] = at[d][v],
         InOrder(w)'
  PROVE IInv'
<1>1. withdrawal \in [Withdrawals -> Withdrawal] /\ \A bucket \in Buckets : balance[bucket] \in Int
  BY DEF IInv, TypeOK
<1>2. TypeOK'
  BY <1>1 DEF IInv, TypeOK
<1>3. BooksAgree'
  <2>1. ASSUME NEW statuses PROVE InSum(new, statuses) = InSum(withdrawal[w], statuses) /\ InSum(new, statuses) \in Int
    BY DEF InSum, Withdrawal
  <2>2. /\ balance["PENDING"] \in Int /\ balance["AVAILABLE"] \in Int
        /\ balance["RESERVED"] \in Int /\ balance["WITHDRAWN"] \in Int
    BY <1>1 DEF Buckets
  <2>3. /\ balance'["AVAILABLE"] = balance["AVAILABLE"] + InSum(withdrawal[w], {"PROCESSING", "PAID"})
                                                        - InSum(new, {"PROCESSING", "PAID"})
        /\ balance'["RESERVED"] = balance["RESERVED"] - InSum(withdrawal[w], {"PROCESSING"})
                                                      + InSum(new, {"PROCESSING"})
        /\ balance'["WITHDRAWN"] = balance["WITHDRAWN"] - InSum(withdrawal[w], {"PAID"}) + InSum(new, {"PAID"})
    BY <2>1, <2>2
  <2>4. TypeOK /\ BooksAgree /\ balance' \in [Buckets -> Int]
    BY DEF IInv, TypeOK
  <2> QED
    BY <2>3, <2>4, WithdrawalStep
<1> QED
  BY <1>1, <1>2, <1>3, PayoutStep DEF Callers

LEMMA KeepIdsKeeps == ASSUME IInv, NEW w \in Withdrawals, KeepIds(w) PROVE IInv'
<1> DEFINE new == IF withdrawal[w].status = "PROCESSING"
                    THEN [withdrawal[w] EXCEPT !.transferId = TRUE, !.payoutId = PayoutId(w)]
                    ELSE withdrawal[w]
<1>1. withdrawal \in [Withdrawals -> Withdrawal] /\ PayoutId(w) \in BOOLEAN
  BY DEF IInv, TypeOK, PayoutId, Withdrawal
<1>2. /\ new \in Withdrawal /\ new.status = withdrawal[w].status /\ new.amount = withdrawal[w].amount
      /\ new.age = withdrawal[w].age
  BY <1>1 DEF Withdrawal
<1>3. withdrawal' = [withdrawal EXCEPT ![w] = new]
  <2>1. CASE withdrawal[w].status = "PROCESSING"
    BY <1>1, <2>1 DEF KeepIds
  <2>2. CASE withdrawal[w].status # "PROCESSING"
    BY <1>1, <2>2 DEF KeepIds
  <2> QED
    BY <2>1, <2>2
<1>4. GoOn("runPayout", w, "idle") /\ UNCHANGED <<balance, earning, stripe>>
  BY DEF KeepIds, bookVars
<1> HIDE DEF new
<1>5. /\ at' \in [Callers -> [Withdrawals -> Steps]] /\ at'["runPayout"][w] = "idle"
      /\ \A d \in Callers \ {"runPayout"} : at'[d][w] = at[d][w]
      /\ \A v \in Withdrawals \ {w} : \A d \in Callers : at'[d][v] = at[d][v]
  BY <1>4, GoesOn DEF IInv, Callers, Steps
<1>6. InOrder(w)'
  <2>1. InOrder(w)
    BY DEF IInv, PayoutsInOrder
  <2> QED
    BY <1>1, <1>2, <1>3, <1>4, <1>5, <2>1 DEF InOrder, StripeInOrder, RunInOrder, WebhookInOrder, EndedInOrder, Callers
<1> QED
  BY <1>2, <1>3, <1>4, <1>5, <1>6, FlagsStep

LEMMA AgesKeeps == ASSUME IInv, NEW w \in Withdrawals, Ages(w) PROVE IInv'
<1> DEFINE new == [withdrawal[w] EXCEPT !.age = IF @ = "fresh" THEN "stalled" ELSE "old"]
<1>1. withdrawal \in [Withdrawals -> Withdrawal] /\ at \in [Callers -> [Withdrawals -> Steps]]
  BY DEF IInv, TypeOK
<1>2. new \in Withdrawal /\ new.status = withdrawal[w].status /\ new.amount = withdrawal[w].amount
  BY <1>1 DEF Withdrawal
<1>3. /\ withdrawal' = [withdrawal EXCEPT ![w] = new] /\ UNCHANGED <<balance, earning, at, stripe>>
      /\ at["runPayout"][w] = "idle" /\ withdrawal[w].status = "PROCESSING"
  BY <1>1 DEF Ages, bookVars
<1> HIDE DEF new
<1>4. InOrder(w)'
  <2>1. InOrder(w)
    BY DEF IInv, PayoutsInOrder
  <2> QED
    BY <1>1, <1>2, <1>3, <2>1 DEF InOrder, StripeInOrder, RunInOrder, WebhookInOrder, EndedInOrder
<1> QED
  BY <1>1, <1>2, <1>3, <1>4, FlagsStep

-----------------------------------------------------------------------------
(* The calls to Stripe, and where runPayout and the webhook are.           *)

LEMMA CallTransferKeeps == ASSUME IInv, NEW w \in Withdrawals, CallTransfer(w) PROVE IInv'
<1>1. PICK step \in {"payout", "failed", "idle"} :
        /\ GoOn("runPayout", w, step)
        /\ \/ UNCHANGED stripe /\ step = "idle"
           \/ \E t \in {"made", "refused"} :
                /\ KeyKept(w) /\ stripe[w].transfer # "none" => t = stripe[w].transfer
                /\ stripe' = [stripe EXCEPT ![w].transfer = t]
                /\ step = "payout" => t = "made"
                /\ step = "failed" => t = "refused"
  BY DEF CallTransfer
<1>2. at["runPayout"][w] = "transfer" /\ UNCHANGED <<bookVars, withdrawal>>
  BY DEF CallTransfer, Answers
<1>3. /\ at' \in [Callers -> [Withdrawals -> Steps]] /\ at'["runPayout"][w] = step
      /\ \A d \in Callers \ {"runPayout"} : at'[d][w] = at[d][w]
      /\ \A v \in Withdrawals \ {w} : \A d \in Callers : at'[d][v] = at[d][v]
  BY <1>1, GoesOn DEF IInv, Callers, Steps
<1>4. InOrder(w) /\ KeyKept(w)
  BY <1>2 DEF IInv, PayoutsInOrder, InOrder, RunInOrder, KeyKept
<1>5. stripe \in [Withdrawals -> AtStripe]
  BY DEF IInv, TypeOK
<1>6. CASE UNCHANGED stripe /\ step = "idle"
  <2>1. InOrder(w)'
    BY <1>2, <1>3, <1>4, <1>6 DEF InOrder, StripeInOrder, RunInOrder, WebhookInOrder, EndedInOrder, Callers
  <2> QED
    BY <1>2, <1>3, <1>5, <1>6, <2>1, StripeStep
<1>7. ASSUME NEW t \in {"made", "refused"},
             KeyKept(w) /\ stripe[w].transfer # "none" => t = stripe[w].transfer,
             stripe' = [stripe EXCEPT ![w].transfer = t],
             step = "payout" => t = "made", step = "failed" => t = "refused"
      PROVE IInv'
  <2>1. /\ stripe' \in [Withdrawals -> AtStripe] /\ stripe'[w].transfer = t
        /\ stripe'[w].said = stripe[w].said /\ stripe'[w].payout = stripe[w].payout
        /\ stripe'[w].payouts = stripe[w].payouts
        /\ \A v \in Withdrawals \ {w} : stripe'[v] = stripe[v]
    BY <1>5, <1>7 DEF AtStripe
  <2>2. stripe[w].transfer \in {"none", "made", "refused"} /\ (stripe[w].transfer # "none" => t = stripe[w].transfer)
    BY <1>4, <1>5, <1>7 DEF AtStripe
  <2>3. StripeInOrder(w)'
    BY <1>4, <2>1, <2>2 DEF InOrder, StripeInOrder
  <2>4. RunInOrder(w)'
    BY <1>2, <1>3, <1>4, <1>7, <2>1, <2>2 DEF InOrder, RunInOrder, KeyKept
  <2>5. WebhookInOrder(w)' /\ EndedInOrder(w)'
    BY <1>2, <1>3, <1>4, <2>1, <2>2 DEF InOrder, WebhookInOrder, EndedInOrder, Callers
  <2> QED
    BY <1>2, <1>3, <2>1, <2>3, <2>4, <2>5, StripeStep DEF InOrder
<1> QED
  BY <1>1, <1>6, <1>7

LEMMA CallPayoutKeeps == ASSUME IInv, NEW w \in Withdrawals, CallPayout(w) PROVE IInv'
<1>1. at["runPayout"][w] = "payout" /\ UNCHANGED <<bookVars, withdrawal>>
  BY DEF CallPayout, Answers
<1>2. InOrder(w) /\ KeyKept(w) /\ stripe[w].transfer = "made"
  BY <1>1 DEF IInv, PayoutsInOrder, InOrder, RunInOrder, KeyKept
<1>3. stripe \in [Withdrawals -> AtStripe]
  BY DEF IInv, TypeOK
<1>4. ASSUME NEW step \in {"keepTransfer", "keep", "paid", "takeBack"}, GoOn("runPayout", w, step),
             stripe' \in [Withdrawals -> AtStripe],
             \A v \in Withdrawals \ {w} : stripe'[v] = stripe[v],
             stripe'[w].transfer = stripe[w].transfer,
             StripeInOrder(w)',
             stripe[w].said # "none" => stripe' = stripe,
             step = "paid" => stripe'[w].said = "paid",
             step = "takeBack" => stripe'[w].said \in {"failed", "refused"}
      PROVE IInv'
  <2>1. /\ at' \in [Callers -> [Withdrawals -> Steps]] /\ at'["runPayout"][w] = step
        /\ \A d \in Callers \ {"runPayout"} : at'[d][w] = at[d][w]
        /\ \A v \in Withdrawals \ {w} : \A d \in Callers : at'[d][v] = at[d][v]
    BY <1>4, GoesOn DEF IInv, Callers, Steps
  <2>2. RunInOrder(w)'
    BY <1>1, <1>2, <1>4, <2>1 DEF InOrder, RunInOrder, StripeInOrder, KeyKept
  <2>3. stripe[w].payout = stripe'[w].payout \/ stripe[w].payout = "none"
    BY <1>2, <1>4 DEF InOrder, StripeInOrder
  <2>4. WebhookInOrder(w)' /\ EndedInOrder(w)'
    BY <1>1, <1>2, <1>4, <2>1, <2>3 DEF InOrder, WebhookInOrder, EndedInOrder, Callers
  <2> QED
    BY <1>1, <1>4, <2>1, <2>2, <2>4, StripeStep DEF InOrder
<1>5. ASSUME NEW step \in {"keepTransfer", "keep", "paid", "takeBack"}, GoOn("runPayout", w, step), UNCHANGED stripe,
             step = "paid" => stripe[w].said = "paid",
             step = "takeBack" => stripe[w].said \in {"failed", "refused"}
      PROVE IInv'
  <2>1. StripeInOrder(w)'
    BY <1>2, <1>5 DEF InOrder, StripeInOrder
  <2> QED
    BY <1>3, <1>4, <1>5, <2>1
<1>6. ASSUME NEW p \in {"pending", "paid", "failed", "refused"}, stripe[w].said = "none", Payout(w, p),
             NEW step \in {"keepTransfer", "keep", "paid", "takeBack"}, GoOn("runPayout", w, step),
             step = "paid" => p = "paid",
             step = "takeBack" => p \in {"failed", "refused"}
      PROVE IInv'
  <2>1. stripe' = [stripe EXCEPT ![w].payout = p, ![w].said = p,
                                 ![w].payouts = IF p = "refused" THEN @ ELSE @ + 1]
    BY <1>6 DEF Payout
  <2>2. stripe[w].payouts = 0 /\ stripe[w] \in AtStripe
    BY <1>2, <1>3, <1>6 DEF InOrder, StripeInOrder
  <2> DEFINE new == [stripe[w] EXCEPT !.payout = p, !.said = p, !.payouts = IF p = "refused" THEN @ ELSE @ + 1]
  <2>3. stripe' = [stripe EXCEPT ![w] = new]
    BY <1>3, <2>1, <2>2
  <2>4. /\ new \in AtStripe /\ new.transfer = stripe[w].transfer /\ new.payout = p /\ new.said = p
        /\ new.payouts = IF p = "refused" THEN 0 ELSE 1
    <3>1. /\ new.transfer = stripe[w].transfer /\ new.payout = p /\ new.said = p
          /\ new.payouts = IF p = "refused" THEN 0 ELSE 1
      BY <2>2 DEF AtStripe
    <3>2. (IF p = "refused" THEN stripe[w].payouts ELSE stripe[w].payouts + 1) \in Nat
      BY <2>2
    <3>3. new \in AtStripe
      BY <1>6, <2>2, <3>2 DEF AtStripe
    <3> QED
      BY <3>1, <3>3
  <2> HIDE DEF new
  <2>5. /\ stripe' \in [Withdrawals -> AtStripe] /\ stripe'[w] = new
        /\ \A v \in Withdrawals \ {w} : stripe'[v] = stripe[v]
    BY <1>3, <2>3, <2>4
  <2>6. StripeInOrder(w)'
    BY <1>2, <1>6, <2>4, <2>5 DEF StripeInOrder
  <2> QED
    BY <1>4, <1>6, <2>4, <2>5, <2>6
<1>7. CASE GoOn("runPayout", w, NoAnswer) /\ UNCHANGED stripe
  BY <1>5, <1>7 DEF NoAnswer
<1>8. ASSUME NEW p \in {"pending", "paid", "failed", "refused"},
             IF KeyKept(w) /\ stripe[w].said # "none"
               THEN p = stripe[w].said /\ UNCHANGED stripe
               ELSE Payout(w, p),
             \/ GoOn("runPayout", w, CASE p = "pending" -> "keep"
                                         [] p = "paid"    -> "paid"
                                         [] OTHER         -> "takeBack")
             \/ GoOn("runPayout", w, NoAnswer)
      PROVE IInv'
  <2>1. PICK step \in {"keepTransfer", "keep", "paid", "takeBack"} :
          /\ GoOn("runPayout", w, step)
          /\ step = "paid" => p = "paid"
          /\ step = "takeBack" => p \in {"failed", "refused"}
    <3>1. CASE GoOn("runPayout", w, NoAnswer)
      BY <3>1 DEF NoAnswer
    <3>2. CASE GoOn("runPayout", w, CASE p = "pending" -> "keep"
                                      [] p = "paid"    -> "paid"
                                      [] OTHER         -> "takeBack")
      <4>1. CASE p = "pending"
        BY <3>2, <4>1
      <4>2. CASE p = "paid"
        BY <3>2, <4>2
      <4>3. CASE p \in {"failed", "refused"}
        BY <3>2, <4>3
      <4> QED
        BY <4>1, <4>2, <4>3
    <3> QED
      BY <1>8, <3>1, <3>2
  <2>2. CASE stripe[w].said # "none"
    BY <1>2, <1>5, <1>8, <2>1, <2>2
  <2>3. CASE stripe[w].said = "none"
    BY <1>6, <1>8, <2>1, <2>3
  <2> QED
    BY <2>2, <2>3
<1> QED
  BY <1>7, <1>8 DEF CallPayout

LEMMA PayoutDecidedKeeps == ASSUME IInv, NEW w \in Withdrawals, PayoutDecided(w) PROVE IInv'
<1>1. PICK p \in {"paid", "failed", "returned"} :
        /\ stripe' = [stripe EXCEPT ![w].payout = p]
        /\ \/ stripe[w].payout = "pending" /\ p \in {"paid", "failed"}
           \/ stripe[w].payout = "paid" /\ p = "returned"
  BY DEF PayoutDecided
<1>2. UNCHANGED <<bookVars, withdrawal, at>>
  BY DEF PayoutDecided
<1>3. stripe \in [Withdrawals -> AtStripe] /\ at \in [Callers -> [Withdrawals -> Steps]] /\ InOrder(w)
  BY DEF IInv, TypeOK, PayoutsInOrder
<1>4. /\ stripe' \in [Withdrawals -> AtStripe] /\ stripe'[w].payout = p
      /\ stripe'[w].said = stripe[w].said /\ stripe'[w].transfer = stripe[w].transfer
      /\ stripe'[w].payouts = stripe[w].payouts
      /\ \A v \in Withdrawals \ {w} : stripe'[v] = stripe[v]
  BY <1>1, <1>3 DEF AtStripe
<1>5. StripeInOrder(w)'
  BY <1>1, <1>3, <1>4 DEF InOrder, StripeInOrder
<1>6. RunInOrder(w)' /\ WebhookInOrder(w)' /\ EndedInOrder(w)'
  BY <1>1, <1>2, <1>3, <1>4 DEF InOrder, RunInOrder, WebhookInOrder, EndedInOrder
<1> QED
  BY <1>2, <1>3, <1>4, <1>5, <1>6, StripeStep DEF InOrder

\* The transfer goes back: nothing here is about that.
LEMMA BackStep ==
  ASSUME IInv, NEW w \in Withdrawals, stripe' = [stripe EXCEPT ![w].back = TRUE]
  PROVE /\ stripe' \in [Withdrawals -> AtStripe] /\ stripe'[w].payout = stripe[w].payout
        /\ stripe'[w].said = stripe[w].said /\ stripe'[w].transfer = stripe[w].transfer
        /\ stripe'[w].payouts = stripe[w].payouts
        /\ \A v \in Withdrawals \ {w} : stripe'[v] = stripe[v]
BY DEF IInv, TypeOK, AtStripe

LEMMA DashboardReversalKeeps == ASSUME IInv, NEW w \in Withdrawals, DashboardReversal(w) PROVE IInv'
<1>1. stripe' = [stripe EXCEPT ![w].back = TRUE] /\ UNCHANGED <<bookVars, withdrawal, at>>
  BY DEF DashboardReversal
<1>2. /\ stripe' \in [Withdrawals -> AtStripe] /\ stripe'[w].payout = stripe[w].payout
      /\ stripe'[w].said = stripe[w].said /\ stripe'[w].transfer = stripe[w].transfer
      /\ stripe'[w].payouts = stripe[w].payouts
      /\ \A v \in Withdrawals \ {w} : stripe'[v] = stripe[v]
  BY <1>1, BackStep
<1>3. InOrder(w) /\ at \in [Callers -> [Withdrawals -> Steps]]
  BY DEF IInv, TypeOK, PayoutsInOrder
<1>4. InOrder(w)'
  BY <1>1, <1>2, <1>3 DEF InOrder, StripeInOrder, RunInOrder, WebhookInOrder, EndedInOrder
<1> QED
  BY <1>1, <1>2, <1>3, <1>4, StripeStep

LEMMA TakeBackKeeps == ASSUME IInv, NEW c \in Callers, NEW w \in Withdrawals, TakeBack(c, w) PROVE IInv'
<1>1. /\ at[c][w] = "takeBack" /\ stripe' = [stripe EXCEPT ![w].back = TRUE] /\ GoOn(c, w, "failed")
      /\ UNCHANGED <<bookVars, withdrawal>>
  BY DEF TakeBack, Answers
<1>2. /\ at' \in [Callers -> [Withdrawals -> Steps]] /\ at'[c][w] = "failed"
      /\ \A d \in Callers \ {c} : at'[d][w] = at[d][w]
      /\ \A v \in Withdrawals \ {w} : \A d \in Callers : at'[d][v] = at[d][v]
  BY <1>1, GoesOn DEF IInv, Steps
<1>3. /\ stripe' \in [Withdrawals -> AtStripe] /\ stripe'[w].payout = stripe[w].payout
      /\ stripe'[w].said = stripe[w].said /\ stripe'[w].transfer = stripe[w].transfer
      /\ stripe'[w].payouts = stripe[w].payouts
      /\ \A v \in Withdrawals \ {w} : stripe'[v] = stripe[v]
  BY <1>1, BackStep
<1>4. InOrder(w)
  BY DEF IInv, PayoutsInOrder
<1>5. StripeInOrder(w)' /\ EndedInOrder(w)'
  BY <1>1, <1>3, <1>4 DEF InOrder, StripeInOrder, EndedInOrder
<1>6. RunInOrder(w)' /\ WebhookInOrder(w)'
  <2>1. CASE c = "runPayout"
    BY <1>1, <1>2, <1>3, <1>4, <2>1 DEF InOrder, RunInOrder, WebhookInOrder, Callers
  <2>2. CASE c = "webhook"
    BY <1>1, <1>2, <1>3, <1>4, <2>2 DEF InOrder, RunInOrder, WebhookInOrder, Callers
  <2> QED
    BY <2>1, <2>2 DEF Callers
<1> QED
  BY <1>1, <1>2, <1>3, <1>5, <1>6, StripeStep DEF InOrder

\* Only where runPayout or the webhook is changes.
LEMMA AtStep ==
  ASSUME IInv, NEW c \in Callers, NEW w \in Withdrawals, NEW step \in Steps, GoOn(c, w, step),
         UNCHANGED <<bookVars, withdrawal, stripe>>,
         \/ step = "idle"
         \/ c = "runPayout" /\ step = "transfer" /\ withdrawal[w].age # "old"
         \/ c = "webhook" /\ step \in {"takeBack", "failed"} /\ stripe[w].payout \in {"failed", "returned"}
  PROVE IInv'
<1>1. /\ at' \in [Callers -> [Withdrawals -> Steps]] /\ at'[c][w] = step
      /\ \A d \in Callers \ {c} : at'[d][w] = at[d][w]
      /\ \A v \in Withdrawals \ {w} : \A d \in Callers : at'[d][v] = at[d][v]
  BY GoesOn DEF IInv
<1>2. InOrder(w) /\ stripe \in [Withdrawals -> AtStripe]
  BY DEF IInv, TypeOK, PayoutsInOrder
<1>3. StripeInOrder(w)' /\ EndedInOrder(w)'
  BY <1>2 DEF InOrder, StripeInOrder, EndedInOrder
<1>4. RunInOrder(w)' /\ WebhookInOrder(w)'
  <2>1. CASE c = "runPayout"
    BY <1>1, <1>2, <2>1 DEF InOrder, RunInOrder, WebhookInOrder, Callers
  <2>2. CASE c = "webhook"
    BY <1>1, <1>2, <2>2 DEF InOrder, RunInOrder, WebhookInOrder, Callers
  <2> QED
    BY <2>1, <2>2 DEF Callers
<1> QED
  BY <1>1, <1>2, <1>3, <1>4, StripeStep DEF InOrder

LEMMA PayoutFailedKeeps == ASSUME IInv, NEW w \in Withdrawals, PayoutFailed(w) PROVE IInv'
<1>1. PICK step \in {"takeBack", "failed"} : GoOn("webhook", w, step)
  BY DEF PayoutFailed
<1>2. "webhook" \in Callers /\ step \in Steps
  BY DEF Callers, Steps
<1> QED
  BY <1>1, <1>2, AtStep DEF PayoutFailed

LEMMA StopKeeps == ASSUME IInv, NEW c \in Callers, NEW w \in Withdrawals, Stop(c, w) PROVE IInv'
<1>1. PICK step \in Steps : step = "idle"
  BY DEF Steps
<1>2. GoOn(c, w, step) /\ UNCHANGED <<bookVars, withdrawal, stripe>>
  BY <1>1 DEF Stop
<1> QED
  BY <1>1, <1>2, AtStep

LEMMA ResumeKeeps == ASSUME IInv, NEW w \in Withdrawals, Resume(w) PROVE IInv'
BY AtStep DEF Resume, MayResume, Steps, Callers

-----------------------------------------------------------------------------
LEMMA InitIInv == Init => IInv
<1> SUFFICES ASSUME Init PROVE IInv
  OBVIOUS
<1>1. TypeOK
  <2>1. balance \in [Buckets -> Int] /\ at \in [Callers -> [Withdrawals -> Steps]]
    BY DEF Init, Steps
  <2>2. earning \in [Earnings -> Earning] /\ \A e \in Earnings : earning[e].reversed <= earning[e].net
    BY DEF Init, Earning
  <2>3. withdrawal \in [Withdrawals -> Withdrawal]
    BY DEF Init, Withdrawal
  <2>4. stripe \in [Withdrawals -> AtStripe]
    BY DEF Init, AtStripe
  <2> QED
    BY <2>1, <2>2, <2>3, <2>4 DEF TypeOK
<1>2. NewIsWhole
  BY DEF Init, NewIsWhole
<1>3. BooksAgree
  <2>1. /\ {e \in Earnings : earning[e].status = "PENDING"} = {}
        /\ {e \in Earnings : earning[e].status = "AVAILABLE"} = {}
    BY DEF Init
  <2>2. /\ {w \in Withdrawals : withdrawal[w].status \in {"PROCESSING", "PAID"}} = {}
        /\ {w \in Withdrawals : withdrawal[w].status \in {"PROCESSING"}} = {}
        /\ {w \in Withdrawals : withdrawal[w].status \in {"PAID"}} = {}
    BY DEF Init
  <2>3. LeftIn("PENDING") = 0 /\ LeftIn("AVAILABLE") = 0
    BY <2>1, SumEmpty DEF LeftIn
  <2>4. AmountIn({"PROCESSING", "PAID"}) = 0 /\ AmountIn({"PROCESSING"}) = 0 /\ AmountIn({"PAID"}) = 0
    BY <2>2, SumEmpty DEF AmountIn
  <2>5. \A bucket \in Buckets : balance[bucket] = 0
    BY DEF Init
  <2> QED
    BY <2>3, <2>4, <2>5 DEF BooksAgree, Buckets
<1>4. PayoutsInOrder
  BY DEF Init, PayoutsInOrder, InOrder, StripeInOrder, RunInOrder, WebhookInOrder, EndedInOrder, Callers
<1> QED
  BY <1>1, <1>2, <1>3, <1>4 DEF IInv

LEMMA EarnsKeep == ASSUME IInv, NEW e \in Earnings, Earns(e) PROVE IInv'
BY CreateEarningKeeps, ReverseKeeps, HoldEndsKeeps, DisputeKeeps, ReleaseKeeps DEF Earns

LEMMA WithdrawsKeep == ASSUME IInv, NEW w \in Withdrawals, Withdraws(w) PROVE IInv'
<1>1. ASSUME RunPayout(w) PROVE IInv'
  BY <1>1, CallTransferKeeps, CallPayoutKeeps, KeepIdsKeeps, TakeBackKeeps, SettlePaidKeeps, SettleFailedKeeps
     DEF RunPayout, Callers
<1>2. ASSUME Webhook(w) PROVE IInv'
  BY <1>2, PayoutPaidKeeps, PayoutFailedKeeps, TakeBackKeeps, SettleFailedKeeps DEF Webhook, Callers
<1> QED
  BY <1>1, <1>2, ReserveKeeps, StopKeeps, ResumeKeeps, AgesKeeps, PayoutDecidedKeeps, DashboardReversalKeeps
     DEF Withdraws

LEMMA NextKeeps == IInv /\ [Next]_vars => IInv'
<1> SUFFICES ASSUME IInv, [Next]_vars PROVE IInv'
  OBVIOUS
<1>1. ASSUME UNCHANGED vars PROVE IInv'
  <2>1. UNCHANGED <<balance, earning, withdrawal, at, stripe>>
    BY <1>1 DEF vars, bookVars, payoutVars
  <2>2. TypeOK' /\ NewIsWhole'
    BY <2>1 DEF IInv, TypeOK, NewIsWhole
  <2>3. BooksAgree'
    BY <2>1, BooksStay DEF IInv
  <2>4. PayoutsInOrder'
    BY <2>1, PayoutsStay DEF IInv, payoutVars
  <2> QED
    BY <2>2, <2>3, <2>4 DEF IInv
<1> QED
  BY <1>1, EarnsKeep, WithdrawsKeep DEF Next

LEMMA IInvAlways == Spec => []IInv
BY InitIInv, NextKeeps, PTL DEF Spec

\* The ledger, the rows and the payouts are what the wallet keeps them as, and
\* no earning is reversed by more than it came to.
THEOREM TypeSafety == Spec => []TypeOK
<1>1. IInv => TypeOK
  BY DEF IInv
<1> QED
  BY <1>1, IInvAlways, PTL

\* Whatever comes in, is released, reversed, withdrawn, paid or given back, and
\* wherever the server stops, each bucket of the ledger is what the earnings and
\* the withdrawals say it is, to the cent.
THEOREM LedgerAgreesWithRows == Spec => []BooksAgree
<1>1. IInv => BooksAgree
  BY DEF IInv
<1> QED
  BY <1>1, IInvAlways, PTL

\* However often the sweep runs a payout again, and whichever of Stripe's answers
\* were lost, Stripe makes one payout of a withdrawal.
THEOREM WithdrawalPaidOnce == Spec => []PaidOnce
<1>1. IInv => PaidOnce
  BY DEF IInv, PayoutsInOrder, InOrder, StripeInOrder, PaidOnce
<1> QED
  BY <1>1, IInvAlways, PTL

\* The row says PAID or FAILED only as the bank had it, whichever of runPayout,
\* its repetition and the webhooks came first.
THEOREM RowsEndAsAtTheBank == Spec => []EndedAsAtTheBank
<1>1. IInv => EndedAsAtTheBank
  BY DEF IInv, PayoutsInOrder, InOrder, StripeInOrder, EndedInOrder, EndedAsAtTheBank
<1> QED
  BY <1>1, IInvAlways, PTL

\* Only a reversal takes more out of AVAILABLE than there is: a withdrawal is
\* reserved out of what is there, and a release or a failed one puts in.
THEOREM WithdrawalsNeverOverdraw == Spec => OnlyReversalsOverdraw
<1>1. IInv /\ [Next]_vars =>
        [balance'["AVAILABLE"] < 0 /\ balance'["AVAILABLE"] < balance["AVAILABLE"] =>
           \E e \in Earnings : earning'[e].reversed > earning[e].reversed]_vars
  <2> SUFFICES ASSUME IInv, Next, balance'["AVAILABLE"] < 0, balance'["AVAILABLE"] < balance["AVAILABLE"]
               PROVE \E e \in Earnings : earning'[e].reversed > earning[e].reversed
    OBVIOUS
  <2>1. /\ balance \in [Buckets -> Int] /\ \A bucket \in Buckets : balance[bucket] \in Int
        /\ "AVAILABLE" \in Buckets /\ EarningsTyped /\ withdrawal \in [Withdrawals -> Withdrawal]
    BY DEF IInv, TypeOK, Buckets, EarningsTyped
  <2>2. balance' # balance
    BY <2>1
  <2>3. ASSUME NEW e \in Earnings, Earns(e) PROVE earning'[e].reversed > earning[e].reversed
    <3>1. ASSUME NEW net \in Amounts, CreateEarning(e, net) PROVE FALSE
      BY <2>1, <3>1 DEF CreateEarning, Into, Buckets
    <3>2. ASSUME Release(e) PROVE FALSE
      <4>1. LeftOf(e) \in Nat
        BY <2>1, LeftIsNat
      <4> QED
        BY <2>1, <3>2, <4>1 DEF Release, Move, ReleasedAmount, Buckets
    <3>3. ~HoldEnds(e) /\ ~Dispute(e)
      BY <2>2 DEF HoldEnds, Dispute
    <3>4. ASSUME NEW amount \in Amounts, Reverse(e, amount) PROVE earning'[e].reversed > earning[e].reversed
      <4> DEFINE taken == Taken(e, amount)
      <4>1. taken \in Nat /\ taken > 0
        BY <3>4, TakenFits DEF IInv, Reverse
      <4>2. earning' = [earning EXCEPT ![e].reversed = @ + taken,
                                       ![e].status = IF taken = LeftOf(e) THEN "REVERSED" ELSE @]
        BY <3>4 DEF Reverse
      <4>3. earning[e] \in Earning /\ earning[e].reversed \in Nat /\ earning \in [Earnings -> Earning]
        BY <2>1, LeftIsNat DEF EarningsTyped
      <4> HIDE DEF taken
      <4>4. earning'[e].reversed = earning[e].reversed + taken
        BY <4>2, <4>3 DEF Earning
      <4> QED
        BY <4>1, <4>3, <4>4
    <3> QED
      BY <2>3, <3>1, <3>2, <3>3, <3>4 DEF Earns
  <2>4. ASSUME NEW w \in Withdrawals, Withdraws(w) PROVE FALSE
    <3>1. ASSUME NEW amount \in Amounts, Reserve(w, amount) PROVE FALSE
      <4>1. amount \in Nat /\ amount <= balance["AVAILABLE"]
        BY <3>1, AmountsAssumption DEF Reserve, Enough
      <4>2. balance' = [balance EXCEPT !["AVAILABLE"] = @ - amount, !["RESERVED"] = @ + amount]
        BY <3>1 DEF Reserve, Move
      <4> QED
        BY <2>1, <4>1, <4>2 DEF Buckets
    <3>2. ASSUME NEW outcome \in {"PAID", "FAILED"}, Settle(w, outcome) PROVE FALSE
      <4>1. balance' = [balance EXCEPT !["RESERVED"] = @ - withdrawal[w].amount,
                                       ![IF outcome = "PAID" THEN "WITHDRAWN" ELSE "AVAILABLE"]
                                         = @ + withdrawal[w].amount]
        BY <2>2, <3>2 DEF Settle, Move
      <4>2. withdrawal[w].amount \in Nat
        BY <2>1 DEF Withdrawal
      <4> QED
        BY <2>1, <4>1, <4>2 DEF Buckets
    <3>3. /\ ~SettlePaid(w) /\ ~PayoutPaid(w)
          /\ \A c \in Callers : ~SettleFailed(c, w)
      BY <3>2 DEF SettlePaid, PayoutPaid, SettleFailed
    <3>4. /\ ~CallTransfer(w) /\ ~CallPayout(w) /\ ~KeepIds(w) /\ ~PayoutFailed(w) /\ ~Resume(w)
          /\ ~Ages(w) /\ ~PayoutDecided(w) /\ ~DashboardReversal(w)
          /\ \A c \in Callers : ~TakeBack(c, w) /\ ~Stop(c, w)
      BY <2>2 DEF CallTransfer, CallPayout, KeepIds, PayoutFailed, Resume, Ages, PayoutDecided,
                  DashboardReversal, TakeBack, Stop, bookVars
    <3> QED
      BY <2>4, <3>1, <3>3, <3>4 DEF Withdraws, RunPayout, Webhook, Callers
  <2> QED
    BY <2>3, <2>4 DEF Next
<1> QED
  BY <1>1, IInvAlways, PTL DEF Spec, OnlyReversalsOverdraw
===============================================================================
