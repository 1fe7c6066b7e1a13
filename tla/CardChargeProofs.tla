-------------------------- MODULE CardChargeProofs --------------------------
(* Proofs about CardCharge, for any top-ups, calls, attempts and cards.       *)
EXTENDS CardCharge, TLAPS, FiniteSetTheorems

\* Calls on a row whose try is counted and not over.
Counted(c) == {w \in Calls : on[w] = c /\ at[w] \in {"numbers", "asks", "answered", "unheard"}}

\* A call that has read its number has read one the row can have.
CallsInStep ==
  \A w \in Calls :
    /\ at[w] = "idle" => on[w] = Fee
    /\ at[w] \in {"asks", "answered", "unheard"} => number[w] \in Numbers

\* The fee's tries are bounded with those still to be counted, and nobody takes
\* back a try somebody else made.
TriesCounted ==
  /\ attempts[Fee] + Cardinality(Uncounted(Fee)) <= MaxAttempts
  /\ \A c \in Charges : Cardinality(Counted(c)) <= attempts[c]

\* Nobody but the call that bought a top-up tries it.
TriedByBuyer ==
  \A t \in TopUps :
    /\ \A v, w \in Calls : on[v] = t /\ on[w] = t => v = w
    /\ \A w \in Uncounted(t) : status[t] = "PENDING" /\ attempts[t] = 0
    /\ status[t] = "none" => attempts[t] = 0 /\ \A w \in Calls : on[w] # t

\* Stripe is asked for a top-up by the call that counted its try.
AskedIsCounted ==
  \A t \in TopUps, n \in Numbers :
    payment[t][n] # "none" => status[t] # "none" /\ Uncounted(t) = {}

\* What Stripe keeps, tells and has told is how its payments ended.
StripeKeeps ==
  /\ \A c \in Charges, n \in Numbers :
       /\ kept[c][n] = "none" <=> payment[c][n] = "none"
       /\ kept[c][n] \in Ended => payment[c][n] = kept[c][n]
       /\ <<c, n>> \in events => payment[c][n] \in Ended
  /\ \A w \in Calls :
       /\ answer[w] # "none" => at[w] = "answered"
       /\ at[w] = "answered" => answer[w] # "none" /\ payment[on[w]][number[w]] # "none"
       /\ answer[w] \in Ended => payment[on[w]][number[w]] = answer[w]

NoMoney(c, n) == payment[c][n] \in {"failed", "none"}

\* One call at work on a row, for the number the row counts; no payment beyond
\* that number, or the next one when an attempt was taken back, and none before
\* it that can still take money.
OneRunning(c) ==
  /\ \A v, w \in Counted(c) : v = w
  /\ \A w \in Counted(c) :
       /\ status[c] \in {"PENDING", "SUCCEEDED"}
       /\ at[w] # "numbers" => number[w] = attempts[c]
       /\ status[c] = "PENDING" => intent[c] # attempts[c]
       /\ status[c] = "SUCCEEDED" => payment[c][attempts[c]] # "none"
  /\ status[c] = "none" => \A n \in Numbers : payment[c][n] = "none"
  /\ status[c] # "SUCCEEDED" => intent[c] <= attempts[c]
  /\ status[c] = "PENDING" => \A n \in Numbers :
       (n < attempts[c] => NoMoney(c, n)) /\ (n > attempts[c] => payment[c][n] = "none")
  /\ status[c] = "FAILED" => \A n \in Numbers :
       (n <= attempts[c] => NoMoney(c, n)) /\ (n > attempts[c] + 1 => payment[c][n] = "none")
  /\ status[c] = "SUCCEEDED" => \E n \in Numbers : \A m \in Numbers \ {n} : NoMoney(c, m)

OneRunningUnlessPassed == \A c \in Charges \ (misjudged \cup passedOver) : OneRunning(c)

RecordedIsPaid ==
  \A c \in Charges : status[c] = "SUCCEEDED" => \E n \in Numbers : payment[c][n] = "succeeded"

IInv ==
  /\ TypeOK
  /\ CallsInStep /\ TriesCounted /\ TriedByBuyer /\ AskedIsCounted
  /\ StripeKeeps /\ OneRunningUnlessPassed /\ RecordedIsPaid

-----------------------------------------------------------------------------
LEMMA CallsAreFinite ==
  ASSUME NEW c
  PROVE /\ IsFiniteSet(Uncounted(c)) /\ Cardinality(Uncounted(c)) \in Nat
        /\ IsFiniteSet(Counted(c)) /\ Cardinality(Counted(c)) \in Nat
<1>1. Uncounted(c) \in SUBSET Calls /\ Counted(c) \in SUBSET Calls
  BY DEF Uncounted, Counted
<1> QED
  BY <1>1, FS_Subset, FS_CardinalityType, CallsAssumption

\* Fewer calls under way, the same tries counted: the counts still agree.
LEMMA NobodyStarts ==
  ASSUME TypeOK, TriesCounted, UNCHANGED attempts,
         \A c \in Charges : Uncounted(c)' \subseteq Uncounted(c) /\ Counted(c)' \subseteq Counted(c)
  PROVE TriesCounted'
<1> SUFFICES ASSUME NEW c \in Charges
             PROVE /\ Cardinality(Uncounted(c)') <= Cardinality(Uncounted(c))
                   /\ Cardinality(Uncounted(c)) \in Nat /\ Cardinality(Uncounted(c)') \in Nat
                   /\ Cardinality(Counted(c)') <= Cardinality(Counted(c))
                   /\ Cardinality(Counted(c)) \in Nat /\ Cardinality(Counted(c)') \in Nat
  <2>1. Fee \in Charges /\ attempts \in [Charges -> 0..MaxAttempts] /\ MaxAttempts \in Nat
    BY BoundsAssumption DEF Charges, TypeOK
  <2> QED
    BY <2>1 DEF TriesCounted
<1>1. /\ IsFiniteSet(Uncounted(c)) /\ IsFiniteSet(Counted(c))
      /\ Cardinality(Uncounted(c)) \in Nat /\ Cardinality(Counted(c)) \in Nat
  BY CallsAreFinite
<1>2. Uncounted(c)' \in SUBSET Uncounted(c) /\ Counted(c)' \in SUBSET Counted(c)
  OBVIOUS
<1>3. IsFiniteSet(Uncounted(c)') /\ IsFiniteSet(Counted(c)')
  BY <1>1, <1>2, FS_Subset
<1> QED
  BY <1>1, <1>2, <1>3, FS_Subset, FS_CardinalityType

\* A call that ends leaves the calls of its row.
LEMMA IdleLeaves ==
  ASSUME TypeOK, NEW w \in Calls, Idle(w)
  PROVE /\ \A c : Uncounted(c)' = Uncounted(c) \ {w}
        /\ \A c : Counted(c)' = Counted(c) \ {w}
BY DEF TypeOK, Idle, Uncounted, Counted

\* A call with a number is counted among those of its row, once.
LEMMA CountedOnce ==
  ASSUME TypeOK, TriesCounted, NEW c \in Charges, NEW w \in Counted(c)
  PROVE attempts[c] >= 1 /\ attempts[c] \in Numbers
<1>1. Cardinality(Counted(c)) \in Nat /\ IsFiniteSet(Counted(c))
  BY CallsAreFinite
<1>2. Cardinality(Counted(c)) # 0
  BY <1>1, FS_EmptySet
<1>3. Cardinality(Counted(c)) <= attempts[c] /\ attempts[c] \in 0..MaxAttempts
  BY DEF TriesCounted, TypeOK
<1> QED
  BY <1>1, <1>2, <1>3, BoundsAssumption DEF Numbers

LEMMA InitIInv == Init => IInv
<1> SUFFICES ASSUME Init PROVE IInv
  OBVIOUS
<1>0. Fee \in Charges /\ TopUps \subseteq Charges /\ 1 \in Numbers /\ Numbers \subseteq 0..MaxAttempts
  BY BoundsAssumption DEF Charges, Numbers
<1>1. TypeOK
  <2>1. attempts \in [Charges -> 0..MaxAttempts] /\ intent \in [Charges -> 0..MaxAttempts]
    BY BoundsAssumption DEF Init
  <2>2. \A t \in TopUps : attempts[t] <= 1
    BY <1>0 DEF Init
  <2>3. card \in 0..MaxCards /\ request \in {"CONFIRMED", "ENGAGED", "ROUTED"}
    BY BoundsAssumption DEF Init
  <2>4. /\ payment \in [Charges -> [Numbers -> Ended \cup {"processing", "none"}]]
        /\ kept \in [Charges -> [Numbers -> Ended \cup {"processing", "none"}]]
    <3>1. PICK start : payment = [c \in Charges |-> [n \in Numbers |->
                         IF c = Fee /\ n = 1 /\ start = "declined" THEN "failed" ELSE "none"]]
      BY DEF Init
    <3>2. kept = payment
      BY DEF Init
    <3> QED
      BY <3>1, <3>2 DEF Ended
  <2>5. paidWith \in [Charges -> [Numbers -> 0..MaxCards]]
    <3>1. PICK start : paidWith = [c \in Charges |-> [n \in Numbers |->
             IF (IF c = Fee /\ n = 1 /\ start = "declined" THEN "failed" ELSE "none") = "none"
             THEN 0 ELSE card]]
      BY DEF Init
    <3>2. 0 \in 0..MaxCards
      BY BoundsAssumption
    <3> QED
      BY <2>3, <3>1, <3>2
  <2>6. /\ status \in [Charges -> {"none", "PENDING", "SUCCEEDED", "FAILED"}]
        /\ provider \in [Charges -> {"none", "STRIPE"}]
    BY DEF Init
  <2>7. events \subseteq Charges \X Numbers
    BY <1>0 DEF Init
  <2>8. /\ at \in [Calls -> {"idle", "reads", "cardless", "starts", "numbers", "asks", "answered", "unheard"}]
        /\ on \in [Calls -> Charges]
        /\ with \in [Calls -> 0..MaxCards]
        /\ number \in [Calls -> 0..MaxAttempts]
        /\ answer \in [Calls -> Ended \cup {"processing", "none"}]
    BY <1>0, BoundsAssumption DEF Init
  <2>9. misjudged \subseteq Charges /\ passedOver \subseteq Charges
    BY DEF Init
  <2> QED
    BY <2>1, <2>2, <2>3, <2>4, <2>5, <2>6, <2>7, <2>8, <2>9 DEF TypeOK
<1>2. CallsInStep
  BY DEF Init, CallsInStep
<1>3. \A c : Uncounted(c) = {} /\ Counted(c) = {}
  BY DEF Init, Uncounted, Counted
<1>4. TriesCounted
  <2>1. Cardinality({}) = 0
    BY FS_EmptySet
  <2>2. attempts[Fee] \in {0, 1} /\ \A c \in Charges : attempts[c] >= 0
    BY <1>0 DEF Init
  <2> QED
    BY <1>3, <2>1, <2>2, BoundsAssumption DEF TriesCounted
<1>5. TriedByBuyer
  BY <1>0, <1>3, RowsAssumption DEF Init, TriedByBuyer
<1>6. StripeKeeps
  BY <1>0 DEF Init, StripeKeeps, Ended
<1>7. OneRunningUnlessPassed
  <2> SUFFICES ASSUME NEW c \in Charges PROVE OneRunning(c)
    BY DEF OneRunningUnlessPassed
  <2>0. PICK start \in {"declined", "cardless", "unreached", "engaged"} :
          LET tried(d) == d = Fee /\ start # "engaged"
              first(d, n) == IF d = Fee /\ n = 1 /\ start = "declined" THEN "failed" ELSE "none"
          IN /\ status = [d \in Charges |-> IF tried(d) THEN "FAILED" ELSE "none"]
             /\ attempts = [d \in Charges |-> IF tried(d) /\ start # "unreached" THEN 1 ELSE 0]
             /\ intent = [d \in Charges |-> IF first(d, 1) = "failed" THEN 1 ELSE 0]
             /\ payment = [d \in Charges |-> [n \in Numbers |-> first(d, n)]]
    BY DEF Init
  <2>1. status[c] \in {"none", "FAILED"} /\ attempts[c] \in {0, 1} /\ intent[c] <= attempts[c]
    BY <2>0
  <2>2. status[c] = "none" => \A n \in Numbers : payment[c][n] = "none"
    BY <2>0
  <2>3. \A n \in Numbers : NoMoney(c, n) /\ (n > 1 => payment[c][n] = "none")
    BY DEF Init, NoMoney
  <2> QED
    BY <1>3, <2>1, <2>2, <2>3 DEF OneRunning, Numbers
<1>8. RecordedIsPaid
  BY DEF Init, RecordedIsPaid
<1>9. AskedIsCounted
  BY <1>0, RowsAssumption DEF Init, AskedIsCounted
<1> QED
  BY <1>9, <1>1, <1>2, <1>4, <1>5, <1>6, <1>7, <1>8 DEF IInv

-----------------------------------------------------------------------------
\* A row that stays as it is, its payments too, with no other call at work on it.
LEMMA RowStands ==
  ASSUME NEW c \in Charges, OneRunning(c),
         UNCHANGED <<status[c], attempts[c], intent[c], payment[c]>>,
         \A w \in Counted(c)' :
           /\ w \in Counted(c)
           /\ at'[w] # "numbers" => at[w] # "numbers" /\ number'[w] = number[w]
  PROVE OneRunning(c)'
<1>1. \A v, w \in Counted(c)' : v = w
  BY DEF OneRunning
<1>2. \A w \in Counted(c)' :
       /\ status'[c] \in {"PENDING", "SUCCEEDED"}
       /\ at'[w] # "numbers" => number'[w] = attempts'[c]
       /\ status'[c] = "PENDING" => intent'[c] # attempts'[c]
       /\ status'[c] = "SUCCEEDED" => payment'[c][attempts'[c]] # "none"
  BY DEF OneRunning
<1> QED
  BY <1>1, <1>2 DEF OneRunning, NoMoney

\* No row, payment or event changes, fewer calls are under way: what was said
\* of the rows stays.
LEMMA RowsStand ==
  ASSUME IInv, UNCHANGED <<rowVars, payment, historyVars>>,
         \A c \in Charges : Uncounted(c)' \subseteq Uncounted(c) /\ Counted(c)' \subseteq Counted(c),
         \A v \in Calls, t \in TopUps : on'[v] = t => on[v] = t,
         \A c \in Charges : \A w \in Counted(c)' :
           at'[w] # "numbers" => at[w] # "numbers" /\ number'[w] = number[w]
  PROVE TriesCounted' /\ TriedByBuyer' /\ AskedIsCounted' /\ OneRunningUnlessPassed' /\ RecordedIsPaid'
<1>0. TopUps \subseteq Charges
  BY DEF Charges
<1>1. TriesCounted'
  BY NobodyStarts DEF IInv, rowVars
<1>2. TriedByBuyer'
  BY <1>0 DEF IInv, TriedByBuyer, rowVars
<1>3. OneRunningUnlessPassed'
  <2> SUFFICES ASSUME NEW c \in Charges \ (misjudged \cup passedOver), OneRunning(c)
               PROVE OneRunning(c)'
    BY DEF IInv, OneRunningUnlessPassed, historyVars
  <2> QED
    BY RowStands DEF rowVars
<1>4. RecordedIsPaid'
  BY DEF IInv, RecordedIsPaid, rowVars
<1>5. AskedIsCounted'
  BY <1>0 DEF IInv, AskedIsCounted, rowVars
<1> QED
  BY <1>1, <1>2, <1>3, <1>4, <1>5

LEMMA StopsKeeps == ASSUME NEW w \in Calls, IInv, Stops(w) PROVE IInv'
<1> USE DEF IInv
<1>0. Fee \in Charges /\ Fee \notin TopUps
  BY RowsAssumption DEF Charges
<1>1. TypeOK'
  BY <1>0, BoundsAssumption DEF TypeOK, Stops, Idle, rowVars, stripeVars, historyVars
<1>2. CallsInStep'
  BY DEF TypeOK, CallsInStep, Stops, Idle
<1>3. StripeKeeps'
  BY DEF TypeOK, StripeKeeps, Stops, Idle, stripeVars, Ended
<1>4. TriesCounted' /\ TriedByBuyer' /\ AskedIsCounted' /\ OneRunningUnlessPassed' /\ RecordedIsPaid'
  <2>1. \A c \in Charges : Uncounted(c)' \subseteq Uncounted(c) /\ Counted(c)' \subseteq Counted(c)
    BY IdleLeaves DEF Stops
  <2>2. \A v \in Calls, t \in TopUps : on'[v] = t => on[v] = t
    BY <1>0 DEF TypeOK, Stops, Idle
  <2>3. \A c \in Charges : \A v \in Counted(c)' :
           at'[v] # "numbers" => at[v] # "numbers" /\ number'[v] = number[v]
    BY DEF TypeOK, Stops, Idle, Counted
  <2> QED
    BY <2>1, <2>2, <2>3, RowsStand DEF Stops, stripeVars
<1> QED
  BY <1>1, <1>2, <1>3, <1>4

LEMMA IsRefusedKeeps == ASSUME NEW w \in Calls, IInv, IsRefused(w) PROVE IInv'
<1> USE DEF IInv
<1>0. Fee \in Charges /\ Fee \notin TopUps
  BY RowsAssumption DEF Charges
<1>1. TypeOK'
  BY <1>0, BoundsAssumption DEF TypeOK, IsRefused, Idle, rowVars, stripeVars, historyVars
<1>2. CallsInStep'
  BY DEF TypeOK, CallsInStep, IsRefused, Idle
<1>3. StripeKeeps'
  BY DEF TypeOK, StripeKeeps, IsRefused, Idle, stripeVars, Ended
<1>4. TriesCounted' /\ TriedByBuyer' /\ AskedIsCounted' /\ OneRunningUnlessPassed' /\ RecordedIsPaid'
  <2>1. \A c \in Charges : Uncounted(c)' \subseteq Uncounted(c) /\ Counted(c)' \subseteq Counted(c)
    BY IdleLeaves DEF IsRefused
  <2>2. \A v \in Calls, t \in TopUps : on'[v] = t => on[v] = t
    BY <1>0 DEF TypeOK, IsRefused, Idle
  <2>3. \A c \in Charges : \A v \in Counted(c)' :
           at'[v] # "numbers" => at[v] # "numbers" /\ number'[v] = number[v]
    BY DEF TypeOK, IsRefused, Idle, Counted
  <2> QED
    BY <2>1, <2>2, <2>3, RowsStand DEF IsRefused, stripeVars
<1> QED
  BY <1>1, <1>2, <1>3, <1>4

LEMMA ReadsCardKeeps == ASSUME NEW w \in Calls, IInv, ReadsCard(w) PROVE IInv'
<1> USE DEF IInv
<1>1. TypeOK'
  BY DEF TypeOK, ReadsCard, rowVars, stripeVars, historyVars
<1>2. CallsInStep'
  BY DEF TypeOK, CallsInStep, ReadsCard
<1>3. StripeKeeps'
  BY DEF TypeOK, CallsInStep, StripeKeeps, ReadsCard, stripeVars, Ended
<1>4. TriesCounted' /\ TriedByBuyer' /\ AskedIsCounted' /\ OneRunningUnlessPassed' /\ RecordedIsPaid'
  <2>1. \A c \in Charges : Uncounted(c)' \subseteq Uncounted(c) /\ Counted(c)' \subseteq Counted(c)
    BY DEF TypeOK, ReadsCard, Uncounted, Counted
  <2>2. \A c \in Charges : \A v \in Counted(c)' :
           at'[v] # "numbers" => at[v] # "numbers" /\ number'[v] = number[v]
    BY DEF TypeOK, ReadsCard, Counted
  <2> QED
    BY <2>1, <2>2, RowsStand DEF ReadsCard, stripeVars
<1> QED
  BY <1>1, <1>2, <1>3, <1>4

LEMMA NeverReachesStripeKeeps == ASSUME NEW w \in Calls, IInv, NeverReachesStripe(w) PROVE IInv'
<1> USE DEF IInv
<1>1. TypeOK'
  BY DEF TypeOK, NeverReachesStripe, rowVars, stripeVars, historyVars
<1>2. CallsInStep'
  BY DEF TypeOK, CallsInStep, NeverReachesStripe
<1>3. StripeKeeps'
  BY DEF TypeOK, CallsInStep, StripeKeeps, NeverReachesStripe, stripeVars, Ended
<1>4. TriesCounted' /\ TriedByBuyer' /\ AskedIsCounted' /\ OneRunningUnlessPassed' /\ RecordedIsPaid'
  <2>1. \A c \in Charges : Uncounted(c)' \subseteq Uncounted(c) /\ Counted(c)' \subseteq Counted(c)
    BY DEF TypeOK, NeverReachesStripe, Uncounted, Counted
  <2>2. \A c \in Charges : \A v \in Counted(c)' :
           at'[v] # "numbers" => at[v] # "numbers" /\ number'[v] = number[v]
    BY DEF TypeOK, NeverReachesStripe, Counted
  <2> QED
    BY <2>1, <2>2, RowsStand DEF NeverReachesStripe, stripeVars
<1> QED
  BY <1>1, <1>2, <1>3, <1>4

LEMMA AsksAgainKeeps == ASSUME NEW w \in Calls, IInv, AsksAgain(w) PROVE IInv'
<1> USE DEF IInv
<1>0. /\ on[w] \in Charges /\ number[w] \in Numbers
      /\ kept[on[w]][number[w]] \in Ended \cup {"processing", "none"}
      /\ at[w] = "asks" /\ answer \in [Calls -> Ended \cup {"processing", "none"}]
  BY DEF TypeOK, CallsInStep, AsksAgain
<1>a. \/ at' = [at EXCEPT ![w] = "answered"] /\ answer' = [answer EXCEPT ![w] = kept[on[w]][number[w]]]
      \/ at' = [at EXCEPT ![w] = "unheard"] /\ answer' = answer
  BY DEF AsksAgain, Hears
<1>1. TypeOK'
  <2>1. answer' \in [Calls -> Ended \cup {"processing", "none"}]
    BY <1>0 DEF AsksAgain, Hears
  <2>2. at' \in [Calls -> {"idle", "reads", "cardless", "starts", "numbers", "asks", "answered", "unheard"}]
    BY <1>a DEF TypeOK
  <2> QED
    BY <2>1, <2>2 DEF TypeOK, AsksAgain, rowVars, stripeVars, historyVars
<1>2. CallsInStep'
  BY DEF TypeOK, CallsInStep, AsksAgain, Hears
<1>3. StripeKeeps'
  <2>1. \A c \in Charges, n \in Numbers :
          /\ kept'[c][n] = "none" <=> payment'[c][n] = "none"
          /\ kept'[c][n] \in Ended => payment'[c][n] = kept'[c][n]
          /\ <<c, n>> \in events' => payment'[c][n] \in Ended
    BY DEF StripeKeeps, AsksAgain, stripeVars
  <2>3. /\ kept[on[w]][number[w]] # "none" /\ payment[on[w]][number[w]] # "none"
        /\ kept[on[w]][number[w]] \in Ended => payment[on[w]][number[w]] = kept[on[w]][number[w]]
    BY <1>0 DEF StripeKeeps, AsksAgain
  <2>4. \A v \in Calls :
          /\ answer'[v] # "none" => at'[v] = "answered"
          /\ at'[v] = "answered" => answer'[v] # "none" /\ payment[on[v]][number[v]] # "none"
          /\ answer'[v] \in Ended => payment[on[v]][number[v]] = answer'[v]
    BY <1>0, <1>a, <2>3 DEF TypeOK, StripeKeeps, Ended
  <2> QED
    BY <2>1, <2>4 DEF StripeKeeps, AsksAgain, stripeVars
<1>4. TriesCounted' /\ TriedByBuyer' /\ AskedIsCounted' /\ OneRunningUnlessPassed' /\ RecordedIsPaid'
  <2>1. \A c \in Charges : Uncounted(c)' \subseteq Uncounted(c) /\ Counted(c)' \subseteq Counted(c)
    BY DEF TypeOK, AsksAgain, Uncounted, Counted, Hears
  <2>2. \A c \in Charges : \A v \in Counted(c)' :
           at'[v] # "numbers" => at[v] # "numbers" /\ number'[v] = number[v]
    BY DEF TypeOK, AsksAgain, Counted, Hears
  <2> QED
    BY <2>1, <2>2, RowsStand DEF AsksAgain, stripeVars
<1> QED
  BY <1>1, <1>2, <1>3, <1>4

LEMMA SaveCardKeeps == ASSUME IInv, SaveCard PROVE IInv'
<1> USE DEF IInv
<1>1. TypeOK'
  BY BoundsAssumption DEF TypeOK, SaveCard, rowVars, callVars, stripeVars, historyVars
<1>2. CallsInStep'
  BY DEF CallsInStep, SaveCard, callVars
<1>3. StripeKeeps'
  BY DEF StripeKeeps, SaveCard, callVars, stripeVars
<1>4. TriesCounted' /\ TriedByBuyer' /\ AskedIsCounted' /\ OneRunningUnlessPassed' /\ RecordedIsPaid'
  BY RowsStand DEF SaveCard, callVars, stripeVars, Uncounted, Counted
<1> QED
  BY <1>1, <1>2, <1>3, <1>4

LEMMA LapseUnpaidKeeps == ASSUME IInv, LapseUnpaid PROVE IInv'
<1> USE DEF IInv
<1>1. TypeOK'
  BY BoundsAssumption DEF TypeOK, LapseUnpaid, rowVars, callVars, stripeVars, historyVars
<1>2. CallsInStep'
  BY DEF CallsInStep, LapseUnpaid, callVars
<1>3. StripeKeeps'
  BY DEF StripeKeeps, LapseUnpaid, callVars, stripeVars
<1>4. TriesCounted' /\ TriedByBuyer' /\ AskedIsCounted' /\ OneRunningUnlessPassed' /\ RecordedIsPaid'
  BY RowsStand DEF LapseUnpaid, callVars, stripeVars, Uncounted, Counted
<1> QED
  BY <1>1, <1>2, <1>3, <1>4

LEMMA ReadsNumberKeeps == ASSUME NEW w \in Calls, IInv, ReadsNumber(w) PROVE IInv'
<1> USE DEF IInv
<1>0. w \in Counted(on[w]) /\ on[w] \in Charges
  BY DEF TypeOK, ReadsNumber, Counted
<1>1. attempts[on[w]] \in Numbers /\ attempts[on[w]] \in 0..MaxAttempts
  BY <1>0, CountedOnce DEF TypeOK
<1>2. TypeOK'
  BY <1>1 DEF TypeOK, ReadsNumber, rowVars, stripeVars, historyVars
<1>3. CallsInStep'
  BY <1>1 DEF TypeOK, CallsInStep, ReadsNumber
<1>4. StripeKeeps'
  BY DEF TypeOK, StripeKeeps, ReadsNumber, stripeVars, Ended
<1>5. \A c : Uncounted(c)' = Uncounted(c) /\ Counted(c)' = Counted(c)
  BY DEF TypeOK, ReadsNumber, Uncounted, Counted
<1>6. TriesCounted'
  BY <1>5, NobodyStarts DEF ReadsNumber, rowVars
<1>7. TriedByBuyer'
  BY <1>5 DEF TriedByBuyer, ReadsNumber, rowVars
<1>8. OneRunningUnlessPassed'
  <2> SUFFICES ASSUME NEW c \in Charges \ (misjudged \cup passedOver), OneRunning(c)
               PROVE OneRunning(c)'
    BY DEF OneRunningUnlessPassed, ReadsNumber, historyVars
  <2>1. UNCHANGED <<status, attempts, intent, payment>>
    BY DEF ReadsNumber, rowVars, stripeVars
  <2>2. \A v \in Counted(c) : at'[v] # "numbers" => number'[v] = attempts'[c]
    BY <2>1 DEF OneRunning, ReadsNumber, Counted, TypeOK
  <2> QED
    BY <1>5, <2>1, <2>2 DEF OneRunning, NoMoney
<1>9. RecordedIsPaid'
  BY DEF RecordedIsPaid, ReadsNumber, rowVars, stripeVars
<1>p. AskedIsCounted'
  BY <1>5 DEF AskedIsCounted, ReadsNumber, rowVars, stripeVars
<1> QED
  BY <1>p, <1>2, <1>3, <1>4, <1>6, <1>7, <1>8, <1>9

-----------------------------------------------------------------------------
\* A call whose try is counted: there was room for it.
LEMMA TryIsCounted ==
  ASSUME TypeOK, TriesCounted, TriedByBuyer,
         NEW w \in Calls, w \in Uncounted(on[w]),
         attempts' = [attempts EXCEPT ![on[w]] = @ + 1],
         \A c \in Charges : Uncounted(c)' \subseteq Uncounted(c) \ {w},
         \A c \in Charges : Counted(c)' \subseteq IF c = on[w] THEN Counted(c) \cup {w} ELSE Counted(c)
  PROVE /\ TriesCounted'
        /\ attempts[on[w]] + 1 \in Numbers
        /\ attempts' \in [Charges -> 0..MaxAttempts]
        /\ \A t \in TopUps : attempts'[t] <= 1
<1>0. /\ Fee \in Charges /\ Fee \notin TopUps /\ TopUps \subseteq Charges /\ on[w] \in Charges
      /\ attempts \in [Charges -> 0..MaxAttempts] /\ MaxAttempts \in Nat \ {0}
  BY RowsAssumption, BoundsAssumption DEF Charges, TypeOK
<1>1. ASSUME NEW c \in Charges
      PROVE /\ Cardinality(Uncounted(c)) \in Nat /\ Cardinality(Uncounted(c)') \in Nat
            /\ Cardinality(Uncounted(c)') <= IF w \in Uncounted(c) THEN Cardinality(Uncounted(c)) - 1
                                             ELSE Cardinality(Uncounted(c))
            /\ Cardinality(Counted(c)) \in Nat /\ Cardinality(Counted(c)') \in Nat
            /\ Cardinality(Counted(c)') <= IF c = on[w] THEN Cardinality(Counted(c)) + 1
                                           ELSE Cardinality(Counted(c))
  <2> DEFINE more == IF c = on[w] THEN Counted(c) \cup {w} ELSE Counted(c)
  <2>1. /\ IsFiniteSet(Uncounted(c)) /\ Cardinality(Uncounted(c)) \in Nat
        /\ IsFiniteSet(Counted(c)) /\ Cardinality(Counted(c)) \in Nat
    BY CallsAreFinite
  <2>2. /\ IsFiniteSet(Uncounted(c) \ {w})
        /\ Cardinality(Uncounted(c) \ {w}) = IF w \in Uncounted(c) THEN Cardinality(Uncounted(c)) - 1
                                              ELSE Cardinality(Uncounted(c))
    BY <2>1, FS_RemoveElement
  <2>3. Uncounted(c)' \in SUBSET (Uncounted(c) \ {w})
    OBVIOUS
  <2>4. IsFiniteSet(Uncounted(c)') /\ Cardinality(Uncounted(c)') <= Cardinality(Uncounted(c) \ {w})
    BY <2>2, <2>3, FS_Subset
  <2>5. /\ IsFiniteSet(Counted(c) \cup {w})
        /\ Cardinality(Counted(c) \cup {w}) = IF w \in Counted(c) THEN Cardinality(Counted(c))
                                               ELSE Cardinality(Counted(c)) + 1
    BY <2>1, FS_AddElement
  <2>6. /\ IsFiniteSet(more)
        /\ Cardinality(more) <= IF c = on[w] THEN Cardinality(Counted(c)) + 1 ELSE Cardinality(Counted(c))
    BY <2>1, <2>5
  <2>7. Counted(c)' \in SUBSET more
    OBVIOUS
  <2>8. IsFiniteSet(Counted(c)') /\ Cardinality(Counted(c)') <= Cardinality(more)
    BY <2>6, <2>7, FS_Subset
  <2>9. /\ Cardinality(Uncounted(c)') \in Nat /\ Cardinality(Counted(c)') \in Nat
        /\ Cardinality(more) \in Nat /\ Cardinality(Uncounted(c) \ {w}) \in Nat
    BY <2>2, <2>4, <2>6, <2>8, FS_CardinalityType
  <2> QED
    BY <2>1, <2>2, <2>4, <2>6, <2>8, <2>9
<1>2. Cardinality(Uncounted(on[w])) >= 1
  BY <1>0, <1>1
<1>3. CASE on[w] = Fee
  <2>1. attempts[Fee] + 1 <= MaxAttempts
    BY <1>0, <1>1, <1>2, <1>3 DEF TriesCounted
  <2>2. \A t \in TopUps : attempts'[t] = attempts[t]
    BY <1>0, <1>3
  <2>3. attempts'[Fee] = attempts[Fee] + 1 /\ \A c \in Charges : c # Fee => attempts'[c] = attempts[c]
    BY <1>0, <1>3
  <2>4. attempts'[Fee] + Cardinality(Uncounted(Fee)') <= MaxAttempts
    BY <1>0, <1>1, <1>3, <2>3 DEF TriesCounted
  <2>5. \A c \in Charges : Cardinality(Counted(c)') <= attempts'[c]
    BY <1>0, <1>1, <1>3, <2>3 DEF TriesCounted
  <2> QED
    BY <1>0, <1>3, <2>1, <2>2, <2>4, <2>5 DEF TriesCounted, TypeOK, Numbers
<1>4. CASE on[w] # Fee
  <2>1. on[w] \in TopUps
    BY <1>0, <1>4 DEF Charges
  <2>2. attempts[on[w]] = 0
    BY <2>1 DEF TriedByBuyer
  <2>3. attempts'[on[w]] = attempts[on[w]] + 1
        /\ \A c \in Charges : c # on[w] => attempts'[c] = attempts[c]
    BY <1>0
  <2>4. attempts'[Fee] + Cardinality(Uncounted(Fee)') <= MaxAttempts
    BY <1>0, <1>1, <1>4, <2>3 DEF TriesCounted
  <2>5. \A c \in Charges : Cardinality(Counted(c)') <= attempts'[c]
    BY <1>0, <1>1, <2>3 DEF TriesCounted
  <2> QED
    BY <1>0, <2>1, <2>2, <2>3, <2>4, <2>5 DEF TriesCounted, TypeOK, Numbers
<1> QED
  BY <1>3, <1>4

LEMMA StartsKeeps == ASSUME NEW w \in Calls, IInv, Starts(w) PROVE IInv'
<1> DEFINE c == on[w]
<1> USE DEF IInv
<1>0. c \in Charges /\ w \in Uncounted(c) /\ w \notin Counted(c) /\ TopUps \subseteq Charges
  BY DEF TypeOK, Starts, Uncounted, Counted, Charges
<1>1. /\ \A d \in Charges : Uncounted(d)' = Uncounted(d) \ {w}
      /\ \A d \in Charges : Counted(d)' = IF d = c THEN Counted(d) \cup {w} ELSE Counted(d)
  BY DEF TypeOK, Starts, Uncounted, Counted
<1>2. attempts' = [attempts EXCEPT ![c] = @ + 1]
  BY DEF Starts
<1>3. /\ TriesCounted' /\ attempts[c] + 1 \in Numbers
      /\ attempts' \in [Charges -> 0..MaxAttempts] /\ \A t \in TopUps : attempts'[t] <= 1
  BY <1>0, <1>1, <1>2, TryIsCounted
<1>4. TypeOK'
  <2>1. /\ status' \in [Charges -> {"none", "PENDING", "SUCCEEDED", "FAILED"}]
        /\ provider' \in [Charges -> {"none", "STRIPE"}]
        /\ at' \in [Calls -> {"idle", "reads", "cardless", "starts", "numbers", "asks", "answered", "unheard"}]
    BY DEF TypeOK, Starts
  <2> QED
    BY <1>3, <2>1 DEF TypeOK, Starts, stripeVars, historyVars
<1>5. CallsInStep'
  BY DEF TypeOK, CallsInStep, Starts
<1>6. StripeKeeps'
  BY DEF TypeOK, StripeKeeps, Starts, stripeVars, Ended
<1>7. TriedByBuyer'
  <2> SUFFICES ASSUME NEW t \in TopUps
               PROVE /\ \A u, v \in Calls : on'[u] = t /\ on'[v] = t => u = v
                     /\ \A v \in Uncounted(t)' : status'[t] = "PENDING" /\ attempts'[t] = 0
                     /\ status'[t] = "none" => attempts'[t] = 0 /\ \A v \in Calls : on'[v] # t
    BY DEF TriedByBuyer
  <2>1. \A v \in Calls : on[v] = c /\ c = t => v = w
    BY <1>0 DEF TriedByBuyer
  <2>2. CASE t = c
    <3>1. Uncounted(t)' = {}
      BY <1>0, <1>1, <2>1, <2>2 DEF Uncounted
    <3>2. status'[t] = "PENDING"
      BY <1>0, <2>2 DEF Starts, TypeOK
    <3> QED
      BY <3>1, <3>2 DEF TriedByBuyer, Starts
  <2>3. CASE t # c
    <3>1. status'[t] = status[t] /\ attempts'[t] = attempts[t]
      BY <1>0, <2>3 DEF Starts, TypeOK
    <3> QED
      BY <1>0, <1>1, <2>3, <3>1 DEF TriedByBuyer, Starts
  <2> QED
    BY <2>2, <2>3
<1>8. OneRunningUnlessPassed'
  <2> SUFFICES ASSUME NEW d \in Charges \ (misjudged \cup passedOver), OneRunning(d)
               PROVE OneRunning(d)'
    BY DEF OneRunningUnlessPassed, Starts, historyVars
  <2>0. UNCHANGED <<intent, payment, number>>
    BY DEF Starts, stripeVars
  <2>1. CASE d # c
    BY <1>0, <1>1, <2>1, RowStands DEF Starts, TypeOK, stripeVars, Counted
  <2>2. CASE d = c
    <3>1. /\ status'[d] = "PENDING" /\ attempts'[d] = attempts[d] + 1
          /\ attempts[d] \in Nat /\ intent[d] \in Nat /\ at'[w] = "numbers"
      BY <1>0, <2>2, BoundsAssumption DEF Starts, TypeOK
    <3>2. status[d] = "FAILED" \/ (status[d] = "PENDING" /\ attempts[d] = 0)
      BY <2>2 DEF Starts, Startable
    <3>3. Counted(d) = {}
      <4>1. CASE status[d] = "FAILED"
        BY <4>1 DEF OneRunning
      <4>2. CASE attempts[d] = 0
        BY <4>2, CountedOnce
      <4> QED
        BY <3>2, <4>1, <4>2
    <3>4. Counted(d)' = {w}
      BY <1>1, <2>2, <3>3
    <3>5. intent[d] <= attempts[d]
      BY <3>2 DEF OneRunning
    <3>6. \A n \in Numbers :
            (n < attempts'[d] => NoMoney(d, n)) /\ (n > attempts'[d] => payment[d][n] = "none")
      BY <3>1, <3>2 DEF OneRunning, NoMoney, Numbers
    <3>7. NoMoney(d, 1)' = NoMoney(d, 1) /\ \A n : NoMoney(d, n)' = NoMoney(d, n)
      BY <2>0 DEF NoMoney
    <3>8. \A n \in Numbers :
            (n < attempts'[d] => NoMoney(d, n)') /\ (n > attempts'[d] => payment'[d][n] = "none")
      BY <2>0, <3>6, <3>7
    <3> QED
      BY <2>0, <3>1, <3>4, <3>5, <3>8 DEF OneRunning
  <2> QED
    BY <2>1, <2>2
<1>9. RecordedIsPaid'
  BY <1>0 DEF RecordedIsPaid, Starts, TypeOK, stripeVars
<1>p. AskedIsCounted'
  BY <1>0, <1>1 DEF AskedIsCounted, Starts, TypeOK, stripeVars
<1> QED
  BY <1>p, <1>3, <1>4, <1>5, <1>6, <1>7, <1>8, <1>9

LEMMA FailsWithoutAttemptKeeps == ASSUME NEW w \in Calls, IInv, FailsWithoutAttempt(w) PROVE IInv'
<1> DEFINE c == on[w]
<1> USE DEF IInv
<1>0. /\ c \in Charges /\ w \in Uncounted(c) /\ TopUps \subseteq Charges
      /\ Fee \in Charges /\ Fee \notin TopUps
  BY RowsAssumption DEF TypeOK, FailsWithoutAttempt, Uncounted, Charges
<1>a. \A d : w \notin Counted(d)
  BY DEF FailsWithoutAttempt, Counted
<1>1. /\ \A d : Uncounted(d)' = Uncounted(d) \ {w}
      /\ \A d : Counted(d)' = Counted(d)
  BY <1>a, IdleLeaves DEF FailsWithoutAttempt
<1>2. /\ at' \in [Calls -> {"idle", "reads", "cardless", "starts", "numbers", "asks", "answered", "unheard"}]
      /\ on' \in [Calls -> Charges]
      /\ with' \in [Calls -> 0..MaxCards]
      /\ number' \in [Calls -> 0..MaxAttempts]
      /\ answer' \in [Calls -> Ended \cup {"processing", "none"}]
  BY <1>0, BoundsAssumption DEF TypeOK, FailsWithoutAttempt, Idle
<1>3. CallsInStep'
  BY DEF TypeOK, CallsInStep, FailsWithoutAttempt, Idle
<1>4. StripeKeeps'
  BY DEF TypeOK, StripeKeeps, FailsWithoutAttempt, Idle, stripeVars, Ended
<1>5. \A v \in Calls, t \in TopUps : on'[v] = t => on[v] = t
  BY <1>0 DEF TypeOK, FailsWithoutAttempt, Idle
<1>6. \A d : \A v \in Counted(d)' : v \in Counted(d) /\ at'[v] = at[v] /\ number'[v] = number[v]
  BY <1>1, <1>a DEF TypeOK, FailsWithoutAttempt, Idle, Counted
<1>7. CASE ~Startable(c)
  <2>1. UNCHANGED <<rowVars, payment, historyVars>>
    BY <1>7 DEF FailsWithoutAttempt, rowVars, stripeVars, historyVars
  <2>2. TypeOK'
    BY <1>2, <2>1 DEF TypeOK, FailsWithoutAttempt, rowVars, stripeVars, historyVars
  <2>3. TriesCounted' /\ TriedByBuyer' /\ AskedIsCounted' /\ OneRunningUnlessPassed' /\ RecordedIsPaid'
    BY <1>1, <1>5, <1>6, <2>1, RowsStand
  <2> QED
    BY <1>3, <1>4, <2>2, <2>3
<1>8. CASE Startable(c)
  <2>0. /\ status' = [status EXCEPT ![c] = "FAILED"]
        /\ attempts' = [attempts EXCEPT ![c] = @ + 1]
        /\ provider' = [provider EXCEPT ![c] = "none"]
        /\ passedOver' = passedOver \cup {d \in {c} : payment[d][attempts[d] + 1] # "none"}
        /\ UNCHANGED <<intent, payment, paidWith, kept, events, request, card, misjudged>>
    BY <1>8 DEF FailsWithoutAttempt, stripeVars
  <2>1. /\ TriesCounted' /\ attempts[c] + 1 \in Numbers
        /\ attempts' \in [Charges -> 0..MaxAttempts] /\ \A t \in TopUps : attempts'[t] <= 1
    BY <1>0, <1>1, <2>0, TryIsCounted
  <2>2. TypeOK'
    <3>1. /\ status' \in [Charges -> {"none", "PENDING", "SUCCEEDED", "FAILED"}]
          /\ provider' \in [Charges -> {"none", "STRIPE"}]
          /\ passedOver' \subseteq Charges
      BY <1>0, <2>0 DEF TypeOK
    <3> QED
      BY <1>2, <2>0, <2>1, <3>1 DEF TypeOK
  <2>3. TriedByBuyer'
    <3> SUFFICES ASSUME NEW t \in TopUps
                 PROVE /\ \A u, v \in Calls : on'[u] = t /\ on'[v] = t => u = v
                       /\ \A v \in Uncounted(t)' : status'[t] = "PENDING" /\ attempts'[t] = 0
                       /\ status'[t] = "none" => attempts'[t] = 0 /\ \A v \in Calls : on'[v] # t
      BY DEF TriedByBuyer
    <3>1. CASE t = c
      <4>1. \A v \in Calls : on[v] = t => v = w
        BY <1>0, <3>1 DEF TriedByBuyer
      <4>2. Uncounted(t)' = {}
        BY <1>0, <1>1, <4>1 DEF Uncounted
      <4>3. status'[t] = "FAILED"
        BY <1>0, <2>0, <3>1 DEF TypeOK
      <4> QED
        BY <1>5, <4>1, <4>2, <4>3
    <3>2. CASE t # c
      <4>1. status'[t] = status[t] /\ attempts'[t] = attempts[t]
        BY <1>0, <2>0, <3>2 DEF TypeOK
      <4> QED
        BY <1>0, <1>1, <1>5, <4>1 DEF TriedByBuyer
    <3> QED
      BY <3>1, <3>2
  <2>4. OneRunningUnlessPassed'
    <3> SUFFICES ASSUME NEW d \in Charges \ (misjudged \cup passedOver'), OneRunning(d)
                 PROVE OneRunning(d)'
      BY <2>0 DEF OneRunningUnlessPassed
    <3>1. CASE d # c
      <4>1. UNCHANGED <<status[d], attempts[d], intent[d], payment[d]>>
        BY <1>0, <2>0, <3>1 DEF TypeOK
      <4> QED
        BY <1>6, <4>1, RowStands
    <3>2. CASE d = c
      <4>1. /\ status'[d] = "FAILED" /\ attempts'[d] = attempts[d] + 1
            /\ attempts[d] \in Nat /\ intent[d] \in Nat
        BY <1>0, <2>0, <3>2, BoundsAssumption DEF TypeOK
      <4>2. status[d] = "FAILED" \/ (status[d] = "PENDING" /\ attempts[d] = 0)
        BY <1>8, <3>2 DEF Startable
      <4>3. Counted(d)' = {}
        <5>1. CASE status[d] = "FAILED"
          BY <1>1, <5>1 DEF OneRunning
        <5>2. CASE attempts[d] = 0
          BY <1>1, <5>2, CountedOnce
        <5> QED
          BY <4>2, <5>1, <5>2
      <4>4. intent[d] <= attempts[d]
        BY <4>2 DEF OneRunning
      <4>5. payment[d][attempts[d] + 1] = "none"
        BY <2>0, <3>2
      <4>6. \A n \in Numbers :
              (n <= attempts'[d] => NoMoney(d, n)) /\ (n > attempts'[d] + 1 => payment[d][n] = "none")
        BY <4>1, <4>2, <4>5 DEF OneRunning, NoMoney, Numbers
      <4>7. \A n : NoMoney(d, n)' = NoMoney(d, n)
        BY <2>0 DEF NoMoney
      <4>8. \A n \in Numbers :
              (n <= attempts'[d] => NoMoney(d, n)') /\ (n > attempts'[d] + 1 => payment'[d][n] = "none")
        BY <2>0, <4>6, <4>7
      <4> QED
        BY <2>0, <4>1, <4>3, <4>4, <4>8 DEF OneRunning
    <3> QED
      BY <3>1, <3>2
  <2>5. RecordedIsPaid'
    BY <1>0, <2>0 DEF RecordedIsPaid, TypeOK
  <2>p. AskedIsCounted'
    BY <1>0, <1>1, <2>0 DEF AskedIsCounted, TypeOK
  <2> QED
    BY <2>p, <1>3, <1>4, <2>1, <2>2, <2>3, <2>4, <2>5
<1> QED
  BY <1>7, <1>8

LEMMA RetryChargeKeeps == ASSUME NEW w \in Calls, IInv, RetryCharge(w) PROVE IInv'
<1> USE DEF IInv
<1>0. Fee \in Charges /\ Fee \notin TopUps /\ TopUps \subseteq Charges /\ on[w] = Fee
  BY RowsAssumption DEF Charges, RetryCharge, CallsInStep
<1>1. TypeOK'
  BY <1>0 DEF TypeOK, RetryCharge, rowVars, stripeVars, historyVars
<1>2. CallsInStep'
  BY DEF TypeOK, CallsInStep, RetryCharge
<1>3. StripeKeeps'
  BY <1>0 DEF TypeOK, StripeKeeps, RetryCharge, stripeVars, Ended
<1>4. /\ Uncounted(Fee)' = Uncounted(Fee) \cup {w} /\ w \notin Uncounted(Fee)
      /\ \A c : c # Fee => Uncounted(c)' = Uncounted(c)
      /\ \A c : Counted(c)' = Counted(c)
  BY <1>0 DEF TypeOK, RetryCharge, Uncounted, Counted
<1>5. TriesCounted'
  <2>1. IsFiniteSet(Uncounted(Fee))
    BY CallsAreFinite
  <2>2. Cardinality(Uncounted(Fee) \cup {w}) = Cardinality(Uncounted(Fee)) + 1
    BY <1>4, <2>1, FS_AddElement
  <2>3. Cardinality(Uncounted(Fee)) \in Nat /\ attempts[Fee] \in Nat /\ MaxAttempts \in Nat
    BY <1>0, CallsAreFinite, BoundsAssumption DEF TypeOK
  <2> QED
    BY <1>4, <2>2, <2>3 DEF TriesCounted, RetryCharge, rowVars
<1>6. TriedByBuyer'
  BY <1>0, <1>4 DEF TypeOK, TriedByBuyer, RetryCharge, rowVars
<1>7. OneRunningUnlessPassed'
  <2> SUFFICES ASSUME NEW c \in Charges \ (misjudged \cup passedOver), OneRunning(c)
               PROVE OneRunning(c)'
    BY DEF OneRunningUnlessPassed, RetryCharge, historyVars
  <2>1. \A v \in Counted(c)' : v \in Counted(c) /\ at'[v] = at[v] /\ number'[v] = number[v]
    BY <1>4 DEF TypeOK, RetryCharge, Counted
  <2> QED
    BY <2>1, RowStands DEF RetryCharge, rowVars, stripeVars
<1>8. RecordedIsPaid'
  BY DEF RecordedIsPaid, RetryCharge, rowVars, stripeVars
<1>p. AskedIsCounted'
  BY <1>0, <1>4 DEF AskedIsCounted, RetryCharge, rowVars, stripeVars
<1> QED
  BY <1>p, <1>1, <1>2, <1>3, <1>5, <1>6, <1>7, <1>8

LEMMA BuyTopUpKeeps == ASSUME NEW w \in Calls, NEW t \in TopUps, IInv, BuyTopUp(w, t) PROVE IInv'
<1> USE DEF IInv
<1>0. /\ Fee \in Charges /\ Fee \notin TopUps /\ TopUps \subseteq Charges /\ t \in Charges /\ t # Fee
      /\ on[w] = Fee /\ status[t] = "none" /\ attempts[t] = 0 /\ \A v \in Calls : on[v] # t
  BY RowsAssumption DEF Charges, BuyTopUp, CallsInStep, TriedByBuyer
<1>1. TypeOK'
  <2>1. /\ status' \in [Charges -> {"none", "PENDING", "SUCCEEDED", "FAILED"}]
        /\ at' \in [Calls -> {"idle", "reads", "cardless", "starts", "numbers", "asks", "answered", "unheard"}]
        /\ on' \in [Calls -> Charges]
    BY <1>0 DEF TypeOK, BuyTopUp
  <2> QED
    BY <2>1 DEF TypeOK, BuyTopUp, stripeVars, historyVars
<1>2. CallsInStep'
  BY DEF TypeOK, CallsInStep, BuyTopUp
<1>3. StripeKeeps'
  BY <1>0 DEF TypeOK, StripeKeeps, BuyTopUp, stripeVars, Ended
<1>4. /\ \A c : c # t => Uncounted(c)' = Uncounted(c)
      /\ \A c : Counted(c)' = Counted(c)
      /\ Counted(t) = {}
  BY <1>0 DEF TypeOK, BuyTopUp, Uncounted, Counted
<1>5. TriesCounted'
  BY <1>0, <1>4 DEF TriesCounted, BuyTopUp
<1>6. TriedByBuyer'
  <2> SUFFICES ASSUME NEW u \in TopUps
               PROVE /\ \A v, x \in Calls : on'[v] = u /\ on'[x] = u => v = x
                     /\ \A v \in Uncounted(u)' : status'[u] = "PENDING" /\ attempts'[u] = 0
                     /\ status'[u] = "none" => attempts'[u] = 0 /\ \A v \in Calls : on'[v] # u
    BY DEF TriedByBuyer
  <2>1. CASE u = t
    BY <1>0, <2>1 DEF TypeOK, BuyTopUp
  <2>2. CASE u # t
    BY <1>0, <1>4, <2>2 DEF TypeOK, BuyTopUp, TriedByBuyer
  <2> QED
    BY <2>1, <2>2
<1>7. OneRunningUnlessPassed'
  <2> SUFFICES ASSUME NEW c \in Charges \ (misjudged \cup passedOver), OneRunning(c)
               PROVE OneRunning(c)'
    BY DEF OneRunningUnlessPassed, BuyTopUp, historyVars
  <2>0. /\ UNCHANGED <<attempts, intent, payment>>
        /\ \A v \in Counted(c)' : v \in Counted(c) /\ at'[v] = at[v] /\ number'[v] = number[v]
    BY <1>4 DEF TypeOK, BuyTopUp, Counted, stripeVars
  <2>1. CASE c # t
    BY <2>0, <2>1, RowStands DEF BuyTopUp, TypeOK
  <2>2. CASE c = t
    <3>1. /\ status'[c] = "PENDING" /\ attempts[c] = 0 /\ intent[c] <= attempts[c]
          /\ \A n \in Numbers : payment[c][n] = "none"
      BY <1>0, <2>2 DEF BuyTopUp, TypeOK, OneRunning
    <3>2. Counted(c)' = {}
      BY <1>4, <2>2
    <3> QED
      BY <2>0, <3>1, <3>2, BoundsAssumption DEF OneRunning, NoMoney, Numbers
  <2> QED
    BY <2>1, <2>2
<1>8. RecordedIsPaid'
  BY <1>0 DEF RecordedIsPaid, BuyTopUp, TypeOK, stripeVars
<1>p. AskedIsCounted'
  BY <1>0, <1>4 DEF AskedIsCounted, BuyTopUp, TypeOK, stripeVars
<1> QED
  BY <1>p, <1>1, <1>2, <1>3, <1>5, <1>6, <1>7, <1>8

-----------------------------------------------------------------------------
\* A payment of c changes, by the call that makes it or by the bank, and it is
\* the one whose answer can still come.
LEMMA PaymentMoves ==
  ASSUME TypeOK, NEW c \in Charges, NEW n \in Numbers, OneRunning(c),
         UNCHANGED <<status, attempts, intent>>,
         NEW result \in Ended \cup {"processing"},
         payment' = [payment EXCEPT ![c][n] = result],
         \/ status[c] = "PENDING" /\ attempts[c] = n
         \/ payment[c][n] = "processing",
         \A v \in Counted(c)' :
           /\ v \in Counted(c)
           /\ at'[v] # "numbers" => at[v] # "numbers" /\ number'[v] = number[v]
  PROVE OneRunning(c)'
<1>1. /\ payment'[c][n] = result /\ result # "none"
      /\ \A m \in Numbers : m # n => payment'[c][m] = payment[c][m]
  BY DEF TypeOK, Ended
<1>2. \A m \in Numbers : m # n => NoMoney(c, m)' = NoMoney(c, m)
  BY <1>1 DEF NoMoney
<1>3. attempts[c] \in Nat /\ Numbers \subseteq Nat /\ status[c] \in {"none", "PENDING", "SUCCEEDED", "FAILED"}
  BY BoundsAssumption DEF TypeOK, Numbers
<1>4. status[c] = "PENDING" => n = attempts[c]
  BY <1>3 DEF OneRunning, NoMoney
<1>5. status[c] = "FAILED" => n = attempts[c] + 1
  BY <1>3 DEF OneRunning, NoMoney
<1>6. status[c] # "none"
  BY DEF OneRunning
<1>7. status[c] = "SUCCEEDED" => \E k \in Numbers : \A m \in Numbers \ {k} : NoMoney(c, m)'
  <2> SUFFICES ASSUME status[c] = "SUCCEEDED"
               PROVE \E k \in Numbers : \A m \in Numbers \ {k} : NoMoney(c, m)'
    OBVIOUS
  <2>1. PICK k \in Numbers : \A m \in Numbers \ {k} : NoMoney(c, m)
    BY DEF OneRunning
  <2>2. k = n
    BY <2>1 DEF NoMoney
  <2> QED
    BY <1>2, <2>1, <2>2
<1>8. \A v, w \in Counted(c)' : v = w
  BY DEF OneRunning
<1>9. \A w \in Counted(c)' :
        /\ status'[c] \in {"PENDING", "SUCCEEDED"}
        /\ at'[w] # "numbers" => number'[w] = attempts'[c]
        /\ status'[c] = "PENDING" => intent'[c] # attempts'[c]
  BY DEF OneRunning
<1>10. \A w \in Counted(c)' : status'[c] = "SUCCEEDED" => payment'[c][attempts'[c]] # "none"
  <2> SUFFICES ASSUME NEW w \in Counted(c), status[c] = "SUCCEEDED"
               PROVE payment'[c][attempts[c]] # "none"
    OBVIOUS
  <2>1. payment[c][attempts[c]] # "none"
    BY DEF OneRunning
  <2>2. CASE attempts[c] = n
    BY <1>1, <2>2
  <2>3. CASE attempts[c] # n
    BY <2>1, <2>3 DEF TypeOK
  <2> QED
    BY <2>2, <2>3
<1>11. status'[c] = "PENDING" => \A m \in Numbers :
         (m < attempts'[c] => NoMoney(c, m)') /\ (m > attempts'[c] => payment'[c][m] = "none")
  BY <1>1, <1>2, <1>3, <1>4 DEF OneRunning
<1>12. status'[c] = "FAILED" => \A m \in Numbers :
         (m <= attempts'[c] => NoMoney(c, m)') /\ (m > attempts'[c] + 1 => payment'[c][m] = "none")
  BY <1>1, <1>2, <1>3, <1>5 DEF OneRunning
<1>13. status'[c] # "SUCCEEDED" => intent'[c] <= attempts'[c]
  BY DEF OneRunning
<1> QED
  BY <1>6, <1>7, <1>8, <1>9, <1>10, <1>11, <1>12, <1>13 DEF OneRunning

LEMMA DecidesKeeps == ASSUME NEW c \in Charges, NEW n \in Numbers, IInv, Decides(c, n) PROVE IInv'
<1> USE DEF IInv
<1>0. PICK result \in Ended : payment' = [payment EXCEPT ![c][n] = result]
  BY DEF Decides
<1>1. TypeOK'
  BY <1>0 DEF TypeOK, Decides, rowVars, callVars, historyVars
<1>2. CallsInStep'
  BY DEF CallsInStep, Decides, callVars
<1>3. \A d : Uncounted(d)' = Uncounted(d) /\ Counted(d)' = Counted(d)
  BY DEF Decides, callVars, Uncounted, Counted
<1>4. TriesCounted' /\ TriedByBuyer'
  BY <1>3 DEF TriesCounted, TriedByBuyer, Decides, rowVars, callVars
<1>5. \A d \in Charges, m \in Numbers :
        payment'[d][m] = IF d = c /\ m = n THEN result ELSE payment[d][m]
  BY <1>0 DEF TypeOK
<1>6. StripeKeeps'
  <2>1. \A d \in Charges, m \in Numbers :
          /\ kept'[d][m] = "none" <=> payment'[d][m] = "none"
          /\ kept'[d][m] \in Ended => payment'[d][m] = kept'[d][m]
          /\ <<d, m>> \in events' => payment'[d][m] \in Ended
    <3> SUFFICES ASSUME NEW d \in Charges, NEW m \in Numbers
                 PROVE /\ kept[d][m] = "none" <=> payment'[d][m] = "none"
                       /\ kept[d][m] \in Ended => payment'[d][m] = kept[d][m]
                       /\ <<d, m>> \in events' => payment'[d][m] \in Ended
      BY DEF Decides
    <3>0. /\ kept[d][m] = "none" <=> payment[d][m] = "none"
          /\ kept[d][m] \in Ended => payment[d][m] = kept[d][m]
          /\ <<d, m>> \in events => payment[d][m] \in Ended
      BY DEF StripeKeeps
    <3>1. events' = events \cup {<<c, n>>} /\ payment[c][n] = "processing"
      BY DEF Decides
    <3>2. payment'[d][m] = IF d = c /\ m = n THEN result ELSE payment[d][m]
      BY <1>5
    <3> QED
      BY <3>0, <3>1, <3>2 DEF Ended
  <2>2. \A w \in Calls : on[w] \in Charges /\ (at[w] = "answered" => number[w] \in Numbers)
    BY DEF TypeOK, CallsInStep
  <2>3. \A w \in Calls :
          /\ answer'[w] # "none" => at'[w] = "answered"
          /\ at'[w] = "answered" => answer'[w] # "none" /\ payment'[on'[w]][number'[w]] # "none"
          /\ answer'[w] \in Ended => payment'[on'[w]][number'[w]] = answer'[w]
    BY <1>5, <2>2 DEF StripeKeeps, Decides, callVars, Ended
  <2> QED
    BY <2>1, <2>3 DEF StripeKeeps
<1>7. OneRunningUnlessPassed'
  <2> SUFFICES ASSUME NEW d \in Charges \ (misjudged \cup passedOver), OneRunning(d)
               PROVE OneRunning(d)'
    BY DEF OneRunningUnlessPassed, Decides, historyVars
  <2>0. UNCHANGED <<status, attempts, intent, at, number>>
    BY DEF Decides, rowVars, callVars
  <2>1. CASE d # c
    <3>1. payment'[d] = payment[d]
      BY <1>0, <2>1 DEF TypeOK
    <3> QED
      BY <1>3, <2>0, <3>1, RowStands
  <2>2. CASE d = c
    BY <1>0, <1>3, <2>0, <2>2, PaymentMoves DEF Decides
  <2> QED
    BY <2>1, <2>2
<1>8. RecordedIsPaid'
  BY <1>5 DEF RecordedIsPaid, Decides, rowVars
<1>p. AskedIsCounted'
  BY <1>3, <1>5 DEF AskedIsCounted, Decides, rowVars, Charges
<1> QED
  BY <1>p, <1>1, <1>2, <1>4, <1>6, <1>7, <1>8

LEMMA AsksStripeKeeps == ASSUME NEW w \in Calls, IInv, AsksStripe(w) PROVE IInv'
<1> DEFINE c == on[w]
           n == number[w]
<1> USE DEF IInv
<1>0. /\ c \in Charges /\ n \in Numbers /\ at[w] = "asks" /\ payment[c][n] = "none" /\ w \in Counted(c)
      /\ UNCHANGED <<rowVars, request, card, historyVars, on, with, number>>
  BY DEF TypeOK, CallsInStep, AsksStripe, Counted
<1>a. PICK result \in Ended \cup {"processing"} :
        /\ payment' = [payment EXCEPT ![c][n] = result]
        /\ kept' = [kept EXCEPT ![c][n] = result]
        /\ paidWith' = [paidWith EXCEPT ![c][n] = with[w]]
        /\ events' = events \cup (IF result \in Ended THEN {<<c, n>>} ELSE {})
        /\ Hears(w, result)
  BY DEF AsksStripe
<1>b. \/ at' = [at EXCEPT ![w] = "answered"] /\ answer' = [answer EXCEPT ![w] = result]
      \/ at' = [at EXCEPT ![w] = "unheard"] /\ answer' = answer
  BY <1>a DEF Hears
<1>1. TypeOK'
  <2>1. /\ payment' \in [Charges -> [Numbers -> Ended \cup {"processing", "none"}]]
        /\ kept' \in [Charges -> [Numbers -> Ended \cup {"processing", "none"}]]
    BY <1>0, <1>a DEF TypeOK
  <2>2. paidWith' \in [Charges -> [Numbers -> 0..MaxCards]] 
    BY <1>0, <1>a DEF TypeOK
  <2>4. events' \subseteq Charges \X Numbers
    BY <1>0, <1>a DEF TypeOK
  <2>3. /\ at' \in [Calls -> {"idle", "reads", "cardless", "starts", "numbers", "asks", "answered", "unheard"}]
        /\ answer' \in [Calls -> Ended \cup {"processing", "none"}]
    <3>1. CASE at' = [at EXCEPT ![w] = "answered"] /\ answer' = [answer EXCEPT ![w] = result]
      BY <3>1 DEF TypeOK
    <3>2. CASE at' = [at EXCEPT ![w] = "unheard"] /\ answer' = answer
      BY <3>2 DEF TypeOK
    <3> QED
      BY <1>b, <3>1, <3>2
  <2> QED
    BY <1>0, <2>1, <2>2, <2>3, <2>4 DEF TypeOK, rowVars, historyVars
<1>2. CallsInStep'
  BY <1>0, <1>b DEF TypeOK, CallsInStep
<1>3. \A d : Uncounted(d)' = Uncounted(d) /\ Counted(d)' = Counted(d)
  BY <1>0, <1>b DEF TypeOK, Uncounted, Counted
<1>4. TriesCounted' /\ TriedByBuyer'
  BY <1>0, <1>3 DEF TriesCounted, TriedByBuyer, rowVars
<1>5. \A d \in Charges, m \in Numbers :
        /\ payment'[d][m] = IF d = c /\ m = n THEN result ELSE payment[d][m]
        /\ kept'[d][m] = IF d = c /\ m = n THEN result ELSE kept[d][m]
  BY <1>a DEF TypeOK
<1>6. StripeKeeps'
  <2>1. \A d \in Charges, m \in Numbers :
          /\ kept'[d][m] = "none" <=> payment'[d][m] = "none"
          /\ kept'[d][m] \in Ended => payment'[d][m] = kept'[d][m]
          /\ <<d, m>> \in events' => payment'[d][m] \in Ended
    <3> SUFFICES ASSUME NEW d \in Charges, NEW m \in Numbers
                 PROVE /\ kept'[d][m] = "none" <=> payment'[d][m] = "none"
                       /\ kept'[d][m] \in Ended => payment'[d][m] = kept'[d][m]
                       /\ <<d, m>> \in events' => payment'[d][m] \in Ended
      OBVIOUS
    <3>0. /\ kept[d][m] = "none" <=> payment[d][m] = "none"
          /\ kept[d][m] \in Ended => payment[d][m] = kept[d][m]
          /\ <<d, m>> \in events => payment[d][m] \in Ended
      BY DEF StripeKeeps
    <3>1. /\ payment'[d][m] = IF d = c /\ m = n THEN result ELSE payment[d][m]
          /\ kept'[d][m] = IF d = c /\ m = n THEN result ELSE kept[d][m]
      BY <1>5
    <3>2. <<d, m>> \in events' => <<d, m>> \in events \/ (result \in Ended /\ d = c /\ m = n)
      BY <1>a
    <3> QED
      BY <1>0, <3>0, <3>1, <3>2 DEF Ended
  <2>3. \A v \in Calls : on[v] \in Charges /\ (at[v] = "answered" => number[v] \in Numbers)
    BY DEF TypeOK, CallsInStep
  <2>4. \A v \in Calls :
          /\ answer'[v] # "none" => at'[v] = "answered"
          /\ at'[v] = "answered" => answer'[v] # "none" /\ payment'[on[v]][number[v]] # "none"
          /\ answer'[v] \in Ended => payment'[on[v]][number[v]] = answer'[v]
    <3> SUFFICES ASSUME NEW v \in Calls
                 PROVE /\ answer'[v] # "none" => at'[v] = "answered"
                       /\ at'[v] = "answered" => answer'[v] # "none" /\ payment'[on[v]][number[v]] # "none"
                       /\ answer'[v] \in Ended => payment'[on[v]][number[v]] = answer'[v]
      OBVIOUS
    <3>0. /\ answer[v] # "none" => at[v] = "answered"
          /\ at[v] = "answered" => answer[v] # "none" /\ payment[on[v]][number[v]] # "none"
          /\ answer[v] \in Ended => payment[on[v]][number[v]] = answer[v]
          /\ result # "none"
      BY DEF StripeKeeps, Ended
    <3>1. CASE v = w
      BY <1>0, <1>b, <1>5, <3>0, <3>1 DEF TypeOK, Ended
    <3>2. CASE v # w
      <4>1. at'[v] = at[v] /\ answer'[v] = answer[v]
        BY <1>b, <3>2 DEF TypeOK
      <4>2. at[v] = "answered" => payment'[on[v]][number[v]] = payment[on[v]][number[v]]
        BY <1>0, <1>5, <2>3, <3>0
      <4> QED
        BY <3>0, <4>1, <4>2 DEF Ended
    <3> QED
      BY <3>1, <3>2
  <2> QED
    BY <1>0, <2>1, <2>4 DEF StripeKeeps
<1>7. OneRunningUnlessPassed'
  <2> SUFFICES ASSUME NEW d \in Charges \ (misjudged \cup passedOver), OneRunning(d)
               PROVE OneRunning(d)'
    BY <1>0 DEF OneRunningUnlessPassed, historyVars
  <2>0. /\ UNCHANGED <<status, attempts, intent, number>>
        /\ \A v \in Counted(d)' : v \in Counted(d) /\ (at'[v] # "numbers" => at[v] # "numbers")
    <3>1. \A v \in Calls : at'[v] # "numbers" => at[v] # "numbers"
      BY <1>0, <1>b DEF TypeOK
    <3>2. \A v \in Counted(d)' : v \in Counted(d) /\ v \in Calls
      BY <1>3 DEF Counted
    <3> QED
      BY <1>0, <3>1, <3>2 DEF rowVars
  <2>1. CASE d # c
    <3>1. payment'[d] = payment[d]
      BY <1>0, <1>a, <2>1 DEF TypeOK
    <3> QED
      BY <2>0, <3>1, RowStands
  <2>2. CASE d = c
    <3>1. status[c] = "PENDING" /\ attempts[c] = n
      BY <1>0, <2>2 DEF OneRunning
    <3> QED
      BY <1>0, <1>a, <2>0, <2>2, <3>1, PaymentMoves
  <2> QED
    BY <2>1, <2>2
<1>8. RecordedIsPaid'
  BY <1>0, <1>5 DEF RecordedIsPaid, rowVars
<1>p. AskedIsCounted'
  <2>1. TopUps \subseteq Charges
    BY DEF Charges
  <2>2. c \in TopUps => status[c] # "none" /\ Uncounted(c) = {}
    BY <1>0 DEF TriedByBuyer, Uncounted
  <2> QED
    BY <1>0, <1>3, <1>5, <2>1, <2>2 DEF AskedIsCounted, rowVars
<1> QED
  BY <1>p, <1>1, <1>2, <1>4, <1>6, <1>7, <1>8

-----------------------------------------------------------------------------
\* Stripe's word for payment n ends the charge c: a success ends it whatever
\* was recorded, a failure only the try with that number, nobody else at work.
LEMMA ChargeEnds ==
  ASSUME TypeOK, NEW c \in Charges, NEW n \in Numbers, OneRunning(c),
         payment[c][n] \in Ended, status[c] \in {"PENDING", "FAILED"},
         payment[c][n] = "failed" => status[c] = "PENDING" /\ attempts[c] = n /\ Counted(c)' = {},
         status'[c] = StatusOf(payment[c][n]), intent'[c] = n, UNCHANGED <<attempts, payment>>,
         \A v \in Counted(c)' : v \in Counted(c) /\ at'[v] = at[v] /\ number'[v] = number[v]
  PROVE OneRunning(c)'
<1>0. /\ attempts[c] \in Nat /\ Numbers \subseteq Nat
      /\ \A m \in Numbers : NoMoney(c, m)' = NoMoney(c, m)
  BY BoundsAssumption DEF TypeOK, Numbers, NoMoney
<1>1. CASE payment[c][n] = "failed"
  <2>1. status'[c] = "FAILED" /\ intent'[c] <= attempts'[c]
    BY <1>0, <1>1 DEF StatusOf
  <2>2. \A m \in Numbers : (m <= attempts[c] => NoMoney(c, m)) /\ (m > attempts[c] + 1 => payment[c][m] = "none")
    BY <1>0, <1>1 DEF OneRunning, NoMoney
  <2> QED
    BY <1>0, <1>1, <2>1, <2>2 DEF OneRunning
<1>2. CASE payment[c][n] = "succeeded"
  <2>1. status'[c] = "SUCCEEDED"
    BY <1>2 DEF StatusOf
  <2>2. status[c] = "PENDING" => n = attempts[c]
    BY <1>0, <1>2 DEF OneRunning, NoMoney
  <2>3. status[c] = "FAILED" => n = attempts[c] + 1
    BY <1>0, <1>2 DEF OneRunning, NoMoney
  <2>4. \A m \in Numbers \ {n} : NoMoney(c, m)
    BY <1>0, <2>2, <2>3 DEF OneRunning, NoMoney
  <2>5. status[c] = "FAILED" => Counted(c)' = {}
    BY DEF OneRunning
  <2>6. \A v, w \in Counted(c)' : v = w
    BY DEF OneRunning
  <2>7. \A w \in Counted(c)' : (at'[w] # "numbers" => number'[w] = attempts'[c])
                              /\ payment'[c][attempts'[c]] # "none"
    BY <1>2, <2>2, <2>5 DEF OneRunning
  <2>8. \E k \in Numbers : \A m \in Numbers \ {k} : NoMoney(c, m)'
    BY <1>0, <2>4
  <2> QED
    BY <2>1, <2>6, <2>7, <2>8 DEF OneRunning
<1> QED
  BY <1>1, <1>2 DEF Ended

LEMMA SettlesAnswerKeeps == ASSUME NEW w \in Calls, IInv, SettlesAnswer(w) PROVE IInv'
<1> DEFINE c == on[w]
           n == number[w]
<1> USE DEF IInv
<1>0. /\ Fee \in Charges /\ Fee \notin TopUps /\ TopUps \subseteq Charges
      /\ c \in Charges /\ n \in Numbers /\ w \in Counted(c)
      /\ answer[w] \in Ended /\ payment[c][n] = answer[w] /\ Idle(w)
      /\ UNCHANGED <<stripeVars, card, historyVars>>
  BY RowsAssumption DEF TypeOK, CallsInStep, StripeKeeps, SettlesAnswer, Counted, Charges
<1>a. /\ \A d : Uncounted(d)' = Uncounted(d) \ {w}
      /\ \A d : Counted(d)' = Counted(d) \ {w}
  BY <1>0, IdleLeaves
<1>b. \A d : \A v \in Counted(d)' : v \in Counted(d) /\ at'[v] = at[v] /\ number'[v] = number[v]
  BY <1>0, <1>a DEF TypeOK, Idle, Counted
<1>c. \A v \in Calls, t \in TopUps : on'[v] = t => on[v] = t
  BY <1>0 DEF TypeOK, Idle
<1>1. /\ at' \in [Calls -> {"idle", "reads", "cardless", "starts", "numbers", "asks", "answered", "unheard"}]
      /\ on' \in [Calls -> Charges]
      /\ with' \in [Calls -> 0..MaxCards]
      /\ number' \in [Calls -> 0..MaxAttempts]
      /\ answer' \in [Calls -> Ended \cup {"processing", "none"}]
  BY <1>0, BoundsAssumption DEF TypeOK, Idle
<1>2. CallsInStep'
  BY <1>0 DEF TypeOK, CallsInStep, Idle
<1>3. StripeKeeps'
  BY <1>0 DEF TypeOK, StripeKeeps, Idle, stripeVars, Ended
<1>4. CASE ~RunningIs(c, n)
  <2>1. UNCHANGED <<rowVars, payment, historyVars, request>>
    BY <1>0, <1>4 DEF SettlesAnswer, Settle, stripeVars
  <2>2. TypeOK'
    BY <1>0, <1>1, <2>1 DEF TypeOK, rowVars, stripeVars, historyVars
  <2>3. TriesCounted' /\ TriedByBuyer' /\ AskedIsCounted' /\ OneRunningUnlessPassed' /\ RecordedIsPaid'
    BY <1>a, <1>b, <1>c, <2>1, RowsStand
  <2> QED
    BY <1>2, <1>3, <2>2, <2>3
<1>5. CASE RunningIs(c, n)
  <2>0. /\ status[c] = "PENDING" /\ attempts[c] = n
        /\ status' = [status EXCEPT ![c] = StatusOf(answer[w])]
        /\ intent' = [intent EXCEPT ![c] = n]
        /\ request' \in {request, "ENGAGED"}
        /\ UNCHANGED <<attempts, provider>>
    BY <1>5 DEF SettlesAnswer, Settle, RunningIs
  <2>1. TypeOK'
    <3>1. /\ status' \in [Charges -> {"none", "PENDING", "SUCCEEDED", "FAILED"}]
          /\ intent' \in [Charges -> 0..MaxAttempts]
          /\ request' \in {"CONFIRMED", "ENGAGED", "ROUTED"}
      BY <1>0, <2>0 DEF TypeOK, StatusOf, Numbers
    <3> QED
      BY <1>0, <1>1, <2>0, <3>1 DEF TypeOK, stripeVars, historyVars
  <2>2. TriesCounted'
    BY <1>a, <2>0, NobodyStarts
  <2>3. TriedByBuyer'
    <3> SUFFICES ASSUME NEW t \in TopUps
                 PROVE /\ \A u, v \in Calls : on'[u] = t /\ on'[v] = t => u = v
                       /\ \A v \in Uncounted(t)' : status'[t] = "PENDING" /\ attempts'[t] = 0
                       /\ status'[t] = "none" => attempts'[t] = 0 /\ \A v \in Calls : on'[v] # t
      BY DEF TriedByBuyer
    <3>1. CASE t = c
      <4>1. \A v \in Calls : on[v] = t => v = w
        BY <1>0, <3>1 DEF TriedByBuyer
      <4>2. Uncounted(t)' = {}
        BY <1>a, <4>1 DEF Uncounted
      <4>3. status'[t] # "none"
        BY <1>0, <2>0, <3>1 DEF TypeOK, StatusOf
      <4> QED
        BY <1>c, <4>1, <4>2, <4>3
    <3>2. CASE t # c
      <4>1. status'[t] = status[t] /\ attempts'[t] = attempts[t]
        BY <1>0, <2>0, <3>2 DEF TypeOK
      <4> QED
        BY <1>a, <1>c, <4>1 DEF TriedByBuyer
    <3> QED
      BY <3>1, <3>2
  <2>4. OneRunningUnlessPassed'
    <3> SUFFICES ASSUME NEW d \in Charges \ (misjudged \cup passedOver), OneRunning(d)
                 PROVE OneRunning(d)'
      BY <1>0 DEF OneRunningUnlessPassed, historyVars
    <3>1. CASE d # c
      <4>1. status'[d] = status[d] /\ attempts'[d] = attempts[d] /\ intent'[d] = intent[d]
        BY <2>0, <3>1 DEF TypeOK
      <4>2. payment' = payment
        BY <1>0 DEF stripeVars
      <4> QED
        BY <1>b, <4>1, <4>2, RowStands
    <3>2. CASE d = c
      <4>1. Counted(d)' = {}
        BY <1>0, <1>a, <3>2 DEF OneRunning
      <4>2. status'[d] = StatusOf(payment[d][n]) /\ intent'[d] = n
        BY <1>0, <2>0, <3>2 DEF TypeOK
      <4>3. UNCHANGED <<attempts, payment>>
        BY <1>0, <2>0 DEF stripeVars
      <4>4. /\ status[d] = "PENDING" /\ attempts[d] = n
            /\ payment[d][n] \in Ended /\ n \in Numbers
        BY <1>0, <2>0, <3>2
      <4> QED
        BY <4>1, <4>2, <4>3, <4>4, ChargeEnds
    <3> QED
      BY <3>1, <3>2
  <2>5. RecordedIsPaid'
    BY <1>0, <2>0 DEF RecordedIsPaid, TypeOK, StatusOf, stripeVars, Ended
  <2>p. AskedIsCounted'
    BY <1>0, <1>a, <2>0 DEF AskedIsCounted, TypeOK, StatusOf, stripeVars
  <2> QED
    BY <2>p, <1>2, <1>3, <2>1, <2>2, <2>3, <2>4, <2>5
<1> QED
  BY <1>4, <1>5

LEMMA WebhookKeeps ==
  ASSUME NEW c \in Charges, NEW n \in Numbers, NEW recorded \in BOOLEAN, IInv, Webhook(c, n, recorded)
  PROVE IInv'
<1> USE DEF IInv
<1>0. /\ payment[c][n] \in Ended
      /\ events' \subseteq events /\ misjudged \subseteq misjudged' /\ misjudged' \subseteq misjudged \cup {c}
      /\ UNCHANGED <<payment, paidWith, kept, callVars, card, passedOver>>
      /\ TopUps \subseteq Charges
  BY DEF Webhook, StripeKeeps, Charges
<1>a. \A d : Uncounted(d)' = Uncounted(d) /\ Counted(d)' = Counted(d)
  BY <1>0 DEF callVars, Uncounted, Counted
<1>2. CallsInStep'
  BY <1>0 DEF CallsInStep, callVars
<1>3. StripeKeeps'
  BY <1>0 DEF StripeKeeps, callVars
<1>4. CASE ~WebhookSettles(c, n)
  <2>1. UNCHANGED <<rowVars, payment, historyVars, request>>
    BY <1>0, <1>4 DEF Webhook, Settle, historyVars
  <2>2. TypeOK'
    BY <1>0, <2>1 DEF TypeOK, rowVars, callVars, historyVars
  <2>3. TriesCounted' /\ TriedByBuyer' /\ AskedIsCounted' /\ OneRunningUnlessPassed' /\ RecordedIsPaid'
    BY <1>0, <1>a, <2>1, RowsStand DEF callVars
  <2> QED
    BY <1>2, <1>3, <2>2, <2>3
<1>5. CASE WebhookSettles(c, n)
  <2>0. /\ status[c] \in {"PENDING", "FAILED"}
        /\ payment[c][n] = "failed" => status[c] = "PENDING" /\ intent[c] = n
        /\ status' = [status EXCEPT ![c] = StatusOf(payment[c][n])]
        /\ intent' = [intent EXCEPT ![c] = n]
        /\ request' \in {request, "ENGAGED"}
        /\ UNCHANGED <<attempts, provider>>
        /\ payment[c][n] = "failed" /\ attempts[c] # n => c \in misjudged'
    BY <1>5 DEF Webhook, WebhookSettles, Settle
  <2>1. TypeOK'
    <3>1. /\ status' \in [Charges -> {"none", "PENDING", "SUCCEEDED", "FAILED"}]
          /\ intent' \in [Charges -> 0..MaxAttempts]
          /\ request' \in {"CONFIRMED", "ENGAGED", "ROUTED"}
      BY <1>0, <2>0 DEF TypeOK, StatusOf, Numbers
    <3> QED
      BY <1>0, <2>0, <3>1 DEF TypeOK, callVars
  <2>2. TriesCounted'
    BY <1>a, <2>0 DEF TriesCounted
  <2>3. TriedByBuyer'
    <3> SUFFICES ASSUME NEW t \in TopUps
                 PROVE /\ \A v \in Uncounted(t) : status'[t] = "PENDING"
                       /\ status'[t] = "none" => status[t] = "none"
      BY <1>0, <1>a, <2>0 DEF TriedByBuyer, callVars
    <3>1. status'[t] = IF t = c THEN StatusOf(payment[c][n]) ELSE status[t]
      BY <1>0, <2>0 DEF TypeOK
    <3>2. \A v \in Uncounted(t) : status[t] = "PENDING" /\ t # c
      BY <1>0 DEF TriedByBuyer, AskedIsCounted, Ended
    <3> QED
      BY <3>1, <3>2 DEF StatusOf, TriedByBuyer
  <2>4. OneRunningUnlessPassed'
    <3> SUFFICES ASSUME NEW d \in Charges \ (misjudged' \cup passedOver), OneRunning(d)
                 PROVE OneRunning(d)'
      BY <1>0 DEF OneRunningUnlessPassed
    <3>0. \A v \in Counted(d)' : v \in Counted(d) /\ at'[v] = at[v] /\ number'[v] = number[v]
      BY <1>0, <1>a DEF callVars
    <3>1. CASE d # c
      <4>1. UNCHANGED <<status[d], attempts[d], intent[d], payment[d]>>
        BY <1>0, <2>0, <3>1 DEF TypeOK
      <4> QED
        BY <3>0, <4>1, RowStands
    <3>2. CASE d = c
      <4>1. status'[c] = StatusOf(payment[c][n]) /\ intent'[c] = n /\ UNCHANGED <<attempts, payment>>
        BY <1>0, <2>0 DEF TypeOK
      <4>2. payment[c][n] = "failed" => attempts[c] = n /\ Counted(c)' = {}
        BY <1>a, <2>0, <3>2 DEF OneRunning
      <4> QED
        BY <1>0, <2>0, <3>0, <3>2, <4>1, <4>2, ChargeEnds
    <3> QED
      BY <3>1, <3>2
  <2>5. RecordedIsPaid'
    BY <1>0, <2>0 DEF RecordedIsPaid, TypeOK, StatusOf, Ended
  <2>p. AskedIsCounted'
    BY <1>0, <1>a, <2>0 DEF AskedIsCounted, TypeOK, StatusOf
  <2> QED
    BY <2>p, <1>2, <1>3, <2>1, <2>2, <2>3, <2>4, <2>5
<1> QED
  BY <1>4, <1>5

LEMMA AbandonsKeeps == ASSUME NEW w \in Calls, IInv, Abandons(w) PROVE IInv'
<1> DEFINE c == on[w]
           n == number[w]
<1> USE DEF IInv
<1>0. /\ Fee \in Charges /\ Fee \notin TopUps /\ TopUps \subseteq Charges
      /\ c \in Charges /\ n \in Numbers /\ w \in Counted(c) /\ w \notin Uncounted(c) /\ Idle(w)
      /\ UNCHANGED <<provider, stripeVars, request, card, historyVars>>
  BY RowsAssumption DEF TypeOK, CallsInStep, Abandons, Counted, Uncounted, Charges
<1>a. /\ \A d : Uncounted(d)' = Uncounted(d) \ {w}
      /\ \A d : Counted(d)' = Counted(d) \ {w}
  BY <1>0, IdleLeaves
<1>b. \A d : \A v \in Counted(d)' : v \in Counted(d) /\ at'[v] = at[v] /\ number'[v] = number[v]
  BY <1>0, <1>a DEF TypeOK, Idle, Counted
<1>c. \A v \in Calls, t \in TopUps : on'[v] = t => on[v] = t
  BY <1>0 DEF TypeOK, Idle
<1>1. /\ at' \in [Calls -> {"idle", "reads", "cardless", "starts", "numbers", "asks", "answered", "unheard"}]
      /\ on' \in [Calls -> Charges]
      /\ with' \in [Calls -> 0..MaxCards]
      /\ number' \in [Calls -> 0..MaxAttempts]
      /\ answer' \in [Calls -> Ended \cup {"processing", "none"}]
  BY <1>0, BoundsAssumption DEF TypeOK, Idle
<1>2. CallsInStep'
  BY <1>0 DEF TypeOK, CallsInStep, Idle
<1>3. StripeKeeps'
  BY <1>0 DEF TypeOK, StripeKeeps, Idle, stripeVars, Ended
<1>4. CASE ~RunningIs(c, n)
  <2>1. UNCHANGED <<rowVars, payment, historyVars>>
    BY <1>0, <1>4 DEF Abandons, rowVars, stripeVars
  <2>2. TypeOK'
    BY <1>0, <1>1, <2>1 DEF TypeOK, rowVars, stripeVars, historyVars
  <2>3. TriesCounted' /\ TriedByBuyer' /\ AskedIsCounted' /\ OneRunningUnlessPassed' /\ RecordedIsPaid'
    BY <1>a, <1>b, <1>c, <2>1, RowsStand
  <2> QED
    BY <1>2, <1>3, <2>2, <2>3
<1>5. CASE RunningIs(c, n)
  <2>0. /\ status[c] = "PENDING" /\ attempts[c] = n
        /\ status' = [status EXCEPT ![c] = "FAILED"]
        /\ attempts' = [attempts EXCEPT ![c] = @ - 1]
        /\ UNCHANGED <<intent, payment>>
    BY <1>5 DEF Abandons, RunningIs, TakenBack, stripeVars
  <2>1. /\ attempts[c] \in Nat /\ attempts[c] >= 1 /\ attempts[c] - 1 \in 0..MaxAttempts
        /\ attempts'[c] = attempts[c] - 1 /\ \A d \in Charges : d # c => attempts'[d] = attempts[d]
        /\ status'[c] = "FAILED" /\ \A d \in Charges : d # c => status'[d] = status[d]
    BY <1>0, <2>0, BoundsAssumption DEF TypeOK, Numbers
  <2>2. TypeOK'
    <3>1. status' \in [Charges -> {"none", "PENDING", "SUCCEEDED", "FAILED"}]
      BY <2>0 DEF TypeOK
    <3>3. attempts' \in [Charges -> 0..MaxAttempts]
      BY <2>0, <2>1 DEF TypeOK
    <3>2. \A t \in TopUps : attempts'[t] <= 1
      <4> SUFFICES ASSUME NEW t \in TopUps PROVE attempts'[t] <= 1
        OBVIOUS
      <4>1. attempts[t] <= 1 /\ attempts[t] \in Int /\ t \in Charges
        BY <1>0 DEF TypeOK
      <4> QED
        BY <2>1, <4>1
    <3> QED
      BY <1>0, <1>1, <2>0, <3>1, <3>2, <3>3 DEF TypeOK, stripeVars, historyVars
  <2>3. TriesCounted'
    <3>1. \A d \in Charges : /\ Cardinality(Uncounted(d)) \in Nat /\ IsFiniteSet(Uncounted(d))
                            /\ Cardinality(Counted(d)) \in Nat /\ IsFiniteSet(Counted(d))
      BY CallsAreFinite
    <3>2. \A d \in Charges : Uncounted(d)' = Uncounted(d)
      BY <1>a DEF Abandons, Uncounted
    <3>3. \A d \in Charges : Cardinality(Counted(d)') =
            IF w \in Counted(d) THEN Cardinality(Counted(d)) - 1 ELSE Cardinality(Counted(d))
      BY <1>a, <3>1, FS_RemoveElement
    <3>4. w \in Counted(c) /\ \A d \in Charges : d # c => w \notin Counted(d)
      BY <1>0 DEF Counted
    <3>5. attempts'[Fee] + Cardinality(Uncounted(Fee)') <= MaxAttempts
      <4>1. attempts'[Fee] <= attempts[Fee] /\ attempts'[Fee] \in Int /\ attempts[Fee] \in Int
        BY <1>0, <2>1 DEF TypeOK
      <4>2. Cardinality(Uncounted(Fee)') = Cardinality(Uncounted(Fee)) /\ MaxAttempts \in Int
        BY <1>0, <3>2, BoundsAssumption
      <4> QED
        BY <1>0, <3>1, <4>1, <4>2 DEF TriesCounted
    <3>6. ASSUME NEW d \in Charges PROVE Cardinality(Counted(d)') <= attempts'[d]
      <4>1. Cardinality(Counted(d)) <= attempts[d] /\ attempts[d] \in Int
        BY DEF TriesCounted, TypeOK
      <4> QED
        BY <2>1, <3>1, <3>3, <3>4, <4>1
    <3> QED
      BY <3>5, <3>6 DEF TriesCounted
  <2>4. TriedByBuyer'
    <3> SUFFICES ASSUME NEW t \in TopUps
                 PROVE /\ \A u, v \in Calls : on'[u] = t /\ on'[v] = t => u = v
                       /\ \A v \in Uncounted(t)' : status'[t] = "PENDING" /\ attempts'[t] = 0
                       /\ status'[t] = "none" => attempts'[t] = 0 /\ \A v \in Calls : on'[v] # t
      BY DEF TriedByBuyer
    <3>1. CASE t = c
      <4>1. \A v \in Calls : on[v] = t => v = w
        BY <1>0, <3>1 DEF TriedByBuyer
      <4>2. Uncounted(t)' = {}
        BY <1>a, <4>1 DEF Uncounted
      <4> QED
        BY <1>c, <2>1, <3>1, <4>1, <4>2
    <3>2. CASE t # c
      <4>1. status'[t] = status[t] /\ attempts'[t] = attempts[t]
        BY <1>0, <2>1, <3>2
      <4> QED
        BY <1>a, <1>c, <4>1 DEF TriedByBuyer
    <3> QED
      BY <3>1, <3>2
  <2>5. AskedIsCounted'
    BY <1>0, <1>a, <2>0, <2>1 DEF AskedIsCounted
  <2>6. OneRunningUnlessPassed'
    <3> SUFFICES ASSUME NEW d \in Charges \ (misjudged \cup passedOver), OneRunning(d)
                 PROVE OneRunning(d)'
      BY <1>0 DEF OneRunningUnlessPassed, historyVars
    <3>1. CASE d # c
      <4>1. status'[d] = status[d] /\ attempts'[d] = attempts[d] /\ intent'[d] = intent[d] /\ payment' = payment
        BY <2>0, <2>1, <3>1
      <4> QED
        BY <1>b, <4>1, RowStands
    <3>2. CASE d = c
      <4>1. Counted(d)' = {}
        BY <1>0, <1>a, <3>2 DEF OneRunning
      <4>2. intent[d] <= attempts[d] - 1
        <5>1. intent[d] <= attempts[d] /\ intent[d] # attempts[d]
          BY <1>0, <2>0, <3>2 DEF OneRunning
        <5>2. intent[d] \in Int /\ attempts[d] \in Int
          BY DEF TypeOK
        <5> QED
          BY <5>1, <5>2
      <4>3. \A m \in Numbers :
              (m <= attempts'[d] => NoMoney(d, m)) /\ (m > attempts'[d] + 1 => payment[d][m] = "none")
        BY <2>0, <2>1, <3>2 DEF OneRunning, Numbers
      <4>4. \A m : NoMoney(d, m)' = NoMoney(d, m)
        BY <2>0 DEF NoMoney
      <4>5. \A m \in Numbers :
              (m <= attempts'[d] => NoMoney(d, m)') /\ (m > attempts'[d] + 1 => payment'[d][m] = "none")
        BY <2>0, <4>3, <4>4
      <4> QED
        BY <2>0, <2>1, <3>2, <4>1, <4>2, <4>5 DEF OneRunning
    <3> QED
      BY <3>1, <3>2
  <2>7. RecordedIsPaid'
    BY <1>0, <2>0, <2>1 DEF RecordedIsPaid
  <2> QED
    BY <1>2, <1>3, <2>2, <2>3, <2>4, <2>5, <2>6, <2>7
<1> QED
  BY <1>4, <1>5

LEMMA RecordsIntentKeeps == ASSUME NEW w \in Calls, IInv, RecordsIntent(w) PROVE IInv'
<1> DEFINE c == on[w]
           n == number[w]
<1> USE DEF IInv
<1>0. /\ Fee \in Charges /\ Fee \notin TopUps /\ TopUps \subseteq Charges
      /\ c \in Charges /\ n \in Numbers /\ w \in Counted(c) /\ w \notin Uncounted(c) /\ Idle(w)
      /\ UNCHANGED <<provider, stripeVars, request, card, historyVars>>
  BY RowsAssumption DEF TypeOK, CallsInStep, RecordsIntent, Counted, Uncounted, Charges
<1>a. /\ \A d : Uncounted(d)' = Uncounted(d) \ {w}
      /\ \A d : Counted(d)' = Counted(d) \ {w}
  BY <1>0, IdleLeaves
<1>b. \A d : \A v \in Counted(d)' : v \in Counted(d) /\ at'[v] = at[v] /\ number'[v] = number[v]
  BY <1>0, <1>a DEF TypeOK, Idle, Counted
<1>c. \A v \in Calls, t \in TopUps : on'[v] = t => on[v] = t
  BY <1>0 DEF TypeOK, Idle
<1>1. /\ at' \in [Calls -> {"idle", "reads", "cardless", "starts", "numbers", "asks", "answered", "unheard"}]
      /\ on' \in [Calls -> Charges]
      /\ with' \in [Calls -> 0..MaxCards]
      /\ number' \in [Calls -> 0..MaxAttempts]
      /\ answer' \in [Calls -> Ended \cup {"processing", "none"}]
  BY <1>0, BoundsAssumption DEF TypeOK, Idle
<1>2. CallsInStep'
  BY <1>0 DEF TypeOK, CallsInStep, Idle
<1>3. StripeKeeps'
  BY <1>0 DEF TypeOK, StripeKeeps, Idle, stripeVars, Ended
<1>4. CASE ~RunningIs(c, n)
  <2>1. UNCHANGED <<rowVars, payment, historyVars>>
    BY <1>0, <1>4 DEF RecordsIntent, rowVars, stripeVars
  <2>2. TypeOK'
    BY <1>0, <1>1, <2>1 DEF TypeOK, rowVars, stripeVars, historyVars
  <2>3. TriesCounted' /\ TriedByBuyer' /\ AskedIsCounted' /\ OneRunningUnlessPassed' /\ RecordedIsPaid'
    BY <1>a, <1>b, <1>c, <2>1, RowsStand
  <2> QED
    BY <1>2, <1>3, <2>2, <2>3
<1>5. CASE RunningIs(c, n)
  <2>0. /\ status[c] = "PENDING" /\ attempts[c] = n
        /\ intent' = [intent EXCEPT ![c] = n]
        /\ UNCHANGED <<status, attempts, payment>>
    BY <1>5 DEF RecordsIntent, RunningIs, stripeVars
  <2>1. TypeOK'
    <3>1. intent' \in [Charges -> 0..MaxAttempts]
      BY <1>0, <2>0 DEF TypeOK, Numbers
    <3> QED
      BY <1>0, <1>1, <2>0, <3>1 DEF TypeOK, stripeVars, historyVars
  <2>2. TriesCounted'
    BY <1>a, <2>0, NobodyStarts
  <2>3. TriedByBuyer' /\ AskedIsCounted' /\ RecordedIsPaid'
    BY <1>0, <1>a, <1>c, <2>0 DEF TriedByBuyer, AskedIsCounted, RecordedIsPaid
  <2>4. OneRunningUnlessPassed'
    <3> SUFFICES ASSUME NEW d \in Charges \ (misjudged \cup passedOver), OneRunning(d)
                 PROVE OneRunning(d)'
      BY <1>0 DEF OneRunningUnlessPassed, historyVars
    <3>1. CASE d # c
      <4>1. intent'[d] = intent[d]
        BY <2>0, <3>1 DEF TypeOK
      <4> QED
        BY <1>b, <2>0, <4>1, RowStands
    <3>2. CASE d = c
      <4>1. Counted(d)' = {}
        BY <1>0, <1>a, <3>2 DEF OneRunning
      <4>2. intent'[d] = attempts'[d] /\ attempts[d] \in Nat
        BY <1>0, <2>0, <3>2 DEF TypeOK
      <4> QED
        BY <2>0, <3>2, <4>1, <4>2 DEF OneRunning, NoMoney
    <3> QED
      BY <3>1, <3>2
  <2> QED
    BY <1>2, <1>3, <2>1, <2>2, <2>3, <2>4
<1> QED
  BY <1>4, <1>5

-----------------------------------------------------------------------------
LEMMA NextKeeps == IInv /\ [Next]_vars => IInv'
<1> SUFFICES ASSUME IInv, [Next]_vars PROVE IInv'
  OBVIOUS
<1>1. ASSUME NEW w \in Calls, NEW t \in TopUps, BuyTopUp(w, t) PROVE IInv'
  BY <1>1, BuyTopUpKeeps
<1>2. ASSUME NEW w \in Calls,
             \/ RetryCharge(w) \/ ReadsCard(w) \/ FailsWithoutAttempt(w) \/ Starts(w)
             \/ IsRefused(w) \/ ReadsNumber(w)
      PROVE IInv'
  BY <1>2, RetryChargeKeeps, ReadsCardKeeps, FailsWithoutAttemptKeeps, StartsKeeps,
     IsRefusedKeeps, ReadsNumberKeeps
<1>3. ASSUME NEW w \in Calls,
             \/ AsksStripe(w) \/ AsksAgain(w) \/ NeverReachesStripe(w) \/ Abandons(w)
             \/ RecordsIntent(w) \/ SettlesAnswer(w) \/ Stops(w)
      PROVE IInv'
  BY <1>3, AsksStripeKeeps, AsksAgainKeeps, NeverReachesStripeKeeps, AbandonsKeeps,
     RecordsIntentKeeps, SettlesAnswerKeeps, StopsKeeps
<1>4. ASSUME NEW c \in Charges, NEW n \in Numbers, Decides(c, n) PROVE IInv'
  BY <1>4, DecidesKeeps
<1>5. ASSUME NEW c \in Charges, NEW n \in Numbers, NEW recorded \in BOOLEAN, Webhook(c, n, recorded)
      PROVE IInv'
  BY <1>5, WebhookKeeps
<1>6. CASE SaveCard \/ LapseUnpaid
  BY <1>6, SaveCardKeeps, LapseUnpaidKeeps
<1>7. CASE UNCHANGED vars
  BY <1>7 DEF vars, rowVars, callVars, stripeVars, historyVars, IInv, TypeOK, CallsInStep, TriesCounted,
     TriedByBuyer, AskedIsCounted, StripeKeeps, OneRunningUnlessPassed, OneRunning, NoMoney, RecordedIsPaid,
     Uncounted, Counted
<1> QED
  BY <1>1, <1>2, <1>3, <1>4, <1>5, <1>6, <1>7 DEF Next

\* The parts of IInv hold together in every state of a run.
LEMMA IInvAlways == Spec => []IInv
BY InitIInv, NextKeeps, PTL DEF Spec

\* Rows, calls and Stripe's payments are well typed: no attempt is counted that
\* was not let in, none is taken back twice, and a top-up is tried once.
THEOREM TypeSafety == Spec => []TypeOK
<1>1. IInv => TypeOK
  BY DEF IInv
<1> QED
  BY <1>1, IInvAlways, PTL

\* What is recorded as paid was taken, and the retries of a charge take money
\* once, however its calls race, its answers are lost and the server stops,
\* unless the row was misjudged or passed over.
THEOREM MoneyTakenOnce == Spec => []TakenOnce
<1>1. IInv => TakenOnce
  <2> SUFFICES ASSUME IInv, NEW c \in Charges
               PROVE /\ status[c] = "SUCCEEDED" => Paid(c) # {}
                     /\ c \notin misjudged \cup passedOver => Cardinality(Paid(c)) <= 1
    BY DEF TakenOnce
  <2>1. status[c] = "SUCCEEDED" => Paid(c) # {}
    BY DEF IInv, RecordedIsPaid, Paid
  <2>2. ASSUME c \notin misjudged \cup passedOver PROVE Cardinality(Paid(c)) <= 1
    <3>1. OneRunning(c) /\ status[c] \in {"none", "PENDING", "SUCCEEDED", "FAILED"}
          /\ attempts[c] \in Nat /\ Numbers \subseteq Nat
      BY <2>2, BoundsAssumption DEF IInv, OneRunningUnlessPassed, TypeOK, Numbers
    <3>2. \A m, n \in Paid(c) : m = n
      <4>1. CASE status[c] = "none"
        BY <3>1, <4>1 DEF OneRunning, Paid
      <4>2. CASE status[c] = "PENDING"
        BY <3>1, <4>2 DEF OneRunning, NoMoney, Paid
      <4>3. CASE status[c] = "FAILED"
        BY <3>1, <4>3 DEF OneRunning, NoMoney, Paid
      <4>4. CASE status[c] = "SUCCEEDED"
        BY <3>1, <4>4 DEF OneRunning, NoMoney, Paid
      <4> QED
        BY <3>1, <4>1, <4>2, <4>3, <4>4
    <3>3. CASE Paid(c) = {}
      BY <3>3, FS_EmptySet
    <3>4. CASE Paid(c) # {}
      <4>1. PICK n \in Paid(c) : TRUE
        BY <3>4
      <4>2. Paid(c) = {n}
        BY <3>2, <4>1
      <4> QED
        BY <4>2, FS_Singleton
    <3> QED
      BY <3>3, <3>4
  <2> QED
    BY <2>1, <2>2
<1> QED
  BY <1>1, IInvAlways, PTL
=============================================================================
