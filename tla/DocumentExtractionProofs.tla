---------------------- MODULE DocumentExtractionProofs ----------------------
(* Proofs about DocumentExtraction, for any documents, servers, runs, rounds  *)
(* and faults.                                                                *)
EXTENDS DocumentExtraction, TLAPS, FiniteSetTheorems, SequenceTheorems

\* A run begins its rounds with the first.
RoundsBegin == \A j \in Jobs : pc[j] # "fills" => round[j] = 1

\* What a run of a document nobody else reads has stored so far, and that the
\* document is not READY while its chunks change.
StoresInStep(j) ==
  LET d == doc[j] IN
  /\ pc[j] \in {"extracts", "replaces", "swaps", "clears", "fills",
                "verifies", "readies", "failing", "cleans"}
       => rag[d] \in {"PENDING", "FAILED", "gone"}
  /\ pc[j] \in {"replaces", "swaps"} => size[d] # "large"
  /\ pc[j] \in {"clears", "fills"} => size[d] = "large"
  /\ rag[d] # "gone" =>
       /\ pc[j] = "swaps" => seen[j] = stored[d]
       /\ pc[j] = "fills" => stored[d] = {j} \X (1..(round[j] - 1))
       /\ pc[j] \in {"verifies", "readies"} => stored[d] = {j} \X RoundsOf(d)

OneRunStores ==
  \A d \in Docs \ together :
    /\ \A j, k \in RunsOn(d) : j = k
    /\ \A j \in RunsOn(d) : StoresInStep(j)

IInv == TypeOK /\ RoundsBegin /\ OneRunStores /\ ReadyIsWhole

LEMMA InitIInv == Init => IInv
<1> SUFFICES ASSUME Init PROVE IInv
  OBVIOUS
<1>1. TypeOK
  <2>1. wait \in [Instances -> Seq([doc : Docs, receipt : BOOLEAN])]
    BY EmptySeq DEF Init
  <2>2. rag \in [Docs -> RagStatus] /\ size \in [Docs -> Sizes]
    BY DEF Init, RagStatus
  <2>3. stored \in [Docs -> SUBSET (Jobs \X (1..Rounds))] /\ seen \in [Jobs -> SUBSET (Jobs \X (1..Rounds))]
    BY DEF Init
  <2>4. round \in [Jobs -> 1..Rounds]
    BY RoundsAssumption DEF Init
  <2> QED
    BY <2>1, <2>2, <2>3, <2>4, BoundsAssumption DEF Init, TypeOK
<1>2. RoundsBegin
  BY DEF Init, RoundsBegin
<1>3. OneRunStores
  BY DEF Init, OneRunStores, RunsOn, AtWork
<1>4. ReadyIsWhole
  BY DEF Init, ReadyIsWhole
<1> QED
  BY <1>1, <1>2, <1>3, <1>4 DEF IInv

-----------------------------------------------------------------------------
\* People and sweeps: rows go back to PENDING, or go with their chunks, and the
\* runs at work stay where they are.
LEMMA RowsMove ==
  ASSUME IInv, UNCHANGED <<size, pc, doc, round, seen, together>>,
         \A d \in Docs : \/ rag'[d] = rag[d] /\ stored'[d] = stored[d]
                         \/ rag'[d] = "PENDING" /\ rag[d] # "gone" /\ stored'[d] = stored[d]
                         \/ rag'[d] = "gone"
  PROVE RoundsBegin' /\ OneRunStores' /\ ReadyIsWhole'
<1>1. RoundsBegin'
  BY DEF IInv, RoundsBegin
<1>2. \A d : RunsOn(d)' = RunsOn(d) /\ RoundsOf(d)' = RoundsOf(d)
  BY DEF RunsOn, RoundsOf
<1>3. OneRunStores'
  <2> SUFFICES ASSUME NEW d \in Docs \ together
               PROVE /\ \A j, k \in RunsOn(d)' : j = k
                     /\ \A j \in RunsOn(d)' : StoresInStep(j)'
    BY DEF OneRunStores
  <2>1. /\ \A j, k \in RunsOn(d) : j = k
        /\ \A j \in RunsOn(d) : StoresInStep(j)
    BY DEF IInv, OneRunStores
  <2>2. ASSUME NEW j \in RunsOn(d) PROVE StoresInStep(j)'
    <3>1. doc[j] = d /\ doc' = doc /\ StoresInStep(j)
      BY <2>1 DEF RunsOn
    <3>2. RoundsOf(d)' = RoundsOf(d)
      BY <1>2
    <3> QED
      BY <3>1, <3>2 DEF StoresInStep
  <2> QED
    BY <1>2, <2>1, <2>2
<1>4. ReadyIsWhole'
  BY <1>2 DEF IInv, ReadyIsWhole, Whole
<1> QED
  BY <1>1, <1>3, <1>4

\* One run goes on with its document; what is said of the others stays.
LEMMA RunMoves ==
  ASSUME IInv, NEW j \in Jobs, pc[j] \in AtWork, UNCHANGED <<size, doc, together>>,
         \A k \in Jobs : k # j => pc'[k] = pc[k] /\ round'[k] = round[k] /\ seen'[k] = seen[k],
         \A d \in Docs : d # doc[j] => rag'[d] = rag[d] /\ stored'[d] = stored[d],
         pc'[j] # "fills" => round'[j] = 1,
         doc[j] \notin together /\ StoresInStep(j)
           => StoresInStep(j)' /\ \A d \in {doc[j]} : rag'[d] = "READY" => Whole(d)'
  PROVE RoundsBegin' /\ OneRunStores' /\ ReadyIsWhole'
<1>1. RoundsBegin'
  BY DEF IInv, RoundsBegin
<1>2. \A d : RunsOn(d)' \subseteq RunsOn(d)
  BY DEF RunsOn
<1>3. \A d : RoundsOf(d)' = RoundsOf(d)
  BY DEF RoundsOf
<1>4. \A d \in Docs \ together : \A k \in RunsOn(d) : StoresInStep(k)
  BY DEF IInv, OneRunStores
<1>5. doc[j] \in Docs /\ j \in RunsOn(doc[j])
  BY DEF IInv, TypeOK, RunsOn
<1>6. OneRunStores'
  <2> SUFFICES ASSUME NEW d \in Docs \ together
               PROVE /\ \A k, l \in RunsOn(d)' : k = l
                     /\ \A k \in RunsOn(d)' : StoresInStep(k)'
    BY DEF OneRunStores
  <2>1. \A k, l \in RunsOn(d) : k = l
    BY DEF IInv, OneRunStores
  <2>2. ASSUME NEW k \in RunsOn(d)' PROVE StoresInStep(k)'
    <3>1. k \in RunsOn(d) /\ k \in Jobs /\ doc[k] = d /\ StoresInStep(k)
      BY <1>2, <1>4, <2>2 DEF RunsOn
    <3>2. CASE k = j
      BY <3>1, <3>2
    <3>3. CASE k # j
      <4>1. d # doc[j]
        BY <1>5, <2>1, <3>1, <3>3
      <4>2. /\ pc'[k] = pc[k] /\ round'[k] = round[k] /\ seen'[k] = seen[k]
            /\ rag'[d] = rag[d] /\ stored'[d] = stored[d] /\ RoundsOf(d)' = RoundsOf(d)
        BY <1>3, <3>1, <3>3, <4>1
      <4> QED
        BY <3>1, <4>2 DEF StoresInStep
    <3> QED
      BY <3>2, <3>3
  <2> QED
    BY <1>2, <2>1, <2>2
<1>7. ReadyIsWhole'
  <2> SUFFICES ASSUME NEW d \in Docs \ together, rag'[d] = "READY" PROVE Whole(d)'
    BY DEF ReadyIsWhole
  <2>1. CASE d = doc[j]
    BY <1>4, <1>5, <2>1
  <2>2. CASE d # doc[j]
    BY <1>3, <2>2 DEF IInv, ReadyIsWhole, Whole
  <2> QED
    BY <2>1, <2>2
<1> QED
  BY <1>1, <1>6, <1>7

-----------------------------------------------------------------------------
QueueTypeOK ==
  /\ sent \in [Docs -> Nat]
  /\ wait \in [Instances -> Seq([doc : Docs, receipt : BOOLEAN])]
  /\ listed \in [Instances -> SUBSET Docs] /\ booting \in SUBSET Instances
  /\ faults \in 0..MaxFaults

LEMMA FaultIsBounded == ASSUME TypeOK, Fault PROVE faults' \in 0..MaxFaults
BY BoundsAssumption DEF TypeOK, Fault

LEMMA EnqueueTyped == ASSUME TypeOK, NEW d \in Docs, Enqueue(d) PROVE QueueTypeOK'
<1> DEFINE Waiting == [doc : Docs, receipt : BOOLEAN]
<1>1. UNCHANGED <<listed, booting>>
  BY DEF Enqueue
<1>2. CASE sent' = [sent EXCEPT ![d] = @ + 1] /\ UNCHANGED <<wait, faults>>
  BY <1>1, <1>2 DEF TypeOK, QueueTypeOK
<1>3. ASSUME Fault, UNCHANGED sent, NEW i \in Instances,
             wait' = [wait EXCEPT ![i] = Append(@, [doc |-> d, receipt |-> FALSE])]
      PROVE QueueTypeOK'
  <2>1. [doc |-> d, receipt |-> FALSE] \in Waiting
    OBVIOUS
  <2>2. wait[i] \in Seq(Waiting) /\ wait \in [Instances -> Seq(Waiting)]
    BY DEF TypeOK
  <2>3. Append(wait[i], [doc |-> d, receipt |-> FALSE]) \in Seq(Waiting)
    BY <2>1, <2>2, AppendProperties
  <2>4. wait' \in [Instances -> Seq(Waiting)]
    BY <1>3, <2>2, <2>3
  <2> QED
    BY <1>1, <1>3, <2>4, FaultIsBounded DEF TypeOK, QueueTypeOK
<1>4. CASE Fault /\ UNCHANGED <<sent, wait>>
  BY <1>1, <1>4, FaultIsBounded DEF TypeOK, QueueTypeOK
<1> QED
  BY <1>2, <1>3, <1>4 DEF Enqueue

LEMMA UploadKeeps == ASSUME NEW d \in Docs, IInv, Upload(d) PROVE IInv'
<1>1. TypeOK'
  BY EnqueueTyped DEF IInv, TypeOK, QueueTypeOK, Upload, runVars, RagStatus
<1>2. RoundsBegin' /\ OneRunStores' /\ ReadyIsWhole'
  BY RowsMove DEF IInv, TypeOK, Upload, runVars
<1> QED
  BY <1>1, <1>2 DEF IInv

LEMMA ReadAgainKeeps == ASSUME NEW d \in Docs, IInv, ReadAgain(d) PROVE IInv'
<1>1. TypeOK'
  <2>1. again' \in 0..MaxAgain
    BY BoundsAssumption DEF IInv, TypeOK, ReadAgain
  <2> QED
    BY <2>1, EnqueueTyped DEF IInv, TypeOK, QueueTypeOK, ReadAgain, rowVars, runVars
<1>2. RoundsBegin' /\ OneRunStores' /\ ReadyIsWhole'
  BY RowsMove DEF IInv, TypeOK, ReadAgain, rowVars, runVars
<1> QED
  BY <1>1, <1>2 DEF IInv

LEMMA RetryChecksKeeps == ASSUME NEW d \in Docs, IInv, RetryChecks(d) PROVE IInv'
<1>1. TypeOK'
  <2>1. again' \in 0..MaxAgain
    BY BoundsAssumption DEF IInv, TypeOK, RetryChecks
  <2> QED
    BY <2>1 DEF IInv, TypeOK, RetryChecks, rowVars, queueVars, runVars
<1>2. RoundsBegin' /\ OneRunStores' /\ ReadyIsWhole'
  BY RowsMove DEF RetryChecks, rowVars, runVars
<1> QED
  BY <1>1, <1>2 DEF IInv

LEMMA RetryWritesKeeps == ASSUME NEW d \in Docs, IInv, RetryWrites(d) PROVE IInv'
<1>1. CASE Exists(d)
  <2>1. rag' = [rag EXCEPT ![d] = "PENDING"] /\ Enqueue(d)
    BY <1>1 DEF RetryWrites
  <2>2. TypeOK'
    BY <2>1, EnqueueTyped DEF IInv, TypeOK, QueueTypeOK, RetryWrites, runVars, RagStatus
  <2>3. RoundsBegin' /\ OneRunStores' /\ ReadyIsWhole'
    BY <1>1, <2>1, RowsMove DEF IInv, TypeOK, RetryWrites, runVars, Exists
  <2> QED
    BY <2>2, <2>3 DEF IInv
<1>2. CASE ~Exists(d)
  <2>1. UNCHANGED <<rag, queueVars, faults>>
    BY <1>2 DEF RetryWrites
  <2>2. TypeOK'
    BY <2>1 DEF IInv, TypeOK, RetryWrites, queueVars, runVars
  <2>3. RoundsBegin' /\ OneRunStores' /\ ReadyIsWhole'
    BY <2>1, RowsMove DEF RetryWrites, runVars
  <2> QED
    BY <2>2, <2>3 DEF IInv
<1> QED
  BY <1>1, <1>2

LEMMA DeleteKeeps == ASSUME NEW d \in Docs, IInv, Delete(d) PROVE IInv'
<1>1. TypeOK'
  BY DEF IInv, TypeOK, Delete, queueVars, runVars, RagStatus
<1>2. RoundsBegin' /\ OneRunStores' /\ ReadyIsWhole'
  BY RowsMove DEF IInv, TypeOK, Delete, runVars
<1> QED
  BY <1>1, <1>2 DEF IInv

LEMMA AgeKeeps == ASSUME NEW d \in Docs, IInv, Age(d) PROVE IInv'
<1>1. TypeOK'
  BY DEF IInv, TypeOK, Age, queueVars, runVars
<1>2. RoundsBegin' /\ OneRunStores' /\ ReadyIsWhole'
  BY RowsMove DEF Age, runVars
<1> QED
  BY <1>1, <1>2 DEF IInv

LEMMA EvictKeeps == ASSUME NEW d \in Docs, IInv, Evict(d) PROVE IInv'
<1>1. TypeOK'
  BY DEF IInv, TypeOK, Evict, queueVars, runVars, RagStatus
<1>2. RoundsBegin' /\ OneRunStores' /\ ReadyIsWhole'
  BY RowsMove DEF IInv, TypeOK, Evict, runVars
<1> QED
  BY <1>1, <1>2 DEF IInv

-----------------------------------------------------------------------------
LEMMA ReloadListsKeeps == ASSUME NEW i \in Instances, IInv, ReloadLists(i) PROVE IInv'
<1>1. TypeOK'
  BY DEF IInv, TypeOK, ReloadLists, rowVars, runVars
<1>2. RoundsBegin' /\ OneRunStores' /\ ReadyIsWhole'
  BY RowsMove DEF ReloadLists, rowVars, runVars
<1> QED
  BY <1>1, <1>2 DEF IInv

LEMMA ReloadQueuesKeeps == ASSUME NEW i \in Instances, IInv, ReloadQueues(i) PROVE IInv'
<1> DEFINE Waiting == [doc : Docs, receipt : BOOLEAN]
           more == listed[i] \ AtHand(i)
<1>1. TypeOK'
  <2>1. PICK order \in [1..Cardinality(more) -> more] :
          wait' = [wait EXCEPT ![i] = @ \o [k \in DOMAIN order |-> [doc |-> order[k], receipt |-> FALSE]]]
    BY DEF ReloadQueues
  <2>2. Cardinality(more) \in Nat /\ more \subseteq Docs
    <3>1. more \in SUBSET Docs
      BY DEF IInv, TypeOK
    <3> QED
      BY <3>1, SetsAssumption, FS_Subset, FS_CardinalityType
  <2> DEFINE new == [k \in DOMAIN order |-> [doc |-> order[k], receipt |-> FALSE]]
  <2>3. DOMAIN order = 1..Cardinality(more) /\ \A k \in 1..Cardinality(more) : order[k] \in Docs
    BY <2>2
  <2>4. new \in Seq(Waiting)
    <3>1. \A k \in 1..Cardinality(more) : [doc |-> order[k], receipt |-> FALSE] \in Waiting
      BY <2>3
    <3>2. new = [k \in 1..Cardinality(more) |-> [doc |-> order[k], receipt |-> FALSE]]
      BY <2>3
    <3>3. new \in [1..Cardinality(more) -> Waiting]
      BY <3>1, <3>2, Zenon
    <3> HIDE DEF new, Waiting, more
    <3>4. Seq(Waiting) = UNION {[1..n -> Waiting] : n \in Nat}
      BY SeqDef, Zenon
    <3> QED
      BY <2>2, <3>3, <3>4, Zenon
  <2>5. wait[i] \in Seq(Waiting) /\ wait \in [Instances -> Seq(Waiting)]
    BY DEF IInv, TypeOK
  <2>6. wait[i] \o new \in Seq(Waiting)
    BY <2>4, <2>5, ConcatProperties
  <2>7. wait' \in [Instances -> Seq(Waiting)]
    BY <2>1, <2>5, <2>6
  <2> QED
    BY <2>7 DEF IInv, TypeOK, ReloadQueues, rowVars, runVars
<1>2. RoundsBegin' /\ OneRunStores' /\ ReadyIsWhole'
  BY RowsMove DEF ReloadQueues, rowVars, runVars
<1> QED
  BY <1>1, <1>2 DEF IInv

LEMMA ReceiveKeeps == ASSUME NEW i \in Instances, NEW d \in Docs, IInv, Receive(i, d) PROVE IInv'
<1> DEFINE Waiting == [doc : Docs, receipt : BOOLEAN]
<1>1. TypeOK'
  <2>1. sent' \in [Docs -> Nat]
    BY DEF IInv, TypeOK, Receive
  <2>2. wait[i] \in Seq(Waiting) /\ wait \in [Instances -> Seq(Waiting)]
    BY DEF IInv, TypeOK
  <2>3. Append(wait[i], [doc |-> d, receipt |-> TRUE]) \in Seq(Waiting)
    BY <2>2, AppendProperties
  <2>4. wait' \in [Instances -> Seq(Waiting)]
    BY <2>2, <2>3 DEF Receive
  <2> QED
    BY <2>1, <2>4 DEF IInv, TypeOK, Receive, rowVars, runVars
<1>2. RoundsBegin' /\ OneRunStores' /\ ReadyIsWhole'
  BY RowsMove DEF Receive, rowVars, runVars
<1> QED
  BY <1>1, <1>2 DEF IInv

LEMMA ReappearsKeeps ==
  ASSUME NEW i \in Instances, NEW k \in DOMAIN wait[i], IInv, Reappears(i, k) PROVE IInv'
<1> DEFINE Waiting == [doc : Docs, receipt : BOOLEAN]
<1>1. TypeOK'
  <2>1. wait[i] \in Seq(Waiting) /\ wait \in [Instances -> Seq(Waiting)]
    BY DEF IInv, TypeOK
  <2>2. wait[i][k] \in Waiting
    BY <2>1, ElementOfSeq, LenProperties
  <2>3. wait[i][k].doc \in Docs
    BY <2>2
  <2>4. sent' \in [Docs -> Nat]
    BY <2>3 DEF IInv, TypeOK, Reappears
  <2>5. [wait[i][k] EXCEPT !.receipt = FALSE] \in Waiting
    BY <2>2
  <2>6. [wait[i] EXCEPT ![k] = [wait[i][k] EXCEPT !.receipt = FALSE]] \in Seq(Waiting)
    BY <2>1, <2>5, ExceptSeq, LenProperties
  <2>7. wait' = [wait EXCEPT ![i] = [wait[i] EXCEPT ![k] = [wait[i][k] EXCEPT !.receipt = FALSE]]]
    BY DEF Reappears
  <2>8. wait' \in [Instances -> Seq(Waiting)]
    BY <2>1, <2>6, <2>7
  <2> QED
    BY <2>4, <2>8, FaultIsBounded DEF IInv, TypeOK, Reappears, rowVars, runVars
<1>2. RoundsBegin' /\ OneRunStores' /\ ReadyIsWhole'
  BY RowsMove DEF Reappears, rowVars, runVars
<1> QED
  BY <1>1, <1>2 DEF IInv

LEMMA RunOneKeeps == ASSUME NEW i \in Instances, NEW j \in Jobs, IInv, RunOne(i, j) PROVE IInv'
<1> DEFINE Waiting == [doc : Docs, receipt : BOOLEAN]
           head == Head(wait[i])
<1>1. /\ wait \in [Instances -> Seq(Waiting)] /\ wait[i] \in Seq(Waiting)
      /\ head \in Waiting /\ Tail(wait[i]) \in Seq(Waiting) /\ head.doc \in Docs
  <2>1. wait \in [Instances -> Seq(Waiting)] /\ wait[i] \in Seq(Waiting) /\ wait[i] # <<>>
    BY DEF IInv, TypeOK, RunOne
  <2>2. head \in Waiting /\ Tail(wait[i]) \in Seq(Waiting)
    BY <2>1, HeadTailProperties
  <2> QED
    BY <2>1, <2>2
<1>2. TypeOK'
  <2>1. wait' \in [Instances -> Seq(Waiting)]
    BY <1>1 DEF RunOne
  <2>2. /\ pc' \in [Jobs -> AtWork \cup {"idle"}]
        /\ doc' \in [Jobs -> Docs]
        /\ receipt' \in [Jobs -> BOOLEAN]
    BY <1>1 DEF IInv, TypeOK, RunOne, AtWork
  <2>3. held' \in SUBSET Jobs /\ together' \in SUBSET Docs
    BY <1>1 DEF IInv, TypeOK, RunOne
  <2> QED
    BY <2>1, <2>2, <2>3 DEF IInv, TypeOK, RunOne, rowVars
<1>3. RoundsBegin'
  BY DEF IInv, RoundsBegin, TypeOK, RunOne
<1>4. OneRunStores'
  <2> SUFFICES ASSUME NEW d \in Docs \ together'
               PROVE /\ \A k, l \in RunsOn(d)' : k = l
                     /\ \A k \in RunsOn(d)' : StoresInStep(k)'
    BY DEF OneRunStores
  <2>0. d \in Docs \ together /\ (RunsOn(d) = {} \/ head.doc # d)
    BY <1>1 DEF RunOne
  <2>1. /\ \A k, l \in RunsOn(d) : k = l
        /\ \A k \in RunsOn(d) : StoresInStep(k)
    BY <2>0 DEF IInv, OneRunStores
  <2>2. /\ pc[j] = "idle" /\ pc'[j] = "reads" /\ doc'[j] = head.doc
        /\ \A k \in Jobs : k # j => pc'[k] = pc[k] /\ doc'[k] = doc[k]
        /\ UNCHANGED <<rag, size, stored, round, seen>>
    BY DEF IInv, TypeOK, RunOne, rowVars
  <2>3. RunsOn(d)' = IF head.doc = d THEN {j} ELSE RunsOn(d)
    <3>1. CASE head.doc = d
      BY <2>0, <2>2, <3>1 DEF RunsOn, AtWork
    <3>2. CASE head.doc # d
      BY <2>2, <3>2 DEF RunsOn, AtWork
    <3> QED
      BY <3>1, <3>2
  <2>4. ASSUME NEW k \in RunsOn(d)' PROVE StoresInStep(k)'
    <3>1. CASE k = j
      BY <2>2, <3>1 DEF StoresInStep
    <3>2. CASE k # j
      <4>1. k \in RunsOn(d) /\ doc'[k] = d /\ doc[k] = d /\ pc'[k] = pc[k]
        BY <2>2, <2>3, <2>4, <3>2 DEF RunsOn
      <4>2. StoresInStep(k) /\ RoundsOf(d)' = RoundsOf(d)
        BY <2>1, <2>2, <4>1 DEF RoundsOf
      <4> QED
        BY <2>2, <4>1, <4>2 DEF StoresInStep
    <3> QED
      BY <3>1, <3>2
  <2> QED
    BY <2>1, <2>3, <2>4
<1>5. ReadyIsWhole'
  BY DEF IInv, ReadyIsWhole, Whole, RoundsOf, RunOne, rowVars
<1> QED
  BY <1>2, <1>3, <1>4, <1>5 DEF IInv

LEMMA TimesOutKeeps == ASSUME NEW j \in Jobs, IInv, TimesOut(j) PROVE IInv'
<1>1. TypeOK'
  BY DEF IInv, TypeOK, TimesOut, rowVars, queueVars
<1>2. RoundsBegin' /\ OneRunStores' /\ ReadyIsWhole'
  BY RowsMove DEF TimesOut, rowVars
<1> QED
  BY <1>1, <1>2 DEF IInv

LEMMA HangsKeeps == ASSUME NEW j \in Jobs, IInv, Hangs(j) PROVE IInv'
<1>1. TypeOK'
  BY FaultIsBounded DEF IInv, TypeOK, Hangs, rowVars, queueVars
<1>2. RoundsBegin' /\ OneRunStores' /\ ReadyIsWhole'
  BY RowsMove DEF Hangs, rowVars
<1> QED
  BY <1>1, <1>2 DEF IInv

LEMMA WakesKeeps == ASSUME NEW j \in Jobs, IInv, Wakes(j) PROVE IInv'
<1>1. TypeOK'
  BY DEF IInv, TypeOK, Wakes, rowVars, queueVars
<1>2. RoundsBegin' /\ OneRunStores' /\ ReadyIsWhole'
  BY RowsMove DEF Wakes, rowVars
<1> QED
  BY <1>1, <1>2 DEF IInv

LEMMA ReturnedIsCount == ASSUME TypeOK, NEW i \in Instances, NEW d \in Docs PROVE Returned(i, d) \in Nat
<1> DEFINE Waiting == [doc : Docs, receipt : BOOLEAN]
           runs == {j \in Jobs : pc[j] # "idle" /\ Home[j] = i /\ doc[j] = d /\ receipt[j]}
           places == {k \in DOMAIN wait[i] : wait[i][k] = [doc |-> d, receipt |-> TRUE]}
<1>1. Cardinality(runs) \in Nat
  <2>1. runs \in SUBSET Jobs
    OBVIOUS
  <2> QED
    BY <2>1, SetsAssumption, FS_Subset, FS_CardinalityType
<1>2. Cardinality(places) \in Nat
  <2> DEFINE queue == wait[i]
  <2>q. queue \in Seq(Waiting)
    BY DEF TypeOK
  <2> HIDE DEF Waiting
  <2>1. Len(queue) \in Nat /\ DOMAIN queue = 1..Len(queue)
    BY <2>q, LenProperties
  <2>2. IsFiniteSet(DOMAIN wait[i])
    BY <2>1, FS_Interval
  <2>3. places \in SUBSET (DOMAIN wait[i])
    OBVIOUS
  <2> QED
    BY <2>2, <2>3, FS_Subset, FS_CardinalityType
<1> QED
  BY <1>1, <1>2 DEF Returned

LEMMA CrashKeeps == ASSUME NEW i \in Instances, IInv, Crash(i) PROVE IInv'
<1> DEFINE dead == {j \in Jobs : pc[j] # "idle" /\ Home[j] = i}
<1>1. TypeOK'
  <2>1. sent' \in [Docs -> Nat]
    <3>1. sent' = [d \in Docs |-> sent[d] + Returned(i, d)]
      BY DEF Crash
    <3>2. ASSUME NEW d \in Docs PROVE sent[d] + Returned(i, d) \in Nat
      <4>1. Returned(i, d) \in Nat
        BY ReturnedIsCount DEF IInv
      <4>2. sent[d] \in Nat
        BY DEF IInv, TypeOK
      <4> QED
        BY <4>1, <4>2
    <3> QED
      BY <3>1, <3>2
  <2>2. wait' \in [Instances -> Seq([doc : Docs, receipt : BOOLEAN])]
    BY EmptySeq DEF IInv, TypeOK, Crash
  <2>3. /\ pc' \in [Jobs -> AtWork \cup {"idle"}]
        /\ round' \in [Jobs -> 1..Rounds]
        /\ seen' \in [Jobs -> SUBSET (Jobs \X (1..Rounds))]
    BY RoundsAssumption DEF IInv, TypeOK, Crash
  <2>4. receipt' \in [Jobs -> BOOLEAN]
    BY DEF IInv, TypeOK, Crash
  <2>5. /\ held' \in SUBSET Jobs /\ hung' \in SUBSET Jobs
        /\ listed' \in [Instances -> SUBSET Docs] /\ booting' \in SUBSET Instances
    BY DEF IInv, TypeOK, Crash
  <2>6. faults' \in 0..MaxFaults
    BY FaultIsBounded DEF IInv, Crash
  <2>7. UNCHANGED <<rag, size, old, stored, retrying, doc, together, again>>
    BY DEF Crash, rowVars
  <2> QED
    BY <2>1, <2>2, <2>3, <2>4, <2>5, <2>6, <2>7 DEF IInv, TypeOK
<1>2. RoundsBegin'
  BY DEF IInv, RoundsBegin, Crash
<1>3. UNCHANGED <<rag, size, stored, doc, together>>
      /\ \A j \in Jobs : pc'[j] \in AtWork => pc'[j] = pc[j] /\ round'[j] = round[j] /\ seen'[j] = seen[j]
  BY DEF Crash, rowVars, AtWork
<1>4. OneRunStores'
  <2> SUFFICES ASSUME NEW d \in Docs \ together
               PROVE /\ \A k, l \in RunsOn(d)' : k = l
                     /\ \A k \in RunsOn(d)' : StoresInStep(k)'
    BY <1>3 DEF OneRunStores
  <2>1. RunsOn(d)' \subseteq RunsOn(d)
    BY <1>3 DEF RunsOn
  <2>2. ASSUME NEW k \in RunsOn(d)' PROVE StoresInStep(k)'
    <3>1. StoresInStep(k) /\ doc[k] = d /\ doc' = doc
      BY <1>3, <2>1 DEF IInv, OneRunStores, RunsOn
    <3>2. pc'[k] = pc[k] /\ round'[k] = round[k] /\ seen'[k] = seen[k]
      BY <1>3 DEF RunsOn
    <3>3. RoundsOf(d)' = RoundsOf(d)
      BY <1>3 DEF RoundsOf
    <3> QED
      BY <1>3, <3>1, <3>2, <3>3 DEF StoresInStep
  <2> QED
    BY <2>1, <2>2 DEF IInv, OneRunStores
<1>5. ReadyIsWhole'
  BY <1>3 DEF IInv, ReadyIsWhole, Whole, RoundsOf
<1> QED
  BY <1>1, <1>2, <1>4, <1>5 DEF IInv

-----------------------------------------------------------------------------
\* A run at work goes on to the next thing it does.
LEMMA GoesTyped ==
  ASSUME TypeOK, NEW j \in Jobs, NEW from \in AtWork, NEW to \in AtWork, Goes(j, from, to)
  PROVE /\ UNCHANGED <<size, old, retrying, sent, wait, listed, booting, doc, receipt, held, hung, together, again>>
        /\ pc[j] = from /\ pc'[j] = to /\ doc[j] \in Docs
        /\ pc' \in [Jobs -> AtWork \cup {"idle"}]
        /\ \A k \in Jobs : k # j => pc'[k] = pc[k]
<1>1. pc[j] = from /\ pc' = [pc EXCEPT ![j] = to]
  BY DEF Goes
<1>2. pc \in [Jobs -> AtWork \cup {"idle"}] /\ doc \in [Jobs -> Docs]
  BY DEF TypeOK
<1>3. UNCHANGED <<size, old, retrying, sent, wait, listed, booting, doc, receipt, held, hung, together, again>>
  BY DEF Goes, queueVars
<1> QED
  BY <1>1, <1>2, <1>3

\* It writes nothing but, perhaps, the status of its document.
LEMMA RunGoes ==
  ASSUME IInv, NEW j \in Jobs, NEW from \in AtWork \ {"fills"}, NEW to \in AtWork, Goes(j, from, to),
         rag' \in [Docs -> RagStatus], faults' \in 0..MaxFaults,
         UNCHANGED <<stored, round, seen>>,
         \A d \in Docs : d # doc[j] => rag'[d] = rag[d],
         doc[j] \notin together /\ StoresInStep(j)
           => StoresInStep(j)' /\ (rag'[doc[j]] = "READY" => rag' = rag \/ Whole(doc[j]))
  PROVE IInv'
<1>1. /\ UNCHANGED <<size, old, retrying, sent, wait, listed, booting, doc, receipt, held, hung, together, again>>
      /\ pc[j] = from /\ pc'[j] = to /\ doc[j] \in Docs
      /\ pc' \in [Jobs -> AtWork \cup {"idle"}]
      /\ \A k \in Jobs : k # j => pc'[k] = pc[k]
  BY GoesTyped DEF IInv
<1>2. TypeOK'
  BY <1>1 DEF IInv, TypeOK
<1>3. pc[j] \in AtWork /\ round'[j] = 1
  BY <1>1 DEF IInv, RoundsBegin
<1>4. \A d \in Docs : Whole(d)' = Whole(d)
  BY <1>1 DEF Whole, RoundsOf
<1>5. doc[j] \notin together /\ rag'[doc[j]] = "READY" /\ rag' = rag => Whole(doc[j])
  BY <1>1 DEF IInv, ReadyIsWhole
<1>6. doc[j] \notin together /\ StoresInStep(j)
        => StoresInStep(j)' /\ \A d \in {doc[j]} : rag'[d] = "READY" => Whole(d)'
  BY <1>1, <1>4, <1>5
<1>7. RoundsBegin' /\ OneRunStores' /\ ReadyIsWhole'
  BY <1>1, <1>3, <1>6, RunMoves
<1> QED
  BY <1>2, <1>7 DEF IInv

LEMMA ReadsKeeps == ASSUME NEW j \in Jobs, IInv, Reads(j) PROVE IInv'
<1>1. PICK to \in {"extracts", "marks", "settled"} :
        /\ Goes(j, "reads", to) /\ UNCHANGED <<rag, stored, round, seen, faults>>
        /\ to = "extracts" => rag[doc[j]] = "PENDING"
  BY DEF Reads
<1>2. pc'[j] = to /\ doc' = doc
  BY <1>1, GoesTyped DEF IInv, AtWork
<1>3. StoresInStep(j)'
  BY <1>1, <1>2 DEF StoresInStep
<1>4. rag' \in [Docs -> RagStatus] /\ faults' \in 0..MaxFaults
  BY <1>1 DEF IInv, TypeOK
<1>5. "reads" \in AtWork \ {"fills"} /\ to \in AtWork
  BY DEF AtWork
<1> QED
  BY <1>1, <1>3, <1>4, <1>5, RunGoes

\* What a run's write of the status must not break.
LEMMA WritesKeep ==
  ASSUME NEW j \in Jobs, IInv, NEW from \in AtWork \ {"fills"}, NEW to \in {"extracts", "settled"},
         NEW status \in {"PENDING", "READY", "FAILED"}, Writes(j, from, status, to),
         to = "extracts" => status = "PENDING",
         status = "READY" => from = "readies"
  PROVE IInv'
<1>1. /\ Exists(doc[j]) /\ Goes(j, from, to)
      /\ rag' = [rag EXCEPT ![doc[j]] = status]
      /\ UNCHANGED <<stored, round, seen, faults>>
  BY DEF Writes
<1>2. "extracts" \in AtWork /\ "settled" \in AtWork
  BY DEF AtWork
<1>3. pc[j] = from /\ pc'[j] = to /\ UNCHANGED <<doc, size, together>> /\ doc[j] \in Docs
  BY <1>1, <1>2, GoesTyped DEF IInv
<1>4. rag \in [Docs -> RagStatus] /\ faults' \in 0..MaxFaults
  BY <1>1 DEF IInv, TypeOK
<1>5. rag' \in [Docs -> RagStatus] /\ rag'[doc[j]] = status /\ \A d \in Docs : d # doc[j] => rag'[d] = rag[d]
  BY <1>1, <1>3, <1>4 DEF RagStatus
<1>6. StoresInStep(j)'
  BY <1>3, <1>5 DEF StoresInStep
<1>7. ASSUME StoresInStep(j), rag'[doc[j]] = "READY" PROVE Whole(doc[j])
  <2>1. stored[doc[j]] = {j} \X RoundsOf(doc[j])
    BY <1>1, <1>3, <1>5, <1>7 DEF StoresInStep, Exists
  <2>2. \A n \in RoundsOf(doc[j]) : stored[doc[j]] \cap (Jobs \X {n}) = {<<j, n>>}
    BY <2>1
  <2> QED
    BY <2>2 DEF Whole
<1> QED
  BY <1>1, <1>2, <1>4, <1>5, <1>6, <1>7, RunGoes

LEMMA MarksPendingKeeps == ASSUME NEW j \in Jobs, IInv, MarksPending(j) PROVE IInv'
BY WritesKeep DEF MarksPending, AtWork

LEMMA MarksReadyKeeps == ASSUME NEW j \in Jobs, IInv, MarksReady(j) PROVE IInv'
BY WritesKeep DEF MarksReady, AtWork

LEMMA MarksFailedKeeps == ASSUME NEW j \in Jobs, IInv, MarksFailed(j) PROVE IInv'
BY WritesKeep DEF MarksFailed, AtWork

LEMMA EndsInKeeps == ASSUME NEW j \in Jobs, IInv, EndsIn(j) PROVE IInv'
<1>1. ASSUME NEW status \in {"FAILED", "PENDING"}, Writes(j, "ends", status, "settled") PROVE IInv'
  BY <1>1, WritesKeep DEF AtWork
<1>2. ASSUME IF Exists(doc[j]) THEN Fault ELSE UNCHANGED faults, Goes(j, "ends", "settled"),
             UNCHANGED <<rag, stored, round, seen>>
      PROVE IInv'
  <2>1. faults' \in 0..MaxFaults /\ rag' \in [Docs -> RagStatus]
    BY <1>2, FaultIsBounded DEF IInv, TypeOK
  <2>2. "ends" \in AtWork \ {"fills"} /\ "settled" \in AtWork
    BY DEF AtWork
  <2>3. pc'[j] = "settled" /\ doc' = doc
    BY <1>2, <2>2, GoesTyped DEF IInv
  <2>4. StoresInStep(j)'
    BY <2>3 DEF StoresInStep
  <2> QED
    BY <1>2, <2>1, <2>2, <2>4, RunGoes
<1> QED
  BY <1>1, <1>2 DEF EndsIn

LEMMA ExtractsKeeps == ASSUME NEW j \in Jobs, IInv, Extracts(j) PROVE IInv'
<1>1. faults' \in 0..MaxFaults /\ rag' \in [Docs -> RagStatus] /\ UNCHANGED <<rag, stored, round, seen>>
  <2>1. UNCHANGED faults \/ Fault
    BY DEF Extracts
  <2> QED
    BY <2>1, FaultIsBounded DEF IInv, TypeOK, Extracts
<1>2. PICK to \in {"clears", "replaces", "failing"} :
        /\ Goes(j, "extracts", to)
        /\ to = "clears" => size[doc[j]] = "large"
        /\ to = "replaces" => size[doc[j]] # "large"
  BY DEF Extracts
<1>3. "extracts" \in AtWork \ {"fills"} /\ to \in AtWork
  BY DEF AtWork
<1>4. pc[j] = "extracts" /\ pc'[j] = to /\ UNCHANGED <<doc, size>>
  BY <1>2, <1>3, GoesTyped DEF IInv
<1>5. StoresInStep(j) => StoresInStep(j)'
  BY <1>1, <1>2, <1>4 DEF StoresInStep
<1> QED
  BY <1>1, <1>2, <1>3, <1>5, RunGoes

LEMMA VerifiesKeeps == ASSUME NEW j \in Jobs, IInv, Verifies(j) PROVE IInv'
<1>1. PICK to \in {"readies", "failing"} : Goes(j, "verifies", to)
  BY DEF Verifies
<1>2. UNCHANGED <<rag, stored, round, seen>> /\ faults' \in 0..MaxFaults /\ rag' \in [Docs -> RagStatus]
  BY DEF Verifies, IInv, TypeOK
<1>3. "verifies" \in AtWork \ {"fills"} /\ to \in AtWork
  BY DEF AtWork
<1>4. pc[j] = "verifies" /\ pc'[j] = to /\ UNCHANGED <<doc, size>>
  BY <1>1, <1>3, GoesTyped DEF IInv
<1>5. StoresInStep(j) => StoresInStep(j)'
  <2>1. \A d : RoundsOf(d)' = RoundsOf(d)
    BY <1>4 DEF RoundsOf
  <2> QED
    BY <1>2, <1>4, <2>1 DEF StoresInStep
<1> QED
  BY <1>1, <1>2, <1>3, <1>5, RunGoes

-----------------------------------------------------------------------------
\* A run changes the chunks of its document, which is not READY then.
LEMMA RunStores ==
  ASSUME IInv, NEW j \in Jobs, NEW from \in AtWork, NEW to \in AtWork, Goes(j, from, to),
         from \in {"replaces", "swaps", "clears", "fills", "cleans"} \/ UNCHANGED stored,
         UNCHANGED rag, faults' \in 0..MaxFaults,
         stored' \in [Docs -> SUBSET (Jobs \X (1..Rounds))],
         seen' \in [Jobs -> SUBSET (Jobs \X (1..Rounds))],
         round' \in [Jobs -> 1..Rounds],
         \A k \in Jobs : k # j => round'[k] = round[k] /\ seen'[k] = seen[k],
         \A d \in Docs : d # doc[j] => stored'[d] = stored[d],
         to # "fills" => round'[j] = 1,
         doc[j] \notin together /\ StoresInStep(j) => StoresInStep(j)'
  PROVE IInv'
<1>1. /\ UNCHANGED <<size, old, retrying, sent, wait, listed, booting, doc, receipt, held, hung, together, again>>
      /\ pc[j] = from /\ pc'[j] = to /\ doc[j] \in Docs
      /\ pc' \in [Jobs -> AtWork \cup {"idle"}]
      /\ \A k \in Jobs : k # j => pc'[k] = pc[k]
  BY GoesTyped DEF IInv
<1>2. TypeOK'
  BY <1>1 DEF IInv, TypeOK
<1>3. ASSUME doc[j] \notin together, StoresInStep(j)
      PROVE StoresInStep(j)' /\ \A d \in {doc[j]} : rag'[d] = "READY" => Whole(d)'
  <2>1. CASE from \in {"replaces", "swaps", "clears", "fills", "cleans"}
    <3>1. rag'[doc[j]] # "READY"
      BY <1>1, <1>3, <2>1 DEF StoresInStep
    <3> QED
      BY <1>3, <3>1
  <2>2. CASE UNCHANGED stored
    <3>1. rag[doc[j]] = "READY" => Whole(doc[j])
      BY <1>1, <1>3 DEF IInv, ReadyIsWhole
    <3>2. Whole(doc[j]) => \A d \in {doc[j]} : Whole(d)'
      BY <1>1, <2>2 DEF Whole, RoundsOf
    <3> QED
      BY <1>3, <3>1, <3>2
  <2> QED
    BY <2>1, <2>2
<1>4. RoundsBegin' /\ OneRunStores' /\ ReadyIsWhole'
  BY <1>1, <1>3, RunMoves
<1> QED
  BY <1>2, <1>4 DEF IInv

LEMMA ReplacesKeeps == ASSUME NEW j \in Jobs, IInv, Replaces(j) PROVE IInv'
<1>1. "replaces" \in AtWork /\ "swaps" \in AtWork
  BY DEF AtWork
<1>2. /\ Goes(j, "replaces", "swaps") /\ UNCHANGED <<rag, stored, round, faults>>
      /\ seen' = [seen EXCEPT ![j] = stored[doc[j]]]
  BY DEF Replaces
<1>3. pc[j] = "replaces" /\ pc'[j] = "swaps" /\ UNCHANGED <<doc, size>> /\ doc[j] \in Docs
  BY <1>1, <1>2, GoesTyped DEF IInv
<1>4. /\ faults' \in 0..MaxFaults /\ round' \in [Jobs -> 1..Rounds] /\ round'[j] = 1
      /\ stored' \in [Docs -> SUBSET (Jobs \X (1..Rounds))]
  BY <1>2, <1>3 DEF IInv, TypeOK, RoundsBegin
<1>5. /\ seen' \in [Jobs -> SUBSET (Jobs \X (1..Rounds))]
      /\ seen'[j] = stored[doc[j]] /\ \A k \in Jobs : k # j => seen'[k] = seen[k]
  BY <1>2, <1>3 DEF IInv, TypeOK
<1>6. StoresInStep(j) => StoresInStep(j)'
  BY <1>2, <1>3, <1>5 DEF StoresInStep
<1> QED
  BY <1>1, <1>2, <1>4, <1>5, <1>6, RunStores

LEMMA SwapsKeeps == ASSUME NEW j \in Jobs, IInv, Swaps(j) PROVE IInv'
<1>1. "swaps" \in AtWork /\ "verifies" \in AtWork
  BY DEF AtWork
<1>2. /\ Goes(j, "swaps", "verifies") /\ UNCHANGED <<rag, round, faults>>
      /\ seen' = [seen EXCEPT ![j] = {}]
      /\ stored' = [stored EXCEPT ![doc[j]] = (@ \ seen[j]) \cup {<<j, 1>>}]
  BY DEF Swaps
<1>3. pc[j] = "swaps" /\ pc'[j] = "verifies" /\ UNCHANGED <<doc, size>> /\ doc[j] \in Docs
  BY <1>1, <1>2, GoesTyped DEF IInv
<1>4. faults' \in 0..MaxFaults /\ round' \in [Jobs -> 1..Rounds] /\ round'[j] = 1
  BY <1>2, <1>3 DEF IInv, TypeOK, RoundsBegin
<1>5. seen' \in [Jobs -> SUBSET (Jobs \X (1..Rounds))] /\ \A k \in Jobs : k # j => seen'[k] = seen[k]
  BY <1>2 DEF IInv, TypeOK
<1>6. /\ stored' \in [Docs -> SUBSET (Jobs \X (1..Rounds))]
      /\ stored'[doc[j]] = (stored[doc[j]] \ seen[j]) \cup {<<j, 1>>}
      /\ \A d \in Docs : d # doc[j] => stored'[d] = stored[d]
  <2>1. stored \in [Docs -> SUBSET (Jobs \X (1..Rounds))]
    BY DEF IInv, TypeOK
  <2>2. <<j, 1>> \in Jobs \X (1..Rounds)
    BY RoundsAssumption
  <2>3. (stored[doc[j]] \ seen[j]) \cup {<<j, 1>>} \in SUBSET (Jobs \X (1..Rounds))
    BY <1>3, <2>1, <2>2
  <2> QED
    BY <1>2, <1>3, <2>1, <2>3
<1>7. StoresInStep(j) => StoresInStep(j)'
  <2> SUFFICES ASSUME StoresInStep(j) PROVE StoresInStep(j)'
    OBVIOUS
  <2>1. RoundsOf(doc[j])' = {1}
    BY <1>3 DEF StoresInStep, RoundsOf
  <2>2. rag[doc[j]] # "gone" => stored'[doc[j]] = {<<j, 1>>}
    BY <1>3, <1>6 DEF StoresInStep
  <2>3. {<<j, 1>>} = {j} \X {1}
    OBVIOUS
  <2> QED
    BY <1>2, <1>3, <2>1, <2>2, <2>3 DEF StoresInStep
<1> QED
  BY <1>1, <1>2, <1>4, <1>5, <1>6, <1>7, RunStores

LEMMA ClearsKeeps == ASSUME NEW j \in Jobs, IInv, Clears(j) PROVE IInv'
<1>1. "clears" \in AtWork /\ "fills" \in AtWork
  BY DEF AtWork
<1>2. /\ Goes(j, "clears", "fills") /\ UNCHANGED <<rag, round, seen, faults>>
      /\ stored' = [stored EXCEPT ![doc[j]] = {}]
  BY DEF Clears
<1>3. pc[j] = "clears" /\ pc'[j] = "fills" /\ UNCHANGED <<doc, size>> /\ doc[j] \in Docs
  BY <1>1, <1>2, GoesTyped DEF IInv
<1>4. /\ faults' \in 0..MaxFaults /\ round' \in [Jobs -> 1..Rounds] /\ round'[j] = 1
      /\ seen' \in [Jobs -> SUBSET (Jobs \X (1..Rounds))]
  BY <1>2, <1>3 DEF IInv, TypeOK, RoundsBegin
<1>5. /\ stored' \in [Docs -> SUBSET (Jobs \X (1..Rounds))] /\ stored'[doc[j]] = {}
      /\ \A d \in Docs : d # doc[j] => stored'[d] = stored[d]
  BY <1>2, <1>3 DEF IInv, TypeOK
<1>6. StoresInStep(j) => StoresInStep(j)'
  <2>1. {j} \X (1..(1 - 1)) = {}
    OBVIOUS
  <2> QED
    BY <1>2, <1>3, <1>4, <1>5, <2>1 DEF StoresInStep
<1> QED
  BY <1>1, <1>2, <1>4, <1>5, <1>6, RunStores

LEMMA FillsKeeps == ASSUME NEW j \in Jobs, IInv, Fills(j) PROVE IInv'
<1>1. "fills" \in AtWork /\ "verifies" \in AtWork
  BY DEF AtWork
<1>2. PICK to \in {"fills", "verifies"} :
        /\ Goes(j, "fills", to)
        /\ to = IF round[j] = Rounds THEN "verifies" ELSE "fills"
  BY DEF Fills
<1>3. /\ UNCHANGED <<rag, seen, faults>>
      /\ stored' = [stored EXCEPT ![doc[j]] = @ \cup {<<j, round[j]>>}]
      /\ round' = [round EXCEPT ![j] = IF @ = Rounds THEN 1 ELSE @ + 1]
  BY DEF Fills
<1>4. pc[j] = "fills" /\ pc'[j] = to /\ UNCHANGED <<doc, size>> /\ doc[j] \in Docs
  BY <1>1, <1>2, GoesTyped DEF IInv
<1>5. round \in [Jobs -> 1..Rounds] /\ round[j] \in 1..Rounds /\ Rounds \in Nat
  BY RoundsAssumption DEF IInv, TypeOK
<1>6. /\ round' \in [Jobs -> 1..Rounds] /\ \A k \in Jobs : k # j => round'[k] = round[k]
      /\ round'[j] = IF round[j] = Rounds THEN 1 ELSE round[j] + 1
  BY <1>3, <1>5
<1>7. faults' \in 0..MaxFaults /\ seen' \in [Jobs -> SUBSET (Jobs \X (1..Rounds))]
  BY <1>3 DEF IInv, TypeOK
<1>8. /\ stored' \in [Docs -> SUBSET (Jobs \X (1..Rounds))]
      /\ stored'[doc[j]] = stored[doc[j]] \cup {<<j, round[j]>>}
      /\ \A d \in Docs : d # doc[j] => stored'[d] = stored[d]
  <2>1. stored \in [Docs -> SUBSET (Jobs \X (1..Rounds))]
    BY DEF IInv, TypeOK
  <2>2. stored[doc[j]] \cup {<<j, round[j]>>} \in SUBSET (Jobs \X (1..Rounds))
    BY <1>4, <1>5, <2>1
  <2> QED
    BY <1>3, <1>4, <2>1, <2>2
<1>9. StoresInStep(j) => StoresInStep(j)'
  <2> SUFFICES ASSUME StoresInStep(j) PROVE StoresInStep(j)'
    OBVIOUS
  <2>1. rag[doc[j]] # "gone" => stored'[doc[j]] = {j} \X (1..round[j])
    <3>1. rag[doc[j]] # "gone" => stored[doc[j]] = {j} \X (1..(round[j] - 1))
      BY <1>4 DEF StoresInStep
    <3>2. 1..round[j] = (1..(round[j] - 1)) \cup {round[j]}
      BY <1>5
    <3>3. {j} \X (1..round[j]) = ({j} \X (1..(round[j] - 1))) \cup {<<j, round[j]>>}
      BY <3>2
    <3> QED
      BY <1>8, <3>1, <3>3
  <2>2. size[doc[j]] = "large" /\ RoundsOf(doc[j])' = 1..Rounds
    BY <1>4 DEF StoresInStep, RoundsOf
  <2>3. rag[doc[j]] \in {"PENDING", "FAILED", "gone"}
    BY <1>4 DEF StoresInStep
  <2>4. CASE round[j] = Rounds
    BY <1>2, <1>3, <1>4, <2>1, <2>2, <2>3, <2>4 DEF StoresInStep
  <2>5. CASE round[j] # Rounds
    <3>1. round'[j] - 1 = round[j] /\ to = "fills"
      BY <1>2, <1>5, <1>6, <2>5
    <3> QED
      BY <1>3, <1>4, <2>1, <2>2, <2>3, <3>1 DEF StoresInStep
  <2> QED
    BY <2>4, <2>5
<1>10. to # "fills" => round'[j] = 1
  BY <1>2, <1>6
<1> QED
  BY <1>1, <1>2, <1>3, <1>6, <1>7, <1>8, <1>9, <1>10, RunStores

LEMMA ThrowsKeeps == ASSUME NEW j \in Jobs, IInv, Throws(j) PROVE IInv'
<1>1. /\ pc[j] \in InTry /\ Goes(j, pc[j], IF Partial(j) THEN "cleans" ELSE "ends")
      /\ round' = [round EXCEPT ![j] = 1] /\ seen' = [seen EXCEPT ![j] = {}]
      /\ UNCHANGED <<rag, stored>>
  BY DEF Throws
<1>2. PICK to \in {"cleans", "ends"} : Goes(j, pc[j], to) /\ (to = "cleans" => pc[j] \in AfterClear)
  BY <1>1 DEF Partial
<1>3. pc[j] \in AtWork /\ to \in AtWork
  BY <1>1 DEF AtWork, InTry
<1>4. pc'[j] = to /\ UNCHANGED <<doc, size>> /\ doc[j] \in Docs
  BY <1>2, <1>3, GoesTyped DEF IInv
<1>5. faults' \in 0..MaxFaults
  <2>1. Fault \/ UNCHANGED faults
    BY DEF Throws
  <2> QED
    BY <2>1, FaultIsBounded DEF IInv, TypeOK
<1>6. /\ round' \in [Jobs -> 1..Rounds] /\ round'[j] = 1 /\ \A k \in Jobs : k # j => round'[k] = round[k]
      /\ seen' \in [Jobs -> SUBSET (Jobs \X (1..Rounds))] /\ \A k \in Jobs : k # j => seen'[k] = seen[k]
      /\ stored' \in [Docs -> SUBSET (Jobs \X (1..Rounds))]
  BY <1>1, RoundsAssumption DEF IInv, TypeOK
<1>7. StoresInStep(j) => StoresInStep(j)'
  BY <1>1, <1>2, <1>4 DEF StoresInStep, AfterClear
<1> QED
  BY <1>1, <1>2, <1>3, <1>5, <1>6, <1>7, RunStores

LEMMA CleansKeeps == ASSUME NEW j \in Jobs, IInv, Cleans(j) PROVE IInv'
<1>1. "cleans" \in AtWork /\ "ends" \in AtWork
  BY DEF AtWork
<1>2. Goes(j, "cleans", "ends") /\ UNCHANGED <<rag, round, seen>>
  BY DEF Cleans
<1>3. pc[j] = "cleans" /\ pc'[j] = "ends" /\ UNCHANGED <<doc, size>> /\ doc[j] \in Docs
  BY <1>1, <1>2, GoesTyped DEF IInv
<1>4. /\ round' \in [Jobs -> 1..Rounds] /\ round'[j] = 1
      /\ seen' \in [Jobs -> SUBSET (Jobs \X (1..Rounds))]
  BY <1>2, <1>3 DEF IInv, TypeOK, RoundsBegin
<1>5. faults' \in 0..MaxFaults
  <2>1. Fault \/ UNCHANGED faults
    BY DEF Cleans
  <2> QED
    BY <2>1, FaultIsBounded DEF IInv, TypeOK
<1>6. /\ stored' \in [Docs -> SUBSET (Jobs \X (1..Rounds))]
      /\ \A d \in Docs : d # doc[j] => stored'[d] = stored[d]
  BY <1>3 DEF Cleans, IInv, TypeOK
<1>7. StoresInStep(j)'
  BY <1>3 DEF StoresInStep
<1> QED
  BY <1>1, <1>2, <1>4, <1>5, <1>6, <1>7, RunStores

LEMMA SettlesKeeps == ASSUME NEW j \in Jobs, IInv, Settles(j) PROVE IInv'
<1>1. /\ pc[j] = "settled" /\ pc' = [pc EXCEPT ![j] = "idle"]
      /\ UNCHANGED <<rag, size, old, stored, retrying, wait, listed, booting, doc, round, seen, hung, together, again>>
      /\ held' = held \ {j} /\ receipt' = [receipt EXCEPT ![j] = FALSE]
  BY DEF Settles, rowVars
<1>2. TypeOK'
  <2>1. pc' \in [Jobs -> AtWork \cup {"idle"}] /\ held' \in SUBSET Jobs
    BY <1>1 DEF IInv, TypeOK
  <2>2. receipt' \in [Jobs -> BOOLEAN]
    BY <1>1 DEF IInv, TypeOK
  <2>3. sent' \in [Docs -> Nat] /\ faults' \in 0..MaxFaults
    <3>1. CASE UNCHANGED <<sent, faults>>
      BY <3>1 DEF IInv, TypeOK
    <3>2. CASE Fault /\ sent' = [sent EXCEPT ![doc[j]] = @ + 1]
      BY <3>2, FaultIsBounded DEF IInv, TypeOK
    <3> QED
      BY <3>1, <3>2 DEF Settles
  <2> QED
    BY <1>1, <2>1, <2>2, <2>3 DEF IInv, TypeOK
<1>3. pc'[j] = "idle" /\ \A k \in Jobs : k # j => pc'[k] = pc[k]
  BY <1>1 DEF IInv, TypeOK
<1>4. StoresInStep(j)'
  BY <1>1, <1>3 DEF StoresInStep
<1>5. doc[j] \notin together => \A d \in {doc[j]} : rag'[d] = "READY" => Whole(d)'
  <2>1. rag[doc[j]] = "READY" /\ doc[j] \notin together => Whole(doc[j])
    BY DEF IInv, TypeOK, ReadyIsWhole
  <2>2. Whole(doc[j]) => \A d \in {doc[j]} : Whole(d)'
    BY <1>1 DEF Whole, RoundsOf
  <2> QED
    BY <1>1, <2>1, <2>2
<1>6. pc[j] \in AtWork /\ round'[j] = 1 /\ UNCHANGED <<size, doc, together, rag, stored, round, seen>>
  BY <1>1 DEF IInv, RoundsBegin, AtWork
<1>7. RoundsBegin' /\ OneRunStores' /\ ReadyIsWhole'
  BY <1>3, <1>4, <1>5, <1>6, RunMoves
<1> QED
  BY <1>2, <1>7 DEF IInv

-----------------------------------------------------------------------------
LEMMA RunStepsKeep == ASSUME NEW j \in Jobs, IInv, RunSteps(j) PROVE IInv'
BY ReadsKeeps, MarksPendingKeeps, ExtractsKeeps, ReplacesKeeps, SwapsKeeps, ClearsKeeps, FillsKeeps,
   VerifiesKeeps, MarksReadyKeeps, MarksFailedKeeps, ThrowsKeeps, CleansKeeps, EndsInKeeps, SettlesKeeps
   DEF RunSteps

LEMMA DocStepsKeep == ASSUME NEW d \in Docs, IInv, DocSteps(d) PROVE IInv'
BY UploadKeeps, ReadAgainKeeps, RetryChecksKeeps, RetryWritesKeeps, DeleteKeeps, AgeKeeps, EvictKeeps
   DEF DocSteps

LEMMA QueueStepsKeep == ASSUME NEW i \in Instances, IInv, QueueSteps(i) PROVE IInv'
BY ReloadListsKeeps, ReloadQueuesKeeps, ReceiveKeeps, ReappearsKeeps, RunOneKeeps DEF QueueSteps

LEMMA NextKeeps == IInv /\ [Next]_vars => IInv'
<1> SUFFICES ASSUME IInv, [Next]_vars PROVE IInv'
  OBVIOUS
<1>1. ASSUME NEW d \in Docs, DocSteps(d) PROVE IInv'
  BY <1>1, DocStepsKeep
<1>2. ASSUME NEW i \in Instances, QueueSteps(i) \/ Crash(i) PROVE IInv'
  BY <1>2, QueueStepsKeep, CrashKeeps
<1>3. ASSUME NEW j \in Jobs, RunSteps(j) \/ TimesOut(j) \/ Hangs(j) \/ Wakes(j) PROVE IInv'
  BY <1>3, RunStepsKeep, TimesOutKeeps, HangsKeeps, WakesKeeps
<1>4. CASE UNCHANGED vars
  <2>1. UNCHANGED <<rag, size, old, stored, retrying, sent, wait, listed, booting>>
        /\ UNCHANGED <<pc, doc, receipt, round, seen, held, hung, together, again, faults>>
    BY <1>4 DEF vars, rowVars, queueVars, runVars
  <2>2. TypeOK'
    BY <2>1 DEF IInv, TypeOK
  <2>3. RoundsBegin' /\ OneRunStores' /\ ReadyIsWhole'
    BY <2>1, RowsMove
  <2> QED
    BY <2>2, <2>3 DEF IInv
<1> QED
  BY <1>1, <1>2, <1>3, <1>4 DEF Next

LEMMA IInvAlways == Spec => []IInv
BY InitIInv, NextKeeps, PTL DEF Spec

\* Rows, messages, waiting jobs and runs are what the queue and its service
\* keep them as, for any documents, servers, runs, rounds and faults.
THEOREM TypeSafety == Spec => []TypeOK
<1>1. IInv => TypeOK
  BY DEF IInv
<1> QED
  BY <1>1, IInvAlways, PTL

\* A document the code has marked READY has every round of its chunks, and each
\* once, whatever runs were lost, repeated, thrown out of, hung or killed before,
\* unless two runs of the document were at work at once.
THEOREM ReadyDocumentsAreWhole == Spec => []ReadyIsWhole
<1>1. IInv => ReadyIsWhole
  BY DEF IInv
<1> QED
  BY <1>1, IInvAlways, PTL
=============================================================================
