------------------------- MODULE DocumentExtraction -------------------------
(* Reading uploaded documents: a queue that delivers at least once and may    *)
(* lose a job, servers that read one document at a time, and a sweep that      *)
(* looks for what is not read yet. A run downloads, cuts into chunks, stores   *)
(* them in one transaction or round by round, counts them and marks the        *)
(* document READY; it may throw, hang past its deadline and wake, or die.      *)
(*   src/src/queues/document-extraction.queue.ts                              *)
(*   src/src/services/document-extraction.service.ts                          *)
EXTENDS Integers, FiniteSets, Sequences

CONSTANTS
  Docs, Instances,
  Jobs,      \* runs of process() that may be under way at once
  Home,      \* the instance of each
  Rounds,    \* how many rounds store a large document's chunks
  MaxAgain,  \* how often people have documents read again
  MaxFaults  \* how often something throws, is lost, hangs or stops

ASSUME SetsAssumption == IsFiniteSet(Docs) /\ IsFiniteSet(Jobs)
ASSUME RoundsAssumption == Rounds \in Nat \ {0, 1}
ASSUME HomeAssumption == Home \in [Jobs -> Instances]
ASSUME BoundsAssumption == MaxAgain \in Nat /\ MaxFaults \in Nat

VARIABLES
  rag,       \* ragStatus of the row
  size,      \* how much text there is to store
  old,       \* documents uploaded longer ago than PENDING_SWEEP_MIN_AGE_MS
  stored,    \* chunks: which run stored which round
  retrying,  \* documents retryDocument has found FAILED
  sent,      \* messages that may be received
  wait,      \* memoryWait of each instance
  listed,    \* what a reload has read and not yet queued
  booting,   \* instances that have not reloaded yet
  pc, doc, receipt, round, seen, \* of each run
  held,      \* runs that hold their instance's slot
  hung,      \* runs that wait for a call that does not answer
  together,  \* documents two of whose runs were at work at once (no code reads it)
  again, faults

rowVars == <<rag, size, old>>
queueVars == <<sent, wait, listed, booting>>
runVars == <<pc, doc, receipt, round, seen, held, hung, together>>
vars == <<rowVars, stored, retrying, queueVars, runVars, again, faults>>

RagStatus == {"none", "PENDING", "READY", "FAILED", "gone"}
Sizes == {"empty", "small", "large"}
AtWork == {"reads", "marks", "extracts", "replaces", "swaps", "clears", "fills",
           "verifies", "readies", "failing", "cleans", "ends", "settled"}

Exists(d) == rag[d] \notin {"none", "gone"}
Unread(d) == rag[d] \in {"PENDING", "FAILED"}
RoundsOf(d) == IF size[d] = "large" THEN 1..Rounds ELSE {1}
Active(i) == {j \in held : Home[j] = i}

\* Each of the document's rounds is there, and once.
Whole(d) == \A n \in RoundsOf(d) : \E j \in Jobs : stored[d] \cap (Jobs \X {n}) = {<<j, n>>}

Fault == faults < MaxFaults /\ faults' = faults + 1

Init ==
  /\ rag = [d \in Docs |-> "none"]
  /\ size \in [Docs -> Sizes]
  /\ old = {} /\ retrying = {}
  /\ stored = [d \in Docs |-> {}]
  /\ sent = [d \in Docs |-> 0]
  /\ wait = [i \in Instances |-> <<>>]
  /\ listed = [i \in Instances |-> {}]
  /\ booting = {}
  /\ pc = [j \in Jobs |-> "idle"]
  /\ doc \in [Jobs -> Docs]
  /\ receipt = [j \in Jobs |-> FALSE]
  /\ round = [j \in Jobs |-> 1]
  /\ seen = [j \in Jobs |-> {}]
  /\ held = {} /\ hung = {} /\ together = {}
  /\ again = 0 /\ faults = 0

-----------------------------------------------------------------------------
\* What people do.

\* The job is sent, kept in the server's memory when the send fails, or lost:
\* the server stops first, or the batch reports a failed entry nobody reads.
Enqueue(d) ==
  /\ UNCHANGED <<listed, booting>>
  /\ \/ sent' = [sent EXCEPT ![d] = @ + 1] /\ UNCHANGED <<wait, faults>>
     \/ /\ Fault /\ UNCHANGED sent
        /\ \E i \in Instances : wait' = [wait EXCEPT ![i] = Append(@, [doc |-> d, receipt |-> FALSE])]
     \/ Fault /\ UNCHANGED <<sent, wait>>

Upload(d) ==
  /\ rag[d] = "none"
  /\ rag' = [rag EXCEPT ![d] = "PENDING"]
  /\ Enqueue(d)
  /\ UNCHANGED <<size, old, stored, retrying, runVars, again>>

\* A document is moved to a case, or a refresh of the case finds it not read.
ReadAgain(d) ==
  /\ Exists(d) /\ again < MaxAgain
  /\ again' = again + 1
  /\ Enqueue(d)
  /\ UNCHANGED <<rowVars, stored, retrying, runVars>>

RetryChecks(d) ==
  /\ rag[d] = "FAILED" /\ d \notin retrying /\ again < MaxAgain
  /\ again' = again + 1
  /\ retrying' = retrying \cup {d}
  /\ UNCHANGED <<rowVars, stored, queueVars, runVars, faults>>

RetryWrites(d) ==
  /\ d \in retrying
  /\ retrying' = retrying \ {d}
  /\ IF Exists(d)
     THEN rag' = [rag EXCEPT ![d] = "PENDING"] /\ Enqueue(d)
     ELSE UNCHANGED <<rag, queueVars, faults>>
  /\ UNCHANGED <<size, old, stored, runVars, again>>

\* The chunks go with the row.
Delete(d) ==
  /\ Exists(d)
  /\ rag' = [rag EXCEPT ![d] = "gone"]
  /\ stored' = [stored EXCEPT ![d] = {}]
  /\ UNCHANGED <<size, old, retrying, queueVars, runVars, again, faults>>

-----------------------------------------------------------------------------
\* The queue of one server.

Age(d) ==
  /\ Exists(d) /\ d \notin old
  /\ old' = old \cup {d}
  /\ UNCHANGED <<rag, size, stored, retrying, queueVars, runVars, again, faults>>

\* evictStaleEmptyDocuments: an upload of 0 bytes, a day on.
Evict(d) ==
  /\ size[d] = "empty" /\ Unread(d) /\ d \in old
  /\ rag' = [rag EXCEPT ![d] = "gone"]
  /\ stored' = [stored EXCEPT ![d] = {}]
  /\ UNCHANGED <<size, old, retrying, queueVars, runVars, again, faults>>

\* Mutant: a reload that leaves FAILED documents out.
ReloadListsPending(i) ==
  /\ listed[i] = {}
  /\ listed' = [listed EXCEPT ![i] =
                  {d \in Docs : rag[d] = "PENDING" /\ (i \in booting \/ d \in old)}]
  /\ listed'[i] # {} \/ i \in booting
  /\ booting' = booting \ {i}
  /\ UNCHANGED <<rowVars, stored, retrying, sent, wait, runVars, again, faults>>

\* reloadStuckDocuments: of any age at boot, old ones in the sweep.
ReloadLists(i) ==
  /\ listed[i] = {}
  /\ listed' = [listed EXCEPT ![i] = {d \in Docs : Unread(d) /\ (i \in booting \/ d \in old)}]
  /\ listed'[i] # {} \/ i \in booting
  /\ booting' = booting \ {i}
  /\ UNCHANGED <<rowVars, stored, retrying, sent, wait, runVars, again, faults>>

AtHand(i) == {doc[j] : j \in Active(i)} \cup {wait[i][k].doc : k \in DOMAIN wait[i]}

ReloadQueues(i) ==
  /\ listed[i] # {}
  /\ \E order \in [1..Cardinality(listed[i] \ AtHand(i)) -> listed[i] \ AtHand(i)] :
       /\ \A d \in listed[i] \ AtHand(i) : \E k \in DOMAIN order : order[k] = d
       /\ wait' = [wait EXCEPT ![i] = @ \o [k \in DOMAIN order |-> [doc |-> order[k], receipt |-> FALSE]]]
  /\ listed' = [listed EXCEPT ![i] = {}]
  /\ UNCHANGED <<rowVars, stored, retrying, sent, booting, runVars, again, faults>>

\* One message at a time; a poll begun before a reload may return after it.
AtHandByMessage(i) ==
  {j \in Active(i) : receipt[j]} \cup {k \in DOMAIN wait[i] : wait[i][k].receipt}

Receive(i, d) ==
  /\ i \notin booting /\ sent[d] > 0
  /\ AtHandByMessage(i) = {}
  /\ sent' = [sent EXCEPT ![d] = @ - 1]
  /\ wait' = [wait EXCEPT ![i] = Append(@, [doc |-> d, receipt |-> TRUE])]
  /\ UNCHANGED <<rowVars, stored, retrying, listed, booting, runVars, again, faults>>

\* A message that waits behind a run is not renewed: it comes again.
Reappears(i, k) ==
  /\ Active(i) # {} /\ k \in DOMAIN wait[i] /\ wait[i][k].receipt
  /\ Fault
  /\ sent' = [sent EXCEPT ![wait[i][k].doc] = @ + 1]
  /\ wait' = [wait EXCEPT ![i][k].receipt = FALSE]
  /\ UNCHANGED <<rowVars, stored, retrying, listed, booting, runVars, again>>

RunsOn(d) == {j \in Jobs : pc[j] \in AtWork /\ doc[j] = d}

\* pump, runOne: the slot is taken, and a run begins, under any name not in use.
RunOne(i, j) ==
  /\ i \notin booting /\ Active(i) = {} /\ wait[i] # <<>>
  /\ pc[j] = "idle" /\ Home[j] = i
  /\ j = CHOOSE k \in Jobs : pc[k] = "idle" /\ Home[k] = i
  /\ pc' = [pc EXCEPT ![j] = "reads"]
  /\ doc' = [doc EXCEPT ![j] = Head(wait[i]).doc]
  /\ receipt' = [receipt EXCEPT ![j] = Head(wait[i]).receipt]
  /\ held' = held \cup {j}
  /\ wait' = [wait EXCEPT ![i] = Tail(@)]
  /\ together' = together \cup (IF RunsOn(Head(wait[i]).doc) = {} THEN {} ELSE {Head(wait[i]).doc})
  /\ UNCHANGED <<rowVars, stored, retrying, sent, listed, booting, round, seen, hung, again, faults>>

\* A run still going past the deadline gives its slot up; it cannot be stopped.
TimesOut(j) ==
  /\ j \in hung /\ j \in held
  /\ held' = held \ {j}
  /\ UNCHANGED <<rowVars, stored, retrying, queueVars, pc, doc, receipt, round,
                 seen, hung, together, again, faults>>

\* finally: the message is deleted (or comes back), the slot is given up.
Settles(j) ==
  /\ pc[j] = "settled" /\ j \notin hung
  /\ pc' = [pc EXCEPT ![j] = "idle"]
  /\ held' = held \ {j}
  /\ receipt' = [receipt EXCEPT ![j] = FALSE]
  /\ \/ UNCHANGED <<sent, faults>>
     \/ receipt[j] /\ Fault /\ sent' = [sent EXCEPT ![doc[j]] = @ + 1]
  /\ UNCHANGED <<rowVars, stored, retrying, wait, listed, booting, doc, round,
                 seen, hung, together, again>>

\* The server stops and boots again: its memory and its runs are gone, the
\* messages it had received come back.
Returned(i, d) ==
  Cardinality({j \in Jobs : pc[j] # "idle" /\ Home[j] = i /\ doc[j] = d /\ receipt[j]})
    + Cardinality({k \in DOMAIN wait[i] : wait[i][k] = [doc |-> d, receipt |-> TRUE]})

Crash(i) ==
  LET dead == {j \in Jobs : pc[j] # "idle" /\ Home[j] = i} IN
  /\ Fault
  /\ pc' = [j \in Jobs |-> IF j \in dead THEN "idle" ELSE pc[j]]
  /\ receipt' = [j \in Jobs |-> receipt[j] /\ j \notin dead]
  /\ held' = held \ dead /\ hung' = hung \ dead
  /\ sent' = [d \in Docs |-> sent[d] + Returned(i, d)]
  /\ wait' = [wait EXCEPT ![i] = <<>>]
  /\ listed' = [listed EXCEPT ![i] = {}]
  /\ booting' = booting \cup {i}
  /\ round' = [j \in Jobs |-> IF j \in dead THEN 1 ELSE round[j]]
  /\ seen' = [j \in Jobs |-> IF j \in dead THEN {} ELSE seen[j]]
  /\ UNCHANGED <<rowVars, stored, retrying, doc, together, again>>

-----------------------------------------------------------------------------
\* One run of process().

Goes(j, from, to) ==
  /\ pc[j] = from /\ j \notin hung
  /\ pc' = [pc EXCEPT ![j] = to]
  /\ UNCHANGED <<size, old, retrying, queueVars, doc, receipt, held, hung, together, again>>

\* A write of a row that is gone throws; in the catch nothing is left to write.
Writes(j, from, status, to) ==
  /\ Exists(doc[j])
  /\ Goes(j, from, to)
  /\ rag' = [rag EXCEPT ![doc[j]] = status]
  /\ UNCHANGED <<stored, round, seen, faults>>

\* Mutant: a document that has been read is not marked PENDING first.
ReadsUnmarked(j) ==
  /\ Goes(j, "reads", IF Exists(doc[j]) THEN "extracts" ELSE "settled")
  /\ UNCHANGED <<rag, stored, round, seen, faults>>

Reads(j) ==
  \/ /\ Exists(doc[j])
     /\ Goes(j, "reads", IF rag[doc[j]] = "PENDING" THEN "extracts" ELSE "marks")
     /\ UNCHANGED <<rag, stored, round, seen, faults>>
  \/ /\ ~Exists(doc[j])
     /\ Goes(j, "reads", "settled")
     /\ UNCHANGED <<rag, stored, round, seen, faults>>

MarksPending(j) == Writes(j, "marks", "PENDING", "extracts")

\* Text was found, or not: an empty file has none, and OCR may fail.
Extracts(j) ==
  /\ Exists(doc[j])
  /\ \/ /\ size[doc[j]] # "empty" /\ UNCHANGED faults
        /\ Goes(j, "extracts", IF size[doc[j]] = "large" THEN "clears" ELSE "replaces")
     \/ /\ IF size[doc[j]] = "empty" THEN UNCHANGED faults ELSE Fault
        /\ Goes(j, "extracts", "failing")
  /\ UNCHANGED <<rag, stored, round, seen>>

\* The transaction of a small document: what its DELETE finds, and the commit.
Replaces(j) ==
  /\ Exists(doc[j])
  /\ Goes(j, "replaces", "swaps")
  /\ seen' = [seen EXCEPT ![j] = stored[doc[j]]]
  /\ UNCHANGED <<rag, stored, round, faults>>

Swaps(j) ==
  /\ Exists(doc[j])
  /\ Goes(j, "swaps", "verifies")
  /\ stored' = [stored EXCEPT ![doc[j]] = (@ \ seen[j]) \cup {<<j, 1>>}]
  /\ seen' = [seen EXCEPT ![j] = {}]
  /\ UNCHANGED <<rag, round, faults>>

\* A large document: its old chunks go first, then round after round.
Clears(j) ==
  /\ Exists(doc[j])
  /\ Goes(j, "clears", "fills")
  /\ stored' = [stored EXCEPT ![doc[j]] = {}]
  /\ UNCHANGED <<rag, round, seen, faults>>

\* Mutant: one round too many.
FillsOneMore(j) ==
  /\ Exists(doc[j])
  /\ Goes(j, "fills", IF round[j] > Rounds THEN "verifies" ELSE "fills")
  /\ stored' = [stored EXCEPT ![doc[j]] = @ \cup {<<j, round[j]>>}]
  /\ round' = [round EXCEPT ![j] = IF @ > Rounds THEN 1 ELSE @ + 1]
  /\ UNCHANGED <<rag, seen, faults>>

Fills(j) ==
  /\ Exists(doc[j])
  /\ Goes(j, "fills", IF round[j] = Rounds THEN "verifies" ELSE "fills")
  /\ stored' = [stored EXCEPT ![doc[j]] = @ \cup {<<j, round[j]>>}]
  /\ round' = [round EXCEPT ![j] = IF @ = Rounds THEN 1 ELSE @ + 1]
  /\ UNCHANGED <<rag, seen, faults>>

Verifies(j) ==
  /\ Goes(j, "verifies", IF Cardinality(stored[doc[j]]) = Cardinality(RoundsOf(doc[j]))
                         THEN "readies" ELSE "failing")
  /\ UNCHANGED <<rag, stored, round, seen, faults>>

MarksReady(j) == Writes(j, "readies", "READY", "settled")
MarksFailed(j) == Writes(j, "failing", "FAILED", "settled")

\* A call fails, or writes to a document that has been deleted.
InTry == {"reads", "marks", "extracts", "replaces", "swaps", "clears", "fills",
          "verifies", "readies", "failing"}
AfterClear == {"clears", "fills", "verifies", "readies", "failing"}
Partial(j) == size[doc[j]] = "large" /\ pc[j] \in AfterClear

Throws(j) ==
  /\ pc[j] \in InTry
  /\ IF Exists(doc[j]) THEN Fault ELSE pc[j] # "reads" /\ UNCHANGED faults
  /\ Goes(j, pc[j], IF Partial(j) THEN "cleans" ELSE "ends")
  /\ round' = [round EXCEPT ![j] = 1] /\ seen' = [seen EXCEPT ![j] = {}]
  /\ UNCHANGED <<rag, stored>>

Cleans(j) ==
  /\ Goes(j, "cleans", "ends")
  /\ \/ stored' = [stored EXCEPT ![doc[j]] = {}] /\ UNCHANGED faults
     \/ Fault /\ UNCHANGED stored
  /\ UNCHANGED <<rag, round, seen>>

\* FAILED, or PENDING after a 429, or no write at all.
EndsIn(j) ==
  \/ \E status \in {"FAILED", "PENDING"} : Writes(j, "ends", status, "settled")
  \/ /\ IF Exists(doc[j]) THEN Fault ELSE UNCHANGED faults
     /\ Goes(j, "ends", "settled")
     /\ UNCHANGED <<rag, stored, round, seen>>

\* A call does not answer, and may or may not after all. Jobs bounds how many
\* hang: one of each instance's does not.
Hangs(j) ==
  /\ pc[j] \in InTry /\ j \notin hung /\ Fault
  /\ \E k \in Jobs \ (hung \cup {j}) : Home[k] = Home[j]
  /\ hung' = hung \cup {j}
  /\ UNCHANGED <<rowVars, stored, retrying, queueVars, pc, doc, receipt, round,
                 seen, held, together, again>>

Wakes(j) ==
  /\ j \in hung
  /\ hung' = hung \ {j}
  /\ UNCHANGED <<rowVars, stored, retrying, queueVars, pc, doc, receipt, round,
                 seen, held, together, again, faults>>

-----------------------------------------------------------------------------
RunSteps(j) ==
  \/ Reads(j) \/ MarksPending(j) \/ Extracts(j)
  \/ Replaces(j) \/ Swaps(j) \/ Clears(j) \/ Fills(j)
  \/ Verifies(j) \/ MarksReady(j) \/ MarksFailed(j)
  \/ Throws(j) \/ Cleans(j) \/ EndsIn(j) \/ Settles(j)

DocSteps(d) ==
  \/ Upload(d) \/ ReadAgain(d) \/ RetryChecks(d) \/ RetryWrites(d)
  \/ Delete(d) \/ Age(d) \/ Evict(d)

QueueSteps(i) ==
  \/ ReloadLists(i) \/ ReloadQueues(i)
  \/ \E d \in Docs : Receive(i, d)
  \/ \E k \in DOMAIN wait[i] : Reappears(i, k)
  \/ \E j \in Jobs : RunOne(i, j)

Next ==
  \/ \E d \in Docs : DocSteps(d)
  \/ \E i \in Instances : QueueSteps(i) \/ Crash(i)
  \/ \E j \in Jobs : RunSteps(j) \/ TimesOut(j) \/ Hangs(j) \/ Wakes(j)

Spec == Init /\ [][Next]_vars

\* Servers work, sweep and time their runs out; documents grow old. Nothing is
\* asked of people, and a call that hangs need never answer.
Fairness ==
  /\ \A d \in Docs : WF_vars(Age(d)) /\ WF_vars(Evict(d))
  /\ \A i \in Instances : WF_vars(ReloadLists(i)) /\ WF_vars(ReloadQueues(i))
  /\ \A i \in Instances : WF_vars(\E j \in Jobs : RunOne(i, j))
  /\ \A j \in Jobs : WF_vars(RunSteps(j)) /\ WF_vars(TimesOut(j))

FairSpec == Spec /\ Fairness

-----------------------------------------------------------------------------
TypeOK ==
  /\ rag \in [Docs -> RagStatus] /\ size \in [Docs -> Sizes]
  /\ old \in SUBSET Docs /\ retrying \in SUBSET Docs
  /\ stored \in [Docs -> SUBSET (Jobs \X (1..Rounds))]
  /\ sent \in [Docs -> Nat]
  /\ wait \in [Instances -> Seq([doc : Docs, receipt : BOOLEAN])]
  /\ listed \in [Instances -> SUBSET Docs] /\ booting \in SUBSET Instances
  /\ pc \in [Jobs -> AtWork \cup {"idle"}]
  /\ doc \in [Jobs -> Docs]
  /\ receipt \in [Jobs -> BOOLEAN] /\ round \in [Jobs -> 1..Rounds]
  /\ seen \in [Jobs -> SUBSET (Jobs \X (1..Rounds))]
  /\ held \in SUBSET Jobs /\ hung \in SUBSET Jobs /\ together \in SUBSET Docs
  /\ again \in 0..MaxAgain /\ faults \in 0..MaxFaults

\* A READY document is searched with all of its text and nothing twice, after
\* any failed, killed or repeated run, unless two runs of it overlapped.
ReadyIsWhole == \A d \in Docs \ together : rag[d] = "READY" => Whole(d)

\* Every uploaded document is read in the end or, if there is nothing to read,
\* evicted: whatever job was lost, whatever call hung or failed, whichever
\* server stopped.
IsReadInTheEnd == \A d \in Docs : Unread(d) ~> rag[d] \in {"READY", "gone"}
=============================================================================
