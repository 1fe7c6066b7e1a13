--------------------------- MODULE ChatTurnProofs ---------------------------
(* Proofs about ChatTurn, for any turns, runs, instances and topics.          *)
EXTENDS ChatTurn, TLAPS, FiniteSetTheorems

\* A run is of a turn once it has been delivered, and a run that is about to
\* write DONE has written a row.
RunsInStep ==
  \A r \in Runs :
    /\ pc[r] # "idle" => job[r] \in Turns
    /\ pc[r] = "rows" => left[r] \in 1..Topics
    /\ pc[r] = "marks" => rows[job[r]] # {}

\* Of a turn never worked on twice at once there is one run at most at work,
\* and while it writes nobody else's rows are there.
OneAtWork ==
  \A t \in Turns \ together :
    /\ \A q, r \in Working(t) : q = r
    /\ \A r \in Working(t) : pc[r] = "rows" => RunsOf(rows[t]) \subseteq {r}
    /\ \A q, r \in RunsOf(rows[t]) : q = r

IInv == TypeOK /\ RunsInStep /\ OneAtWork /\ DoneHasReply

LEMMA InitIInv == Init => IInv
<1> SUFFICES ASSUME Init PROVE IInv
  OBVIOUS
<1>1. TypeOK
  BY TopicsAssumption DEF Init, TypeOK, Statuses, Stops
<1>2. RunsInStep
  BY DEF Init, RunsInStep
<1>3. OneAtWork
  BY DEF Init, OneAtWork, Working, RunsOf, AtWork
<1>4. DoneHasReply
  BY DEF Init, DoneHasReply
<1> QED
  BY <1>1, <1>2, <1>3, <1>4 DEF IInv

-----------------------------------------------------------------------------
\* What a row adds to the runs that have answered.
LEMMA RunsOfMore ==
  ASSUME NEW written, NEW w \in Runs \cup {None}, NEW k \in 0..Topics
  PROVE RunsOf(written \cup {<<w, k>>}) = RunsOf(written) \cup ({w} \ {None})
BY NoneAssumption DEF RunsOf

\* No new run at work, no new row, and a run that begins to write begins with
\* none: OneAtWork stays.
LEMMA NobodyJoins ==
  ASSUME OneAtWork, UNCHANGED <<rows, together>>,
         \A r \in Runs : pc'[r] \in AtWork => pc[r] \in AtWork /\ job'[r] = job[r],
         \A r \in Runs : pc'[r] = "rows" => pc[r] = "rows" \/ rows[job[r]] = {}
  PROVE OneAtWork'
<1> SUFFICES ASSUME NEW t \in Turns \ together
             PROVE /\ \A q, r \in Working(t)' : q = r
                   /\ \A r \in Working(t)' : pc'[r] = "rows" => RunsOf(rows[t]) \subseteq {r}
                   /\ \A q, r \in RunsOf(rows[t]) : q = r
  BY DEF OneAtWork
<1>1. Working(t)' \subseteq Working(t)
  BY DEF Working
<1>2. RunsOf({}) = {}
  BY DEF RunsOf
<1>3. \A q, r \in RunsOf(rows[t]) : q = r
  BY DEF OneAtWork
<1>4. \A q, r \in Working(t)' : q = r
  BY <1>1 DEF OneAtWork
<1>5. ASSUME NEW r \in Working(t)', pc'[r] = "rows" PROVE RunsOf(rows[t]) \subseteq {r}
  <2>1. r \in Working(t) /\ r \in Runs /\ job[r] = t
    BY <1>1, <1>5 DEF Working
  <2>2. CASE pc[r] = "rows"
    BY <2>1, <2>2 DEF OneAtWork
  <2>3. CASE rows[t] = {}
    BY <1>2, <2>3
  <2> QED
    BY <1>5, <2>1, <2>2, <2>3
<1> QED
  BY <1>3, <1>4, <1>5

-----------------------------------------------------------------------------
LEMMA AckKeeps == ASSUME NEW r \in Runs, IInv, Ack(r) PROVE IInv'
<1> USE DEF IInv
<1>1. TypeOK'
  BY HomeAssumption DEF TypeOK, Ack, RunsInStep, AtWork, Statuses, Goes, Tries, Elsewhere, sendVars, sweepVars
<1>2. RunsInStep'
  BY DEF TypeOK, Ack, RunsInStep, AtWork, Goes, Tries, Elsewhere
<1>3. OneAtWork'
  <2>1. \A q \in Runs : pc'[q] \in AtWork => pc[q] \in AtWork /\ job'[q] = job[q]
    BY DEF TypeOK, Ack, AtWork, Goes, Elsewhere
  <2>2. \A q \in Runs : pc'[q] = "rows" => pc[q] = "rows" \/ rows[job[q]] = {}
    BY DEF TypeOK, Ack, Goes
  <2> QED
    BY <2>1, <2>2, NobodyJoins DEF Ack, Elsewhere
<1>4. DoneHasReply'
  BY DEF TypeOK, Ack, RunsInStep, DoneHasReply, Goes, Tries, Elsewhere
<1> QED
  BY <1>1, <1>2, <1>3, <1>4

LEMMA ConsentWithdrawnKeeps == ASSUME NEW r \in Runs, IInv, ConsentWithdrawn(r) PROVE IInv'
<1> USE DEF IInv
<1>1. TypeOK'
  BY HomeAssumption DEF TypeOK, ConsentWithdrawn, RunsInStep, AtWork, Statuses, Goes, Tries, Elsewhere, sendVars, sweepVars
<1>2. RunsInStep'
  BY DEF TypeOK, ConsentWithdrawn, RunsInStep, AtWork, Goes, Tries, Elsewhere
<1>3. OneAtWork'
  <2>1. \A q \in Runs : pc'[q] \in AtWork => pc[q] \in AtWork /\ job'[q] = job[q]
    BY DEF TypeOK, ConsentWithdrawn, AtWork, Goes, Elsewhere
  <2>2. \A q \in Runs : pc'[q] = "rows" => pc[q] = "rows" \/ rows[job[q]] = {}
    BY DEF TypeOK, ConsentWithdrawn, Goes
  <2> QED
    BY <2>1, <2>2, NobodyJoins DEF ConsentWithdrawn, Elsewhere
<1>4. DoneHasReply'
  BY DEF TypeOK, ConsentWithdrawn, RunsInStep, DoneHasReply, Goes, Tries, Elsewhere
<1> QED
  BY <1>1, <1>2, <1>3, <1>4

LEMMA StartKeeps == ASSUME NEW r \in Runs, IInv, Start(r) PROVE IInv'
<1> USE DEF IInv
<1>1. TypeOK'
  BY HomeAssumption DEF TypeOK, Start, RunsInStep, AtWork, Statuses, Goes, Tries, Elsewhere, sendVars, sweepVars
<1>2. RunsInStep'
  BY DEF TypeOK, Start, RunsInStep, AtWork, Goes, Tries, Elsewhere
<1>3. OneAtWork'
  <2>1. \A q \in Runs : pc'[q] \in AtWork => pc[q] \in AtWork /\ job'[q] = job[q]
    BY DEF TypeOK, Start, AtWork, Goes, Elsewhere
  <2>2. \A q \in Runs : pc'[q] = "rows" => pc[q] = "rows" \/ rows[job[q]] = {}
    BY DEF TypeOK, Start, Goes
  <2> QED
    BY <2>1, <2>2, NobodyJoins DEF Start, Elsewhere
<1>4. DoneHasReply'
  BY DEF TypeOK, Start, RunsInStep, DoneHasReply, Goes, Tries, Elsewhere
<1> QED
  BY <1>1, <1>2, <1>3, <1>4

LEMMA ResolveKeeps == ASSUME NEW r \in Runs, IInv, Resolve(r) PROVE IInv'
<1> USE DEF IInv
<1>1. TypeOK'
  BY HomeAssumption DEF TypeOK, Resolve, RunsInStep, AtWork, Statuses, Goes, Tries, Elsewhere, sendVars, sweepVars
<1>2. RunsInStep'
  BY DEF TypeOK, Resolve, RunsInStep, AtWork, Goes, Tries, Elsewhere
<1>3. OneAtWork'
  <2>1. \A q \in Runs : pc'[q] \in AtWork => pc[q] \in AtWork /\ job'[q] = job[q]
    BY DEF TypeOK, Resolve, AtWork, Goes, Elsewhere
  <2>2. \A q \in Runs : pc'[q] = "rows" => pc[q] = "rows" \/ rows[job[q]] = {}
    BY DEF TypeOK, Resolve, Goes
  <2> QED
    BY <2>1, <2>2, NobodyJoins DEF Resolve, Elsewhere
<1>4. DoneHasReply'
  BY DEF TypeOK, Resolve, RunsInStep, DoneHasReply, Goes, Tries, Elsewhere
<1> QED
  BY <1>1, <1>2, <1>3, <1>4

LEMMA ChunkKeeps == ASSUME NEW r \in Runs, IInv, Chunk(r) PROVE IInv'
<1> USE DEF IInv
<1>1. TypeOK'
  BY HomeAssumption DEF TypeOK, Chunk, RunsInStep, AtWork, Statuses, Goes, Tries, Elsewhere, sendVars, sweepVars
<1>2. RunsInStep'
  BY DEF TypeOK, Chunk, RunsInStep, AtWork, Goes, Tries, Elsewhere
<1>3. OneAtWork'
  <2>1. \A q \in Runs : pc'[q] \in AtWork => pc[q] \in AtWork /\ job'[q] = job[q]
    BY DEF TypeOK, Chunk, AtWork, Goes, Elsewhere
  <2>2. \A q \in Runs : pc'[q] = "rows" => pc[q] = "rows" \/ rows[job[q]] = {}
    BY DEF TypeOK, Chunk, Goes
  <2> QED
    BY <2>1, <2>2, NobodyJoins DEF Chunk, Elsewhere
<1>4. DoneHasReply'
  BY DEF TypeOK, Chunk, RunsInStep, DoneHasReply, Goes, Tries, Elsewhere
<1> QED
  BY <1>1, <1>2, <1>3, <1>4

LEMMA PollKeeps == ASSUME NEW r \in Runs, IInv, Poll(r) PROVE IInv'
<1> USE DEF IInv
<1>1. TypeOK'
  BY HomeAssumption DEF TypeOK, Poll, RunsInStep, AtWork, Statuses, Goes, Tries, Elsewhere, sendVars, sweepVars
<1>2. RunsInStep'
  BY DEF TypeOK, Poll, RunsInStep, AtWork, Goes, Tries, Elsewhere
<1>3. OneAtWork'
  <2>1. \A q \in Runs : pc'[q] \in AtWork => pc[q] \in AtWork /\ job'[q] = job[q]
    BY DEF TypeOK, Poll, AtWork, Goes, Elsewhere
  <2>2. \A q \in Runs : pc'[q] = "rows" => pc[q] = "rows" \/ rows[job[q]] = {}
    BY DEF TypeOK, Poll, Goes
  <2> QED
    BY <2>1, <2>2, NobodyJoins DEF Poll, Elsewhere
<1>4. DoneHasReply'
  BY DEF TypeOK, Poll, RunsInStep, DoneHasReply, Goes, Tries, Elsewhere
<1> QED
  BY <1>1, <1>2, <1>3, <1>4

LEMMA StreamEndsKeeps == ASSUME NEW r \in Runs, IInv, StreamEnds(r) PROVE IInv'
<1> USE DEF IInv
<1>1. TypeOK'
  BY HomeAssumption DEF TypeOK, StreamEnds, RunsInStep, AtWork, Statuses, Goes, Tries, Elsewhere, sendVars, sweepVars
<1>2. RunsInStep'
  BY DEF TypeOK, StreamEnds, RunsInStep, AtWork, Goes, Tries, Elsewhere
<1>3. OneAtWork'
  <2>1. \A q \in Runs : pc'[q] \in AtWork => pc[q] \in AtWork /\ job'[q] = job[q]
    BY DEF TypeOK, StreamEnds, AtWork, Goes, Elsewhere
  <2>2. \A q \in Runs : pc'[q] = "rows" => pc[q] = "rows" \/ rows[job[q]] = {}
    BY DEF TypeOK, StreamEnds, Goes
  <2> QED
    BY <2>1, <2>2, NobodyJoins DEF StreamEnds, Elsewhere
<1>4. DoneHasReply'
  BY DEF TypeOK, StreamEnds, RunsInStep, DoneHasReply, Goes, Tries, Elsewhere
<1> QED
  BY <1>1, <1>2, <1>3, <1>4

LEMMA StreamFailsKeeps == ASSUME NEW r \in Runs, IInv, StreamFails(r) PROVE IInv'
<1> USE DEF IInv
<1>1. TypeOK'
  BY HomeAssumption DEF TypeOK, StreamFails, RunsInStep, AtWork, Statuses, Goes, Tries, Elsewhere, sendVars, sweepVars
<1>2. RunsInStep'
  BY DEF TypeOK, StreamFails, RunsInStep, AtWork, Goes, Tries, Elsewhere
<1>3. OneAtWork'
  <2>1. \A q \in Runs : pc'[q] \in AtWork => pc[q] \in AtWork /\ job'[q] = job[q]
    BY DEF TypeOK, StreamFails, AtWork, Goes, Elsewhere
  <2>2. \A q \in Runs : pc'[q] = "rows" => pc[q] = "rows" \/ rows[job[q]] = {}
    BY DEF TypeOK, StreamFails, Goes
  <2> QED
    BY <2>1, <2>2, NobodyJoins DEF StreamFails, Elsewhere
<1>4. DoneHasReply'
  BY DEF TypeOK, StreamFails, RunsInStep, DoneHasReply, Goes, Tries, Elsewhere
<1> QED
  BY <1>1, <1>2, <1>3, <1>4

LEMMA LooksAgainKeeps == ASSUME NEW r \in Runs, IInv, LooksAgain(r) PROVE IInv'
<1> USE DEF IInv
<1>1. TypeOK'
  BY HomeAssumption DEF TypeOK, LooksAgain, RunsInStep, AtWork, Statuses, Goes, Tries, Elsewhere, sendVars, sweepVars
<1>2. RunsInStep'
  BY DEF TypeOK, LooksAgain, RunsInStep, AtWork, Goes, Tries, Elsewhere
<1>3. OneAtWork'
  <2>1. \A q \in Runs : pc'[q] \in AtWork => pc[q] \in AtWork /\ job'[q] = job[q]
    BY DEF TypeOK, LooksAgain, AtWork, Goes, Elsewhere
  <2>2. \A q \in Runs : pc'[q] = "rows" => pc[q] = "rows" \/ rows[job[q]] = {}
    BY DEF TypeOK, LooksAgain, Goes
  <2> QED
    BY <2>1, <2>2, NobodyJoins DEF LooksAgain, Elsewhere
<1>4. DoneHasReply'
  BY DEF TypeOK, LooksAgain, RunsInStep, DoneHasReply, Goes, Tries, Elsewhere
<1> QED
  BY <1>1, <1>2, <1>3, <1>4

LEMMA FindsReplyKeeps == ASSUME NEW r \in Runs, IInv, FindsReply(r) PROVE IInv'
<1> USE DEF IInv
<1>1. TypeOK'
  BY HomeAssumption DEF TypeOK, FindsReply, RunsInStep, AtWork, Statuses, Goes, Tries, Elsewhere, sendVars, sweepVars
<1>2. RunsInStep'
  BY DEF TypeOK, FindsReply, RunsInStep, AtWork, Goes, Tries, Elsewhere
<1>3. OneAtWork'
  <2>1. \A q \in Runs : pc'[q] \in AtWork => pc[q] \in AtWork /\ job'[q] = job[q]
    BY DEF TypeOK, FindsReply, AtWork, Goes, Elsewhere
  <2>2. \A q \in Runs : pc'[q] = "rows" => pc[q] = "rows" \/ rows[job[q]] = {}
    BY DEF TypeOK, FindsReply, Goes
  <2> QED
    BY <2>1, <2>2, NobodyJoins DEF FindsReply, Elsewhere
<1>4. DoneHasReply'
  BY DEF TypeOK, FindsReply, RunsInStep, DoneHasReply, Goes, Tries, Elsewhere
<1> QED
  BY <1>1, <1>2, <1>3, <1>4

LEMMA MarkDoneKeeps == ASSUME NEW r \in Runs, IInv, MarkDone(r) PROVE IInv'
<1> USE DEF IInv
<1>1. TypeOK'
  BY HomeAssumption DEF TypeOK, MarkDone, RunsInStep, AtWork, Statuses, Goes, Tries, Elsewhere, sendVars, sweepVars
<1>2. RunsInStep'
  BY DEF TypeOK, MarkDone, RunsInStep, AtWork, Goes, Tries, Elsewhere
<1>3. OneAtWork'
  <2>1. \A q \in Runs : pc'[q] \in AtWork => pc[q] \in AtWork /\ job'[q] = job[q]
    BY DEF TypeOK, MarkDone, AtWork, Goes, Elsewhere
  <2>2. \A q \in Runs : pc'[q] = "rows" => pc[q] = "rows" \/ rows[job[q]] = {}
    BY DEF TypeOK, MarkDone, Goes
  <2> QED
    BY <2>1, <2>2, NobodyJoins DEF MarkDone, Elsewhere
<1>4. DoneHasReply'
  BY DEF TypeOK, MarkDone, RunsInStep, DoneHasReply, Goes, Tries, Elsewhere
<1> QED
  BY <1>1, <1>2, <1>3, <1>4

LEMMA FindsNoReplyKeeps == ASSUME NEW r \in Runs, IInv, FindsNoReply(r) PROVE IInv'
<1> USE DEF IInv
<1>1. TypeOK'
  <2>1. left' \in [Runs -> 0..Topics]
    BY TopicsAssumption DEF TypeOK, FindsNoReply
  <2> QED
    BY <2>1 DEF TypeOK, FindsNoReply, RunsInStep, AtWork, Statuses, Goes, Tries, Elsewhere, sendVars, sweepVars
<1>2. RunsInStep'
  BY TopicsAssumption DEF TypeOK, FindsNoReply, RunsInStep, AtWork, Goes, Tries, Elsewhere
<1>3. OneAtWork'
  <2>1. \A q \in Runs : pc'[q] \in AtWork => pc[q] \in AtWork /\ job'[q] = job[q]
    BY DEF TypeOK, FindsNoReply, AtWork, Goes, Elsewhere
  <2>2. \A q \in Runs : pc'[q] = "rows" => pc[q] = "rows" \/ rows[job[q]] = {}
    BY DEF TypeOK, FindsNoReply, Goes
  <2> QED
    BY <2>1, <2>2, NobodyJoins DEF FindsNoReply, Elsewhere
<1>4. DoneHasReply'
  BY DEF TypeOK, FindsNoReply, RunsInStep, DoneHasReply, Goes, Tries, Elsewhere
<1> QED
  BY <1>1, <1>2, <1>3, <1>4

LEMMA PersistFailsKeeps == ASSUME NEW r \in Runs, IInv, PersistFails(r) PROVE IInv'
<1> USE DEF IInv
<1>1. TypeOK'
  <2>1. left' \in [Runs -> 0..Topics]
    BY TopicsAssumption DEF TypeOK, PersistFails
  <2> QED
    BY <2>1 DEF TypeOK, PersistFails, RunsInStep, AtWork, Statuses, Goes, Tries, Elsewhere, sendVars, sweepVars
<1>2. RunsInStep'
  BY TopicsAssumption DEF TypeOK, PersistFails, RunsInStep, AtWork, Goes, Tries, Elsewhere
<1>3. OneAtWork'
  <2>1. \A q \in Runs : pc'[q] \in AtWork => pc[q] \in AtWork /\ job'[q] = job[q]
    BY DEF TypeOK, PersistFails, AtWork, Goes, Elsewhere
  <2>2. \A q \in Runs : pc'[q] = "rows" => pc[q] = "rows" \/ rows[job[q]] = {}
    BY DEF TypeOK, PersistFails, Goes
  <2> QED
    BY <2>1, <2>2, NobodyJoins DEF PersistFails, Elsewhere
<1>4. DoneHasReply'
  BY DEF TypeOK, PersistFails, RunsInStep, DoneHasReply, Goes, Tries, Elsewhere
<1> QED
  BY <1>1, <1>2, <1>3, <1>4

LEMMA CreateRowKeeps == ASSUME NEW r \in Runs, IInv, CreateRow(r) PROVE IInv'
<1> USE DEF IInv
<1>1. job[r] \in Turns /\ left[r] \in 1..Topics /\ pc[r] = "rows" /\ job' = job
  BY DEF CreateRow, RunsInStep, Goes, Elsewhere
<1>2. rows' = [rows EXCEPT ![job[r]] = rows[job[r]] \cup {<<r, left[r]>>}]
  BY DEF CreateRow
<1>3. TypeOK'
  <2>1. left' \in [Runs -> 0..Topics]
    BY <1>1, TopicsAssumption DEF TypeOK, CreateRow
  <2>2. rows[job[r]] \cup {<<r, left[r]>>} \in SUBSET ((Runs \cup {None}) \X (0..Topics))
    BY <1>1, TopicsAssumption DEF TypeOK
  <2>3. rows' \in [Turns -> SUBSET ((Runs \cup {None}) \X (0..Topics))]
    BY <1>1, <1>2, <2>2 DEF TypeOK
  <2> QED
    BY <2>1, <2>3 DEF TypeOK, CreateRow, AtWork, Goes, Elsewhere, sendVars, sweepVars
<1>4. RunsInStep'
  <2>1. \A q \in Runs : pc[q] = "marks" => rows'[job[q]] # {}
    BY <1>1, <1>2 DEF TypeOK, RunsInStep
  <2>2. rows'[job[r]] # {}
    BY <1>1, <1>2 DEF TypeOK
  <2>3. \A q \in Runs \ {r} : pc'[q] = pc[q] /\ left'[q] = left[q]
    BY DEF TypeOK, CreateRow, Goes
  <2>4. pc'[r] = "rows" => left'[r] \in 1..Topics
    BY <1>1, TopicsAssumption DEF TypeOK, CreateRow, Goes
  <2> QED
    BY <1>1, <2>1, <2>2, <2>3, <2>4 DEF RunsInStep
<1>5. OneAtWork'
  <2> SUFFICES ASSUME NEW t \in Turns \ together
               PROVE /\ \A q, p \in Working(t)' : q = p
                     /\ \A q \in Working(t)' : pc'[q] = "rows" => RunsOf(rows'[t]) \subseteq {q}
                     /\ \A q, p \in RunsOf(rows'[t]) : q = p
    BY DEF OneAtWork, CreateRow, Elsewhere
  <2>1. Working(t)' = Working(t)
    BY <1>1 DEF TypeOK, CreateRow, Working, AtWork, Goes
  <2>2. CASE job[r] = t
    <3>1. r \in Working(t)
      BY <1>1, <2>2 DEF Working, AtWork
    <3>2. RunsOf(rows'[t]) \subseteq {r}
      <4>1. RunsOf(rows[t]) \subseteq {r}
        BY <1>1, <3>1 DEF OneAtWork
      <4>2. RunsOf(rows[t] \cup {<<r, left[r]>>}) = RunsOf(rows[t]) \cup ({r} \ {None})
        BY <1>1, RunsOfMore, TopicsAssumption
      <4>3. rows'[t] = rows[t] \cup {<<r, left[r]>>}
        BY <1>1, <1>2, <2>2 DEF TypeOK
      <4> QED
        BY <4>1, <4>2, <4>3
    <3> QED
      BY <2>1, <3>1, <3>2 DEF OneAtWork
  <2>3. CASE job[r] # t
    <3>1. rows'[t] = rows[t] /\ \A q \in Working(t) : pc'[q] = pc[q]
      BY <1>2, <2>3 DEF TypeOK, Working, CreateRow, Goes
    <3> QED
      BY <2>1, <3>1 DEF OneAtWork
  <2> QED
    BY <2>2, <2>3
<1>6. DoneHasReply'
  BY <1>1, <1>2 DEF TypeOK, CreateRow, DoneHasReply, Elsewhere
<1> QED
  BY <1>3, <1>4, <1>5, <1>6

LEMMA AskChecksKeeps == ASSUME NEW t \in Turns, IInv, AskChecks(t) PROVE IInv'
<1> USE DEF IInv
<1>1. TypeOK'
  BY DEF TypeOK, AskChecks, Statuses, Stops, Tries, sendVars, runVars, sweepVars
<1>2. RunsInStep'
  BY DEF TypeOK, AskChecks, RunsInStep, Tries, sendVars, runVars, sweepVars
<1>3. OneAtWork'
  BY NobodyJoins DEF AskChecks, runVars
<1>4. DoneHasReply'
  BY DEF TypeOK, AskChecks, DoneHasReply, Tries, sendVars, runVars, sweepVars
<1> QED
  BY <1>1, <1>2, <1>3, <1>4

LEMMA ReappearsKeeps == ASSUME NEW t \in Turns, IInv, Reappears(t) PROVE IInv'
<1> USE DEF IInv
<1>1. TypeOK'
  BY DEF TypeOK, Reappears, Statuses, Stops, Tries, sendVars, runVars, sweepVars
<1>2. RunsInStep'
  BY DEF TypeOK, Reappears, RunsInStep, Tries, sendVars, runVars, sweepVars
<1>3. OneAtWork'
  BY NobodyJoins DEF Reappears, runVars
<1>4. DoneHasReply'
  BY DEF TypeOK, Reappears, DoneHasReply, Tries, sendVars, runVars, sweepVars
<1> QED
  BY <1>1, <1>2, <1>3, <1>4

LEMMA StopReadsKeeps == ASSUME NEW t \in Turns, IInv, StopReads(t) PROVE IInv'
<1> USE DEF IInv
<1>1. TypeOK'
  BY DEF TypeOK, StopReads, Statuses, Stops, Tries, sendVars, runVars, sweepVars
<1>2. RunsInStep'
  BY DEF TypeOK, StopReads, RunsInStep, Tries, sendVars, runVars, sweepVars
<1>3. OneAtWork'
  BY NobodyJoins DEF StopReads, runVars
<1>4. DoneHasReply'
  BY DEF TypeOK, StopReads, DoneHasReply, Tries, sendVars, runVars, sweepVars
<1> QED
  BY <1>1, <1>2, <1>3, <1>4

LEMMA MarkReplyCancelledKeeps == ASSUME NEW t \in Turns, IInv, MarkReplyCancelled(t) PROVE IInv'
<1> USE DEF IInv
<1>1. TypeOK'
  BY DEF TypeOK, MarkReplyCancelled, Statuses, Stops, Tries, sendVars, runVars, sweepVars
<1>2. RunsInStep'
  BY DEF TypeOK, MarkReplyCancelled, RunsInStep, Tries, sendVars, runVars, sweepVars
<1>3. OneAtWork'
  BY NobodyJoins DEF MarkReplyCancelled, runVars
<1>4. DoneHasReply'
  BY DEF TypeOK, MarkReplyCancelled, DoneHasReply, Tries, sendVars, runVars, sweepVars
<1> QED
  BY <1>1, <1>2, <1>3, <1>4

LEMMA AgeKeeps == ASSUME NEW t \in Turns, IInv, Age(t) PROVE IInv'
<1> USE DEF IInv
<1>1. TypeOK'
  BY DEF TypeOK, Age, Statuses, Stops, Tries, sendVars, runVars, sweepVars
<1>2. RunsInStep'
  BY DEF TypeOK, Age, RunsInStep, Tries, sendVars, runVars, sweepVars
<1>3. OneAtWork'
  BY NobodyJoins DEF Age, runVars
<1>4. DoneHasReply'
  BY DEF TypeOK, Age, DoneHasReply, Tries, sendVars, runVars, sweepVars
<1> QED
  BY <1>1, <1>2, <1>3, <1>4

LEMMA SweepWritesKeeps == ASSUME NEW t \in Turns, IInv, SweepWrites(t) PROVE IInv'
<1> USE DEF IInv
<1>1. TypeOK'
  BY DEF TypeOK, SweepWrites, Statuses, Stops, Tries, sendVars, runVars, sweepVars
<1>2. RunsInStep'
  BY DEF TypeOK, SweepWrites, RunsInStep, Tries, sendVars, runVars, sweepVars
<1>3. OneAtWork'
  BY NobodyJoins DEF SweepWrites, runVars
<1>4. DoneHasReply'
  BY DEF TypeOK, SweepWrites, DoneHasReply, Tries, sendVars, runVars, sweepVars
<1> QED
  BY <1>1, <1>2, <1>3, <1>4

LEMMA AskCreatesKeeps == ASSUME NEW t \in Turns, IInv, AskCreates(t) PROVE IInv'
<1> USE DEF IInv
<1>1. TypeOK'
  <2>1. queue' \in [Turns -> {"none", "waiting", "taken"}] /\ memory' \in SUBSET Turns
    BY DEF TypeOK, AskCreates
  <2> QED
    BY <2>1 DEF TypeOK, AskCreates, Statuses, runVars, sweepVars
<1>2. RunsInStep'
  BY DEF TypeOK, AskCreates, RunsInStep, runVars
<1>3. OneAtWork'
  BY NobodyJoins DEF AskCreates, runVars
<1>4. DoneHasReply'
  BY DEF TypeOK, AskCreates, DoneHasReply
<1> QED
  BY <1>1, <1>2, <1>3, <1>4

LEMMA StopSavesKeeps == ASSUME NEW t \in Turns, IInv, StopSaves(t) PROVE IInv'
<1> USE DEF IInv
<1>1. rows' = [rows EXCEPT ![t] = rows[t] \cup {<<None, 0>>}]
  BY DEF StopSaves
<1>2. TypeOK'
  <2>1. rows[t] \cup {<<None, 0>>} \in SUBSET ((Runs \cup {None}) \X (0..Topics))
    BY TopicsAssumption DEF TypeOK
  <2>2. rows' \in [Turns -> SUBSET ((Runs \cup {None}) \X (0..Topics))]
    BY <1>1, <2>1 DEF TypeOK
  <2> QED
    BY <2>2 DEF TypeOK, StopSaves, Stops, sendVars, runVars, sweepVars
<1>3. RunsInStep'
  <2>1. \A u \in Turns : rows[u] # {} => rows'[u] # {}
    BY <1>1 DEF TypeOK
  <2>2. pc' = pc /\ job' = job /\ left' = left
    BY DEF StopSaves, runVars
  <2> QED
    BY <2>1, <2>2 DEF RunsInStep
<1>4. ASSUME NEW u \in Turns PROVE RunsOf(rows'[u]) = RunsOf(rows[u])
  <2>0. 0 \in 0..Topics /\ None \in Runs \cup {None}
    BY TopicsAssumption
  <2>1. RunsOf(rows[t] \cup {<<None, 0>>}) = RunsOf(rows[t]) \cup ({None} \ {None})
    BY <2>0, RunsOfMore
  <2>2. rows'[u] = IF u = t THEN rows[t] \cup {<<None, 0>>} ELSE rows[u]
    BY <1>1 DEF TypeOK
  <2> QED
    BY <2>1, <2>2
<1>5. OneAtWork'
  <2>1. together' = together /\ pc' = pc /\ \A u \in Turns : Working(u)' = Working(u)
    BY DEF Working, StopSaves, runVars
  <2> QED
    BY <1>4, <2>1 DEF OneAtWork
<1>6. DoneHasReply'
  BY <1>1 DEF TypeOK, StopSaves, DoneHasReply
<1> QED
  BY <1>2, <1>3, <1>5, <1>6

LEMMA StopAbortsKeeps ==
  ASSUME NEW t \in Turns, NEW i \in Instances, IInv, StopAborts(t, i) PROVE IInv'
<1> USE DEF IInv
<1>1. TypeOK'
  BY DEF TypeOK, StopAborts, Stops, sendVars, sweepVars
<1>2. RunsInStep'
  BY DEF StopAborts, RunsInStep
<1>3. OneAtWork'
  BY NobodyJoins DEF StopAborts
<1>4. DoneHasReply'
  BY DEF StopAborts, DoneHasReply
<1> QED
  BY <1>1, <1>2, <1>3, <1>4

\* A delivery: a second run at work on the turn puts it in together.
LEMMA TakesKeeps ==
  ASSUME NEW r \in Runs, NEW t \in Turns, IInv, Takes(r, t),
         memory' \in SUBSET Turns, queue' \in [Turns -> {"none", "waiting", "taken"}]
  PROVE IInv'
<1> USE DEF IInv
<1>1. TypeOK'
  BY DEF TypeOK, Takes, AtWork, sweepVars
<1>2. RunsInStep'
  BY DEF TypeOK, Takes, RunsInStep
<1>3. OneAtWork'
  <2> SUFFICES ASSUME NEW u \in Turns \ together'
               PROVE /\ \A q, p \in Working(u)' : q = p
                     /\ \A q \in Working(u)' : pc'[q] = "rows" => RunsOf(rows[u]) \subseteq {q}
                     /\ \A q, p \in RunsOf(rows[u]) : q = p
    BY DEF OneAtWork, Takes
  <2>1. u \notin together
    BY DEF Takes
  <2>2. \A q \in Runs \ {r} : pc'[q] = pc[q] /\ job'[q] = job[q]
    BY DEF TypeOK, Takes
  <2>3. pc'[r] = "received" /\ job'[r] = t
    BY DEF TypeOK, Takes
  <2>4. CASE u = t
    <3>1. Working(t) = {}
      BY <2>4 DEF Takes
    <3>2. Working(u)' \subseteq {r}
      BY <2>2, <2>4, <3>1 DEF Working
    <3> QED
      BY <2>1, <2>3, <3>2 DEF OneAtWork
  <2>5. CASE u # t
    <3>1. Working(u)' \subseteq Working(u)
      BY <2>2, <2>3, <2>5 DEF Working
    <3>2. \A q \in Working(u)' : pc'[q] = pc[q]
      BY <2>2, <2>3, <2>5 DEF Working
    <3> QED
      BY <2>1, <3>1, <3>2 DEF OneAtWork
  <2> QED
    BY <2>4, <2>5
<1>4. DoneHasReply'
  BY DEF Takes, DoneHasReply
<1> QED
  BY <1>1, <1>2, <1>3, <1>4

LEMMA CrashKeeps == ASSUME NEW i \in Instances, IInv, Crash(i) PROVE IInv'
<1> USE DEF IInv
<1>1. TypeOK'
  BY DEF TypeOK, Crash, AtWork, sendVars, sweepVars
<1>2. RunsInStep'
  BY DEF TypeOK, Crash, RunsInStep, AtWork
<1>3. OneAtWork'
  <2>1. \A q \in Runs : pc'[q] \in AtWork => pc[q] \in AtWork /\ job'[q] = job[q]
    BY DEF Crash, AtWork
  <2>2. \A q \in Runs : pc'[q] = "rows" => pc[q] = "rows" \/ rows[job[q]] = {}
    BY DEF Crash
  <2> QED
    BY <2>1, <2>2, NobodyJoins DEF Crash
<1>4. DoneHasReply'
  BY DEF Crash, DoneHasReply
<1> QED
  BY <1>1, <1>2, <1>3, <1>4

LEMMA SweepReadsKeeps == ASSUME IInv, SweepReads PROVE IInv'
<1> USE DEF IInv
<1>1. TypeOK'
  BY DEF TypeOK, SweepReads, StalePending, sendVars, runVars
<1>2. RunsInStep' /\ DoneHasReply'
  BY DEF SweepReads, RunsInStep, DoneHasReply, runVars
<1>3. OneAtWork'
  BY NobodyJoins DEF SweepReads, runVars
<1> QED
  BY <1>1, <1>2, <1>3

-----------------------------------------------------------------------------
LEMMA RunStepsKeep == ASSUME NEW r \in Runs, IInv, RunSteps(r) PROVE IInv'
BY AckKeeps,
   ConsentWithdrawnKeeps,
   StartKeeps,
   ResolveKeeps,
   ChunkKeeps,
   PollKeeps,
   StreamEndsKeeps,
   StreamFailsKeeps,
   LooksAgainKeeps,
   FindsReplyKeeps,
   MarkDoneKeeps,
   FindsNoReplyKeeps,
   CreateRowKeeps,
   PersistFailsKeeps
DEF RunSteps

LEMMA TurnStepsKeep == ASSUME NEW t \in Turns, IInv, TurnSteps(t) PROVE IInv'
<1>1. ASSUME NEW r \in Runs, Receive(r, t) PROVE IInv'
  <2>1. memory' \in SUBSET Turns /\ queue' \in [Turns -> {"none", "waiting", "taken"}]
    BY <1>1 DEF IInv, TypeOK, Receive
  <2> QED
    BY <1>1, <2>1, TakesKeeps DEF Receive
<1>2. ASSUME NEW r \in Runs, RunFromMemory(r, t) PROVE IInv'
  <2>1. memory' \in SUBSET Turns /\ queue' \in [Turns -> {"none", "waiting", "taken"}]
    BY <1>2 DEF IInv, TypeOK, RunFromMemory
  <2> QED
    BY <1>2, <2>1, TakesKeeps DEF RunFromMemory
<1> QED
  BY <1>1, <1>2, AskChecksKeeps, AskCreatesKeeps, ReappearsKeeps, StopReadsKeeps,
     MarkReplyCancelledKeeps, StopAbortsKeeps, StopSavesKeeps, AgeKeeps, SweepWritesKeeps
  DEF TurnSteps

LEMMA NextKeeps == IInv /\ [Next]_vars => IInv'
<1> SUFFICES ASSUME IInv, [Next]_vars PROVE IInv'
  OBVIOUS
<1>1. CASE Next
  BY <1>1, RunStepsKeep, TurnStepsKeep, CrashKeeps, SweepReadsKeeps DEF Next
<1>2. CASE UNCHANGED vars
  <2>1. TypeOK' /\ RunsInStep' /\ DoneHasReply'
    BY <1>2 DEF vars, sendVars, runVars, sweepVars, IInv, TypeOK, RunsInStep, DoneHasReply
  <2>2. OneAtWork'
    BY <1>2, NobodyJoins DEF vars, runVars, IInv
  <2> QED
    BY <2>1, <2>2 DEF IInv
<1> QED
  BY <1>1, <1>2

THEOREM IInvAlways == Spec => []IInv
BY InitIInv, NextKeeps, PTL DEF Spec

\* The rows of messages, runs and registries keep their types.
THEOREM TypeCorrect == Spec => []TypeOK
BY IInvAlways, PTL DEF IInv

\* DONE means an answer to show, whatever crashed, was delivered again or was
\* given up before (persistAssistantTurn, setReplyStatus).
THEOREM DoneHasReplyAlways == Spec => []DoneHasReply
BY IInvAlways, PTL DEF IInv

LEMMA OneRunFollows == IInv => OneRunReplies
<1> SUFFICES ASSUME IInv, NEW t \in Turns \ together
             PROVE Cardinality(RunsOf(rows[t])) <= 1
  BY DEF OneRunReplies
<1>1. CASE RunsOf(rows[t]) = {}
  BY <1>1, FS_EmptySet
<1>2. CASE RunsOf(rows[t]) # {}
  <2>1. PICK r : r \in RunsOf(rows[t])
    BY <1>2
  <2>2. RunsOf(rows[t]) = {r}
    BY <2>1 DEF IInv, OneAtWork
  <2>3. Cardinality({r}) = 1
    BY FS_Singleton
  <2> QED
    BY <2>2, <2>3
<1> QED
  BY <1>1, <1>2

\* A turn never worked on by two deliveries at once has one run's answer only
\* (findAssistantReplyByParent in persistAssistantTurn).
THEOREM OneRunRepliesAlways == Spec => []OneRunReplies
BY IInvAlways, OneRunFollows, PTL
=============================================================================
