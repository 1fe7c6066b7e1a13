------------------------------ MODULE ChatTurn ------------------------------
(* One consultation's chat: a user message is a turn, its row is the job      *)
(* record of the answer, a worker generates the answer from a message of an   *)
(* at-least-once queue, a Stop may cancel it from any instance, and a sweep    *)
(* fails what has waited too long.                                            *)
(*   src/src/services/chat.service.ts                                         *)
(*   src/src/repositories/chat.repository.ts                                  *)
(*   src/src/queues/chat-generation.queue.ts                                  *)
EXTENDS Integers, FiniteSets

CONSTANTS
  Turns,     \* user messages, each sent at most once
  Runs,      \* deliveries of a job to a worker, each used at most once
  Instances, \* processes of the server
  Home,      \* the instance a run is on
  Topics,    \* the most rows one reply is split into
  ReadsFail, \* whether a look at the row may fail
  None

ASSUME HomeAssumption == Home \in [Runs -> Instances]
ASSUME ReadsFailAssumption == ReadsFail \in BOOLEAN
ASSUME TopicsAssumption == Topics \in Nat \ {0}
ASSUME NoneAssumption == None \notin Turns \cup Runs

VARIABLES
  status,   \* replyStatus of the turn's row
  rows,     \* the assistant rows that answer it: <<who wrote it, which topic>>
  last,     \* the latest message: a turn, or None for an assistant's
  asked,    \* turns whose sender found no pending turn
  queue,    \* the job's message in the queue
  memory,   \* turns whose job a server keeps in memory
  pc, job, aborted, left, \* of each run of processChatGenerationJob
  begun,    \* turns some run has text of, in memory or checkpointed
  active,   \* activeGenerations of each instance
  stop,     \* where the turn's Stop is
  old,      \* turns that have waited longer than any answer takes
  stale,    \* what the sweep has read and not yet written
  together  \* turns two of whose runs were at work at once (no code reads it)

sendVars == <<asked, memory>>
runVars == <<pc, job, aborted, left>>
sweepVars == <<old, stale>>
vars == <<status, rows, last, sendVars, queue, runVars, begun, active, stop,
          sweepVars, together>>

Statuses == {"none", "PENDING", "DONE", "FAILED", "CANCELLED"}
Stops == {"no", "read", "marked", "found none", "over"}
AtWork == {"received", "resolving", "streaming", "answered", "persist", "rows",
           "marks", "ack", "skipped"}

Working(t) == {r \in Runs : job[r] = t /\ pc[r] \in AtWork}
RunsOf(written) == {r \in Runs : \E k \in 0..Topics : <<r, k>> \in written}

Init ==
  /\ status = [t \in Turns |-> "none"]
  /\ rows = [t \in Turns |-> {}]
  /\ last = None
  /\ asked = {} /\ memory = {}
  /\ queue = [t \in Turns |-> "none"]
  /\ pc = [r \in Runs |-> "idle"]
  /\ job = [r \in Runs |-> None]
  /\ aborted = [r \in Runs |-> FALSE]
  /\ left = [r \in Runs |-> 0]
  /\ begun = {}
  /\ active = [i \in Instances |-> [t \in Turns |-> None]]
  /\ stop = [t \in Turns |-> "no"]
  /\ old = {} /\ stale = {} /\ together = {}

-----------------------------------------------------------------------------
\* The asker: hasPendingTurn reads the latest message, the row comes later.

HasPendingTurn == last # None /\ status[last] = "PENDING"

AskChecks(t) ==
  /\ status[t] = "none" /\ t \notin asked
  /\ ~HasPendingTurn
  /\ asked' = asked \cup {t}
  /\ UNCHANGED <<status, rows, last, memory, queue, runVars, begun, active, stop,
                 sweepVars, together>>

\* The row, then the job: sent, sent without an answer (and so kept in memory
\* too), kept in memory, or neither when the server stops or throws first.
AskCreates(t) ==
  /\ status[t] = "none" /\ t \in asked
  /\ status' = [status EXCEPT ![t] = "PENDING"]
  /\ last' = t
  /\ \E sent \in {"none", "waiting"} : queue' = [queue EXCEPT ![t] = sent]
  /\ memory' \in {memory, memory \cup {t}}
  /\ UNCHANGED <<rows, asked, runVars, begun, active, stop, sweepVars, together>>

-----------------------------------------------------------------------------
\* The queue.

Takes(r, t) ==
  /\ pc[r] = "idle"
  /\ pc' = [pc EXCEPT ![r] = "received"]
  /\ job' = [job EXCEPT ![r] = t]
  /\ together' = together \cup (IF Working(t) = {} THEN {} ELSE {t})
  /\ UNCHANGED <<status, rows, last, asked, aborted, left, begun, active, stop, sweepVars>>

Receive(r, t) ==
  /\ queue[t] = "waiting"
  /\ Takes(r, t)
  /\ queue' = [queue EXCEPT ![t] = "taken"]
  /\ UNCHANGED memory

RunFromMemory(r, t) ==
  /\ t \in memory
  /\ Takes(r, t)
  /\ memory' = memory \ {t}
  /\ UNCHANGED queue

\* A message nobody deleted comes back when its visibility ends: the worker
\* died, the delete failed, or the heartbeats failed while the worker lives.
Reappears(t) ==
  /\ queue[t] = "taken"
  /\ queue' = [queue EXCEPT ![t] = "waiting"]
  /\ UNCHANGED <<status, rows, last, sendVars, runVars, begun, active, stop,
                 sweepVars, together>>

\* finally: the run, if it got that far, is no longer registered, and the
\* message is deleted, or not.
Ack(r) ==
  /\ pc[r] \in {"ack", "skipped"}
  /\ pc' = [pc EXCEPT ![r] = "over"]
  /\ aborted' = [aborted EXCEPT ![r] = FALSE]
  /\ active' = IF pc[r] = "skipped" THEN active
               ELSE [active EXCEPT ![Home[r]] = [@ EXCEPT ![job[r]] = None]]
  /\ queue' \in {queue, [queue EXCEPT ![job[r]] = "none"]}
  /\ UNCHANGED <<status, rows, last, sendVars, job, left, begun, stop, sweepVars, together>>

Crash(i) ==
  LET dead == {r \in Runs : Home[r] = i /\ pc[r] \in AtWork} IN
  /\ dead # {}
  /\ pc' = [r \in Runs |-> IF r \in dead THEN "over" ELSE pc[r]]
  /\ aborted' = [r \in Runs |-> aborted[r] /\ r \notin dead]
  /\ active' = [active EXCEPT ![i] = [t \in Turns |-> None]]
  /\ UNCHANGED <<status, rows, last, sendVars, queue, job, left, begun, stop,
                 sweepVars, together>>

-----------------------------------------------------------------------------
\* The worker.

Goes(r, from, to) == pc[r] = from /\ pc' = [pc EXCEPT ![r] = to]

\* A write of the status whose failure is swallowed.
Tries(t, reply) == status' \in {status, [status EXCEPT ![t] = reply]}

\* What a look at the row finds: its status, or nothing when the read fails.
Seen(t) == {status[t]} \cup (IF ReadsFail THEN {"unread"} ELSE {})

\* What a step of a run leaves alone, apart from the status and the rows.
Elsewhere == UNCHANGED <<sendVars, queue, job, stop, sweepVars, together>>

ConsentWithdrawn(r) ==
  /\ Goes(r, "received", "skipped")
  /\ Tries(job[r], "FAILED")
  /\ Elsewhere /\ UNCHANGED <<rows, last, aborted, left, begun, active>>

\* Registered where a Stop can abort it, then the first look at the row.
Start(r) ==
  /\ pc[r] = "received"
  /\ \E seen \in Seen(job[r]) :
       Goes(r, "received", IF seen = "CANCELLED" THEN "ack" ELSE "resolving")
  /\ active' = [active EXCEPT ![Home[r]] = [@ EXCEPT ![job[r]] = r]]
  /\ Elsewhere /\ UNCHANGED <<status, rows, last, aborted, left, begun>>

\* Attachments, title, case, documents, transcripts and triage of the turn.
\* Nothing catches what throws here: the row stays as it is.
Resolve(r) ==
  /\ \/ ~aborted[r] /\ Goes(r, "resolving", "streaming")
     \/ Goes(r, "resolving", "ack") \* aborted, or thrown
  /\ Elsewhere /\ UNCHANGED <<status, rows, last, aborted, left, begun, active>>

\* The first chunk: from here on there is text, and soon a checkpoint of it.
Chunk(r) ==
  /\ pc[r] = "streaming" /\ ~aborted[r]
  /\ begun' = begun \cup {job[r]}
  /\ Elsewhere /\ UNCHANGED <<status, rows, last, pc, aborted, left, active>>

Poll(r) ==
  /\ pc[r] \in AtWork \ {"received", "ack", "skipped"}
  /\ status[job[r]] = "CANCELLED"
  /\ aborted' = [aborted EXCEPT ![r] = TRUE]
  /\ Elsewhere /\ UNCHANGED <<status, rows, last, pc, left, begun, active>>

StreamEnds(r) ==
  /\ Goes(r, "streaming", IF aborted[r] THEN "ack" ELSE "answered")
  /\ Elsewhere /\ UNCHANGED <<status, rows, last, aborted, left, begun, active>>

StreamFails(r) ==
  /\ ~aborted[r]
  /\ Goes(r, "streaming", "ack")
  /\ Tries(job[r], "FAILED")
  /\ Elsewhere /\ UNCHANGED <<rows, last, aborted, left, begun, active>>

\* The last look before the reply is saved.
LooksAgain(r) ==
  /\ pc[r] = "answered"
  /\ \E seen \in Seen(job[r]) :
       Goes(r, "answered", IF aborted[r] \/ seen = "CANCELLED" THEN "ack" ELSE "persist")
  /\ Elsewhere /\ UNCHANGED <<status, rows, last, aborted, left, begun, active>>

\* (mutant) A redelivered job takes any earlier delivery's word for a reply.
FindsReplyUnlooked(r) ==
  /\ Goes(r, "persist", "ack")
  /\ Tries(job[r], "DONE")
  /\ Elsewhere /\ UNCHANGED <<rows, last, aborted, left, begun, active>>

\* (mutant) The reply is saved whether or not one is there.
FindsNoReplyUnlooked(r) ==
  /\ Goes(r, "persist", "rows")
  /\ \E topics \in 1..Topics : left' = [left EXCEPT ![r] = topics]
  /\ Elsewhere /\ UNCHANGED <<status, rows, last, aborted, begun, active>>

\* (mutant) A reply that splits into no topic at all.
FindsNoReplyEmpty(r) ==
  /\ Goes(r, "persist", "rows")
  /\ rows[job[r]] = {}
  /\ \E topics \in 0..Topics : left' = [left EXCEPT ![r] = topics]
  /\ Elsewhere /\ UNCHANGED <<status, rows, last, aborted, begun, active>>

\* persistAssistantTurn: a reply found is a reply saved, by whoever saved it.
FindsReply(r) ==
  /\ Goes(r, "persist", "ack")
  /\ rows[job[r]] # {}
  /\ Tries(job[r], "DONE")
  /\ Elsewhere /\ UNCHANGED <<rows, last, aborted, left, begun, active>>

FindsNoReply(r) ==
  /\ Goes(r, "persist", "rows")
  /\ rows[job[r]] = {}
  /\ \E topics \in 1..Topics : left' = [left EXCEPT ![r] = topics]
  /\ Elsewhere /\ UNCHANGED <<status, rows, last, aborted, begun, active>>

\* One row for each topic, one after the other.
CreateRow(r) ==
  /\ Goes(r, "rows", IF left[r] = 1 THEN "marks" ELSE "rows")
  /\ left' = [left EXCEPT ![r] = left[r] - 1]
  /\ rows' = [rows EXCEPT ![job[r]] = rows[job[r]] \cup {<<r, left[r]>>}]
  /\ last' = None
  /\ Elsewhere /\ UNCHANGED <<status, aborted, begun, active>>

\* The timeline, the mind map and the related cases, then DONE.
MarkDone(r) ==
  /\ Goes(r, "marks", "ack")
  /\ Tries(job[r], "DONE")
  /\ Elsewhere /\ UNCHANGED <<rows, last, aborted, left, begun, active>>

\* A row or an extra could not be written: tried again from the start, or
\* given up.
PersistFails(r) ==
  /\ pc[r] \in {"persist", "rows", "marks"}
  /\ left' = [left EXCEPT ![r] = 0]
  /\ \/ pc' = [pc EXCEPT ![r] = "persist"] /\ UNCHANGED status
     \/ pc' = [pc EXCEPT ![r] = "ack"] /\ Tries(job[r], "FAILED")
  /\ Elsewhere /\ UNCHANGED <<rows, last, aborted, begun, active>>

-----------------------------------------------------------------------------
\* Stop: the row and its checkpoint are read, then PENDING becomes CANCELLED.

StopReads(t) ==
  /\ status[t] # "none" /\ stop[t] = "no"
  /\ stop' = [stop EXCEPT ![t] = "read"]
  /\ UNCHANGED <<status, rows, last, sendVars, queue, runVars, begun, active,
                 sweepVars, together>>

MarkReplyCancelled(t) ==
  /\ stop[t] = "read"
  /\ IF status[t] = "PENDING"
     THEN /\ status' = [status EXCEPT ![t] = "CANCELLED"]
          /\ stop' = [stop EXCEPT ![t] = "marked"]
     ELSE stop' = [stop EXCEPT ![t] = "over"] /\ UNCHANGED status
  /\ UNCHANGED <<rows, last, sendVars, queue, runVars, begun, active, sweepVars, together>>

\* A run of this instance is aborted and its text taken, of a run elsewhere
\* there is the checkpoint. No text yet, or a reply already there: no row.
StopAborts(t, i) ==
  /\ stop[t] = "marked"
  /\ aborted' = [r \in Runs |-> aborted[r] \/ r = active[i][t]]
  /\ \E text \in (IF t \in begun THEN BOOLEAN ELSE {FALSE}) :
       stop' = [stop EXCEPT ![t] = IF text /\ rows[t] = {} THEN "found none" ELSE "over"]
  /\ UNCHANGED <<status, rows, last, sendVars, queue, pc, job, left, begun, active,
                 sweepVars, together>>

StopSaves(t) ==
  /\ stop[t] = "found none"
  /\ stop' = [stop EXCEPT ![t] = "over"]
  /\ rows' = [rows EXCEPT ![t] = rows[t] \cup {<<None, 0>>}]
  /\ last' = None
  /\ UNCHANGED <<status, sendVars, queue, runVars, begun, active, sweepVars, together>>

-----------------------------------------------------------------------------
\* The sweep of turns that have waited longer than any answer takes.

Age(t) ==
  /\ status[t] = "PENDING" /\ t \notin old
  /\ old' = old \cup {t}
  /\ UNCHANGED <<status, rows, last, sendVars, queue, runVars, begun, active, stop,
                 stale, together>>

\* (mutant) Only jobs whose message is gone are swept.
StalePendingUntaken == {t \in old : status[t] = "PENDING" /\ queue[t] = "none"}

StalePending == {t \in old : status[t] = "PENDING"}

SweepReads ==
  /\ stale = {} /\ StalePending # {}
  /\ stale' = StalePending
  /\ UNCHANGED <<status, rows, last, sendVars, queue, runVars, begun, active, stop,
                 old, together>>

\* FAILED by id, whatever the row has become since it was read.
SweepWrites(t) ==
  /\ t \in stale
  /\ stale' = stale \ {t}
  /\ Tries(t, "FAILED")
  /\ UNCHANGED <<rows, last, sendVars, queue, runVars, begun, active, stop, old, together>>

-----------------------------------------------------------------------------
RunSteps(r) ==
  \/ Ack(r) \/ ConsentWithdrawn(r) \/ Start(r) \/ Resolve(r) \/ Chunk(r) \/ Poll(r)
  \/ StreamEnds(r) \/ StreamFails(r) \/ LooksAgain(r)
  \/ FindsReply(r) \/ FindsNoReply(r) \/ CreateRow(r) \/ MarkDone(r) \/ PersistFails(r)

TurnSteps(t) ==
  \/ AskChecks(t) \/ AskCreates(t) \/ Reappears(t)
  \/ StopReads(t) \/ MarkReplyCancelled(t) \/ StopSaves(t)
  \/ Age(t) \/ SweepWrites(t)
  \/ \E i \in Instances : StopAborts(t, i)
  \/ \E r \in Runs : Receive(r, t) \/ RunFromMemory(r, t)

Next ==
  \/ \E r \in Runs : RunSteps(r)
  \/ \E t \in Turns : TurnSteps(t)
  \/ \E i \in Instances : Crash(i)
  \/ SweepReads

Spec == Init /\ [][Next]_vars

\* The server keeps sweeping, a write tried again and again goes through, and
\* a turn that waits grows old. Nothing is asked of workers, queue or client.
Fairness ==
  /\ WF_vars(SweepReads)
  /\ \A t \in Turns : /\ WF_vars(Age(t)) /\ WF_vars(SweepWrites(t))
                      /\ SF_vars(SweepWrites(t) /\ status'[t] = "FAILED")

FairSpec == Spec /\ Fairness

-----------------------------------------------------------------------------
TypeOK ==
  /\ status \in [Turns -> Statuses]
  /\ rows \in [Turns -> SUBSET ((Runs \cup {None}) \X (0..Topics))]
  /\ last \in Turns \cup {None}
  /\ asked \in SUBSET Turns /\ memory \in SUBSET Turns
  /\ queue \in [Turns -> {"none", "waiting", "taken"}]
  /\ pc \in [Runs -> AtWork \cup {"idle", "over"}]
  /\ job \in [Runs -> Turns \cup {None}]
  /\ aborted \in [Runs -> BOOLEAN]
  /\ left \in [Runs -> 0..Topics]
  /\ begun \in SUBSET Turns
  /\ active \in [Instances -> [Turns -> Runs \cup {None}]]
  /\ stop \in [Turns -> Stops]
  /\ old \in SUBSET Turns /\ stale \in SUBSET Turns /\ together \in SUBSET Turns

\* A job delivered again after a crash, a lost delete or a failed run never
\* splits a turn's answer into a second one: unless two deliveries were at
\* work at once, all rows of the answer come from one run (findAssistantReply-
\* ByParent in persistAssistantTurn).
OneRunReplies == \A t \in Turns \ together : Cardinality(RunsOf(rows[t])) <= 1

\* DONE, whichever of the worker, its retry or a redelivered run wrote it,
\* means that there is an answer to show.
DoneHasReply == \A t \in Turns : status[t] = "DONE" => rows[t] # {}

\* No crash, lost message, hung worker or thrown error leaves the client
\* waiting for ever (sweepStalePendingChats).
TurnEnds == \A t \in Turns : status[t] = "PENDING" ~> status[t] # "PENDING"
=============================================================================
