---------------------------- MODULE CaseAnalysis ----------------------------
(* The analysis of one case: it is run again when the case's READY documents  *)
(* change, from a delayed message that looks again whenever it comes too      *)
(* soon, under a lock per kind of AI work that is a row with a heartbeat.     *)
(*   src/src/queues/case-post-extraction.ts                                   *)
(*   src/src/services/ai-generation-lock.service.ts                           *)
(*   src/src/services/case-refresh.service.ts                                 *)
(*   src/src/queues/ai-generation.queue.ts                                    *)
EXTENDS Integers, FiniteSets

CONSTANTS
  Docs,       \* documents of this case, of another or of none
  Workers,    \* slots of the queue's workers
  MaxChanges, \* the most changes of documents by people and sweeps
  MaxFaults,  \* the most workers that die at work and deletes that fail
  MaxClicks   \* the most buttons pressed, each once

\* The case analysis and a pane's own Regenerate.
Kinds == {"caseRefresh", "pane"}

ASSUME BoundsAssumption == MaxChanges \in Nat /\ MaxFaults \in Nat /\ MaxClicks \in Nat

VARIABLES
  doc,      \* ragStatus of each document of the case, "none" of one elsewhere
  due,      \* documents moved into the case whose extraction has not ended yet
  print,    \* readySetFingerprint: none, or the one set it is a hash of
  row,      \* the case's AiGenerationJob row of each kind, DONE or FAILED as "over"
  stale,    \* kinds whose IN_PROGRESS row isJobStale
  closing,  \* kinds a poll has found stale and not yet closed
  posts,    \* post-extraction messages waiting in the queue
  queued,   \* jobs waiting in the queue, by kind
  click,    \* where the press of each kind's button is
  pc,       \* where each worker is
  item,     \* the message each worker holds
  read,     \* the READY documents each run of the analysis has listed
  changes, faults, \* how many there were
  trouble   \* the first thing the promise leaves out (no code reads it)

lock == <<row, stale, closing>>
corpus == <<doc, due, changes>>
people == <<corpus, click>>
queue == <<posts, queued>>
vars == <<people, print, lock, queue, pc, item, read, faults, trouble>>

RagStatus == {"none", "PENDING", "READY", "FAILED", "deleted"}
Ready == {d \in Docs : doc[d] = "READY"}

\* runCasePostExtraction, then finishWith around refreshInner.
Posting == {"counts", "compares", "looks", "begins", "marks"}
Analysing == {"lists", "works", "done", "throws"}
AtWork == Posting \cup Analysing \cup {"pane", "acks"}
RunsOf(k) == {w \in Workers : pc[w] \in (IF k = "caseRefresh" THEN Analysing ELSE {"pane"})}

Troubles == {"none", "unsent", "withdrawn", "failed", "overlap", "left quietly", "looked away"}
Meets(t) == trouble' = IF trouble = "none" THEN t ELSE trouble

\* A new case, or one whose documents have been analysed.
Init ==
  /\ \E analysed \in SUBSET Docs :
       /\ doc = [d \in Docs |-> IF d \in analysed THEN "READY" ELSE "none"]
       /\ print = IF analysed = {} THEN {} ELSE {analysed}
       /\ row = [k \in Kinds |-> IF k = "pane" \/ analysed = {} THEN "none" ELSE "over"]
  /\ due = {}
  /\ stale = {} /\ closing = {}
  /\ posts = 0
  /\ queued = [k \in Kinds |-> 0]
  /\ click = [k \in Kinds |-> "no"]
  /\ pc = [w \in Workers |-> "idle"]
  /\ item = [w \in Workers |-> "none"]
  /\ read = [w \in Workers |-> {}]
  /\ changes = 0 /\ faults = 0
  /\ trouble = "none"

\* scheduleCasePostExtraction is not awaited: the server may stop before the
\* message is sent, or with the message only in its memory.
Schedule ==
  \/ posts' = posts + 1 /\ UNCHANGED trouble
  \/ posts' = posts /\ Meets("unsent")

-----------------------------------------------------------------------------
\* The corpus.

Changed(d, to) ==
  /\ doc' = [doc EXCEPT ![d] = to]
  /\ UNCHANGED <<print, lock, queued, click, pc, item, read, faults>>

\* Of what goes, only a READY document that is deleted is announced. One that is
\* moved away, whatever its status, or that is not READY as it is deleted or
\* fails, is not, even if an analysis has read it.
LeavesQuietly(d) ==
  IF d \in UNION print \/ (\E w \in Workers : d \in read[w])
  THEN Meets("left quietly") ELSE UNCHANGED trouble

Counted == changes < MaxChanges /\ changes' = changes + 1

Upload(d) ==
  /\ doc[d] = "none" /\ Counted
  /\ Changed(d, "PENDING") /\ UNCHANGED <<due, posts, trouble>>

Extracted(d) ==
  /\ doc[d] = "PENDING"
  /\ Changed(d, "READY") /\ due' = due \ {d}
  /\ Schedule /\ UNCHANGED changes

ExtractionFails(d) ==
  /\ doc[d] = "PENDING"
  /\ Changed(d, "FAILED") /\ due' = due \ {d}
  /\ LeavesQuietly(d) /\ UNCHANGED <<posts, changes>>

\* A document that was moved in, or that a sweep, a refresh, a change of its
\* chat or a message that comes twice has put in the queue again.
ExtractionBegins(d) ==
  /\ doc[d] \in {"READY", "FAILED"}
  /\ IF d \in due THEN UNCHANGED changes ELSE Counted
  /\ Changed(d, "PENDING") /\ UNCHANGED <<due, posts, trouble>>

\* An extraction that began before the document was moved in: its end is told
\* to the case the document was in then.
ExtractedForAnother(d) ==
  /\ doc[d] = "PENDING" /\ d \in due /\ Counted
  /\ \E to \in {"READY", "FAILED"} : Changed(d, to)
  /\ UNCHANGED <<due, posts, trouble>>

Delete(d) ==
  /\ doc[d] \in {"PENDING", "READY", "FAILED"} /\ Counted
  /\ Changed(d, "deleted") /\ due' = due \ {d}
  /\ IF doc[d] = "READY" THEN Schedule ELSE LeavesQuietly(d) /\ UNCHANGED posts

\* update: of this case with the status it has, READY at once if it was so, and
\* put in the queue to be read again, unless the server stops before.
MovedIn(d) ==
  /\ doc[d] = "none" /\ Counted
  /\ \E status \in {"PENDING", "READY", "FAILED"} : Changed(d, status)
  /\ \/ due' = due \cup {d} /\ UNCHANGED trouble
     \/ due' = due /\ Meets("unsent")
  /\ UNCHANGED posts

\* update: to another case or to none. The case it was in is told nothing, but by
\* an extraction that is at work and has read the old case.
MovedAway(d) ==
  /\ doc[d] \in {"PENDING", "READY", "FAILED"} /\ Counted
  /\ Changed(d, "none") /\ due' = due \ {d}
  /\ LeavesQuietly(d)
  /\ posts' \in IF doc[d] = "PENDING" THEN {posts, posts + 1} ELSE {posts}

-----------------------------------------------------------------------------
\* The lock: create() wins over the unique constraint; a row that is there is
\* read, and taken over in a second step.

\* (mutant) A lock is held until it is given back.
RunningUnaged(k) == row[k] = "IN_PROGRESS"

Running(k) == row[k] = "IN_PROGRESS" /\ k \notin stale
IsFree(k) == row[k] # "none" /\ ~Running(k) /\ UNCHANGED row
Refuses(k) == Running(k) /\ UNCHANGED row
Create(k) == row[k] = "none" /\ row' = [row EXCEPT ![k] = "IN_PROGRESS"]

MarkInProgress(k) ==
  /\ row' = [row EXCEPT ![k] = "IN_PROGRESS"]
  /\ stale' = stale \ {k}
  /\ UNCHANGED closing

\* Closed whoever holds it by now, or not at all when the write fails.
Finish(k) ==
  \/ row' = [row EXCEPT ![k] = "over"] /\ stale' = stale \ {k} /\ UNCHANGED closing
  \/ UNCHANGED lock

\* Silent for two minutes, or ten minutes old and not yet taken from the queue.
GoesStale(k) ==
  /\ Running(k) /\ RunsOf(k) = {}
  /\ stale' = stale \cup {k}
  /\ UNCHANGED <<people, print, row, closing, queue, pc, item, read, faults, trouble>>

\* getStatusForCase: a run nobody will finish is closed for the one who polls.
PollReads(k) ==
  /\ k \in stale \ closing
  /\ closing' = closing \cup {k}
  /\ UNCHANGED <<people, print, row, stale, queue, pc, item, read, faults, trouble>>

PollCloses(k) ==
  /\ k \in closing
  /\ closing' = closing \ {k}
  /\ row' = [row EXCEPT ![k] = "over"]
  /\ stale' = stale \ {k}
  /\ UNCHANGED <<people, print, queue, pc, item, read, faults, trouble>>

-----------------------------------------------------------------------------
\* A press of "Refresh analysis" or of a pane's Regenerate.

Clicked(k, from, to) == click[k] = from /\ click' = [click EXCEPT ![k] = to]
Other(k) == IF k = "pane" THEN "caseRefresh" ELSE "pane"
ClickLeaves == UNCHANGED <<corpus, print, posts, pc, item, read, faults, trouble>>

\* assertNoPaneRunning, assertAnalysisIdle
ClickChecks(k) ==
  /\ Cardinality({o \in Kinds : click[o] # "no"}) < MaxClicks
  /\ Clicked(k, "no", IF Running(Other(k)) THEN "over" ELSE "checked")
  /\ ClickLeaves /\ UNCHANGED <<lock, queued>>

ClickBegins(k) ==
  /\ \/ Create(k) /\ Clicked(k, "checked", "begun")
     \/ IsFree(k) /\ Clicked(k, "checked", "marks")
     \/ Refuses(k) /\ Clicked(k, "checked", "over")
  /\ ClickLeaves /\ UNCHANGED <<stale, closing, queued>>

ClickMarks(k) ==
  /\ Clicked(k, "marks", "begun")
  /\ MarkInProgress(k)
  /\ ClickLeaves /\ UNCHANGED queued

\* The job, unless the server stops first.
ClickSends(k) ==
  /\ Clicked(k, "begun", "over")
  /\ queued' \in {queued, [queued EXCEPT ![k] = queued[k] + 1]}
  /\ ClickLeaves /\ UNCHANGED lock

-----------------------------------------------------------------------------
\* The workers.

Goes(w, from, to) == pc[w] = from /\ pc' = [pc EXCEPT ![w] = to]
WorkerLeaves == UNCHANGED <<people, item, queued, faults>>

\* Another run of the analysis is at work as this one starts.
Overlaps == IF RunsOf("caseRefresh") # {} THEN Meets("overlap") ELSE UNCHANGED trouble

\* (mutant) A worker that runs without a message.
TakePostBlind(w) ==
  /\ posts' = posts - 1
  /\ Goes(w, "idle", "counts")
  /\ item' = [item EXCEPT ![w] = "post"]
  /\ UNCHANGED <<people, print, lock, queued, read, faults, trouble>>

TakePost(w) ==
  /\ posts > 0 /\ posts' = posts - 1
  /\ Goes(w, "idle", "counts")
  /\ item' = [item EXCEPT ![w] = "post"]
  /\ UNCHANGED <<people, print, lock, queued, read, faults, trouble>>

\* A job stamps the row somebody began for it.
TakeJob(w, k) ==
  /\ queued[k] > 0 /\ queued' = [queued EXCEPT ![k] = queued[k] - 1]
  /\ Goes(w, "idle", IF k = "caseRefresh" THEN "lists" ELSE "pane")
  /\ item' = [item EXCEPT ![w] = k]
  /\ stale' = stale \ {k}
  /\ IF k = "caseRefresh" THEN Overlaps ELSE UNCHANGED trouble
  /\ UNCHANGED <<people, print, row, closing, posts, read, faults>>

\* Consent to AI was withdrawn: no work, and a row somebody began is left as it is.
SkipsJob(w, k) ==
  /\ queued[k] > 0 /\ queued' = [queued EXCEPT ![k] = queued[k] - 1]
  /\ Goes(w, "idle", "acks")
  /\ item' = [item EXCEPT ![w] = k]
  /\ IF k = "caseRefresh" THEN Meets("withdrawn") ELSE UNCHANGED trouble
  /\ UNCHANGED <<people, print, lock, posts, read, faults>>

\* A message whose user has withdrawn consent, or that met an error, is let go.
LetsGo(w) ==
  /\ pc[w] \in Posting /\ pc' = [pc EXCEPT ![w] = "acks"]
  /\ \E t \in {"withdrawn", "failed"} : Meets(t)
  /\ WorkerLeaves /\ UNCHANGED <<print, lock, posts, read>>

CountsPending(w) ==
  /\ \/ /\ \E d \in Docs : doc[d] = "PENDING"
        /\ Goes(w, "counts", "acks") /\ Schedule
     \/ /\ \A d \in Docs : doc[d] # "PENDING"
        /\ Goes(w, "counts", "compares") /\ UNCHANGED <<posts, trouble>>
  /\ WorkerLeaves /\ UNCHANGED <<print, lock, read>>

\* Nothing new against the last analysis that was saved, whatever the one at
\* work has listed.
ComparesUnchanged(w) ==
  /\ print = {Ready}
  /\ Goes(w, "compares", "acks")
  /\ IF \E v \in Workers : pc[v] = "works" /\ read[v] # Ready
     THEN Meets("looked away") ELSE UNCHANGED trouble
  /\ WorkerLeaves /\ UNCHANGED <<print, lock, posts, read>>

ComparesChanged(w) ==
  /\ print # {Ready}
  /\ Goes(w, "compares", "looks")
  /\ WorkerLeaves /\ UNCHANGED <<print, lock, posts, read, trouble>>

\* runningPaneJob: the message comes again while a pane is regenerating.
LooksForPane(w) ==
  /\ \/ Running("pane") /\ Goes(w, "looks", "acks") /\ Schedule
     \/ ~Running("pane") /\ Goes(w, "looks", "begins") /\ UNCHANGED <<posts, trouble>>
  /\ WorkerLeaves /\ UNCHANGED <<print, lock, read>>

\* (mutant) A refused message is let go.
BeginsOrDrops(w) ==
  /\ \/ Create("caseRefresh") /\ Goes(w, "begins", "lists") /\ Overlaps /\ UNCHANGED posts
     \/ IsFree("caseRefresh") /\ Goes(w, "begins", "marks") /\ UNCHANGED <<posts, trouble>>
     \/ Refuses("caseRefresh") /\ Goes(w, "begins", "acks") /\ UNCHANGED <<posts, trouble>>
  /\ WorkerLeaves /\ UNCHANGED <<print, stale, closing, read>>

\* 409: the message comes again when the run at work is over.
Begins(w) ==
  /\ \/ Create("caseRefresh") /\ Goes(w, "begins", "lists") /\ Overlaps /\ UNCHANGED posts
     \/ IsFree("caseRefresh") /\ Goes(w, "begins", "marks") /\ UNCHANGED <<posts, trouble>>
     \/ Refuses("caseRefresh") /\ Goes(w, "begins", "acks") /\ Schedule
  /\ WorkerLeaves /\ UNCHANGED <<print, stale, closing, read>>

Marks(w) ==
  /\ Goes(w, "marks", "lists")
  /\ MarkInProgress("caseRefresh")
  /\ Overlaps
  /\ WorkerLeaves /\ UNCHANGED <<print, posts, read>>

\* refreshInner: the documents are listed, the three waves run, and the
\* fingerprint of the documents as they were listed is saved.
Lists(w) ==
  /\ Goes(w, "lists", "works")
  /\ read' = [read EXCEPT ![w] = Ready]
  /\ WorkerLeaves /\ UNCHANGED <<print, lock, posts, trouble>>

SetFingerprint(w) ==
  /\ Goes(w, "works", "done")
  /\ print' = {read[w]}
  /\ read' = [read EXCEPT ![w] = {}]
  /\ WorkerLeaves /\ UNCHANGED <<lock, posts, trouble>>

RefreshThrows(w) ==
  /\ pc[w] \in {"lists", "works"}
  /\ pc' = [pc EXCEPT ![w] = "throws"]
  /\ read' = [read EXCEPT ![w] = {}]
  /\ Meets("failed")
  /\ WorkerLeaves /\ UNCHANGED <<print, lock, posts>>

RefreshEnds(w) ==
  /\ pc[w] \in {"done", "throws"} /\ pc' = [pc EXCEPT ![w] = "acks"]
  /\ Finish("caseRefresh")
  /\ WorkerLeaves /\ UNCHANGED <<print, posts, read, trouble>>

PaneEnds(w) ==
  /\ Goes(w, "pane", "acks")
  /\ Finish("pane")
  /\ WorkerLeaves /\ UNCHANGED <<print, posts, read, trouble>>

Idles(w) ==
  /\ pc' = [pc EXCEPT ![w] = "idle"]
  /\ item' = [item EXCEPT ![w] = "none"]
  /\ read' = [read EXCEPT ![w] = {}]
  /\ UNCHANGED <<people, print, lock, trouble>>

Ack(w) ==
  /\ pc[w] = "acks"
  /\ Idles(w) /\ UNCHANGED <<queue, faults>>

\* The worker dies, or the delete fails: its message is in the queue again.
Redelivers(w) ==
  /\ pc[w] \in AtWork
  /\ faults < MaxFaults /\ faults' = faults + 1
  /\ IF item[w] = "post"
     THEN posts' = posts + 1 /\ UNCHANGED queued
     ELSE queued' = [queued EXCEPT ![item[w]] = queued[item[w]] + 1] /\ UNCHANGED posts
  /\ Idles(w)

-----------------------------------------------------------------------------
WorkerSteps(w) ==
  \/ TakePost(w) \/ LetsGo(w) \/ (\E k \in Kinds : TakeJob(w, k) \/ SkipsJob(w, k))
  \/ CountsPending(w) \/ ComparesUnchanged(w) \/ ComparesChanged(w) \/ LooksForPane(w)
  \/ Begins(w) \/ Marks(w) \/ Lists(w) \/ SetFingerprint(w) \/ RefreshThrows(w)
  \/ RefreshEnds(w) \/ PaneEnds(w) \/ Ack(w)

LockSteps(k) ==
  \/ GoesStale(k) \/ PollReads(k) \/ PollCloses(k)
  \/ ClickChecks(k) \/ ClickBegins(k) \/ ClickMarks(k) \/ ClickSends(k)

DocSteps(d) ==
  \/ Upload(d) \/ Extracted(d) \/ ExtractionFails(d) \/ ExtractionBegins(d)
  \/ ExtractedForAnother(d) \/ Delete(d) \/ MovedIn(d) \/ MovedAway(d)

Next ==
  \/ \E d \in Docs : DocSteps(d)
  \/ \E k \in Kinds : LockSteps(k)
  \/ \E w \in Workers : WorkerSteps(w) \/ Redelivers(w)

Spec == Init /\ [][Next]_vars

\* Workers poll and their jobs return, an extraction in the queue begins and
\* ends, and a silent row grows old. Nothing is asked of people, polls or clicks.
Fairness ==
  /\ \A w \in Workers : WF_vars(WorkerSteps(w))
  /\ \A k \in Kinds : WF_vars(GoesStale(k))
  /\ \A d \in Docs : /\ WF_vars(d \in due /\ ExtractionBegins(d))
                     /\ WF_vars(Extracted(d) \/ ExtractionFails(d))

FairSpec == Spec /\ Fairness

-----------------------------------------------------------------------------
TypeOK ==
  /\ doc \in [Docs -> RagStatus] /\ due \in SUBSET Docs
  /\ print \in SUBSET SUBSET Docs
  /\ row \in [Kinds -> {"none", "IN_PROGRESS", "over"}]
  /\ stale \in SUBSET Kinds /\ closing \in SUBSET Kinds
  /\ posts \in Nat /\ queued \in [Kinds -> Nat]
  /\ click \in [Kinds -> {"no", "checked", "marks", "begun", "over"}]
  /\ pc \in [Workers -> AtWork \cup {"idle"}]
  /\ item \in [Workers -> Kinds \cup {"none", "post"}]
  /\ read \in [Workers -> SUBSET Docs]
  /\ changes \in 0..MaxChanges /\ faults \in 0..MaxFaults
  /\ trouble \in Troubles

\* The analysis is of other documents than the READY ones.
Behind == print # {Ready} /\ ~(print = {} /\ Ready = {})

\* Something still to come looks at the documents again: a message, a queued
\* refresh, or a worker that has not listed them yet.
BeforeListing == Posting \cup {"lists"}
Trigger == posts > 0 \/ queued["caseRefresh"] > 0 \/ \E w \in Workers : pc[w] \in BeforeListing

\* No change is forgotten: while the analysis is behind, documents are still
\* being read or are to be read again where they were moved to, an analysis is
\* at work, or something looks again. A message let go for a pane, a run or a
\* pending document was sent again before. Left out are the troubles named below.
ChangeIsRemembered ==
  trouble = "none" /\ Behind =>
    \/ Trigger
    \/ \E d \in Docs : doc[d] = "PENDING" \/ d \in due
    \/ \E w \in Workers : pc[w] = "works"

\* A change of the READY documents is analysed in the end, whatever lies in
\* between: documents still being read, a document that is READY as it is moved
\* in, a pane that regenerates, an analysis at work, a lock left behind by a
\* server that stopped, a message that comes twice. Left out: a message or an
\* extraction never sent, consent withdrawn, an error, two runs at once, an
\* analysed document moved away, or deleted or failed while it was read again,
\* and a change back to what was analysed last while a run is at work.
ChangeIsAnalysed == Behind ~> (~Behind \/ trouble # "none")
=============================================================================
