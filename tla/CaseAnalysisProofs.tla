-------------------------- MODULE CaseAnalysisProofs --------------------------
(* Proofs about CaseAnalysis, for any documents, workers and bounds.          *)
EXTENDS CaseAnalysis, TLAPS

\* A worker holds the message its work began with.
ItemOK ==
  \A w \in Workers :
    /\ pc[w] \in Posting => item[w] = "post"
    /\ pc[w] \in Analysing => item[w] \in {"post", "caseRefresh"}
    /\ pc[w] = "pane" => item[w] = "pane"
    /\ pc[w] = "acks" => item[w] # "none"

PrintOne == \A Q, R \in print : Q = R

OneRun == trouble = "none" => \A v, w \in Workers :
            pc[v] \in Analysing /\ pc[w] \in Analysing => v = w

\* What an analysis has read is what is READY, but for documents that are being
\* extracted, or were moved in and are to be: their end sends a message.
Pending == {d \in Docs : doc[d] = "PENDING"}
Covers(R) == Ready \ due \subseteq R /\ R \subseteq Ready \cup Pending \cup due

\* With nothing that looks again, the analysis at work covers the documents, or
\* else the one that was saved last.
Remembered ==
  trouble = "none" /\ ~Trigger =>
    /\ \A w \in Workers : pc[w] = "works" => Covers(read[w])
    /\ (\E w \in Workers : pc[w] = "works") \/ Covers(UNION print)

IInv == TypeOK /\ ItemOK /\ PrintOne /\ OneRun /\ Remembered

LEMMA InitIInv == Init => IInv
<1> SUFFICES ASSUME Init PROVE IInv
  OBVIOUS
<1> PICK analysed \in SUBSET Docs :
       /\ doc = [d \in Docs |-> IF d \in analysed THEN "READY" ELSE "none"]
       /\ print = IF analysed = {} THEN {} ELSE {analysed}
       /\ row = [k \in Kinds |-> IF k = "pane" \/ analysed = {} THEN "none" ELSE "over"]
  BY DEF Init
<1>1. TypeOK
  BY BoundsAssumption DEF Init, TypeOK, RagStatus, Kinds, Troubles
<1>2. ItemOK /\ PrintOne /\ OneRun
  BY DEF Init, ItemOK, PrintOne, OneRun, Posting, Analysing
<1>3. Ready = analysed /\ UNION print = analysed
  BY DEF Ready
<1>4. Remembered
  BY <1>3 DEF Init, Remembered, Covers
<1> QED
  BY <1>1, <1>2, <1>4 DEF IInv

-----------------------------------------------------------------------------
\* No run joins: one run at most stays at work.
LEMMA NobodyJoins ==
  ASSUME OneRun, trouble' = "none" => trouble = "none",
         \A w \in Workers : pc'[w] \in Analysing => pc[w] \in Analysing
  PROVE OneRun'
BY DEF OneRun

\* A run joins as the only one, or the trouble is noted.
LEMMA OneJoins ==
  ASSUME OneRun, NEW w \in Workers, Overlaps,
         \A v \in Workers \ {w} : pc'[v] = pc[v]
  PROVE OneRun' /\ (trouble' = "none" => trouble = "none")
BY DEF OneRun, Overlaps, Meets, RunsOf, Kinds

\* The documents, what was saved and what was listed stay, and so does whatever
\* looks again.
LEMMA NothingForgotten ==
  ASSUME Remembered, UNCHANGED <<doc, due, print>>, trouble' = "none" => trouble = "none",
         trouble' = "none" /\ Trigger => Trigger',
         \A w \in Workers : pc'[w] = "works" <=> pc[w] = "works",
         \A w \in Workers : pc'[w] = "works" => read'[w] = read[w]
  PROVE Remembered'
<1>1. Ready' = Ready /\ Pending' = Pending
  BY DEF Ready, Pending
<1>2. UNION print' = UNION print
  OBVIOUS
<1>3. \A w \in Workers : pc'[w] = "works" => Covers(read[w])' = Covers(read[w])
  BY <1>1 DEF Covers
<1> QED
  BY <1>1, <1>2, <1>3 DEF Remembered, Covers

\* The types of what several actions write.
LEMMA ScheduleTypes ==
  ASSUME TypeOK, Schedule PROVE posts' \in Nat /\ trouble' \in Troubles
<1>1. posts \in Nat /\ trouble \in Troubles
  BY DEF TypeOK
<1>2. posts' \in Nat
  BY <1>1 DEF Schedule
<1>3. trouble' \in Troubles
  BY <1>1 DEF Schedule, Meets, Troubles
<1> QED
  BY <1>2, <1>3

-----------------------------------------------------------------------------
LEMMA CountsPendingKeeps == ASSUME NEW w \in Workers, IInv, CountsPending(w) PROVE IInv'
<1> USE DEF IInv
<1>1. TypeOK'
  <2>1. pc' \in [Workers -> AtWork \cup {"idle"}]
    BY DEF TypeOK, CountsPending, Goes, AtWork, Posting, Analysing
  <2>2. posts' \in Nat /\ trouble' \in Troubles
    BY ScheduleTypes DEF TypeOK, CountsPending
  <2> QED
    BY <2>1, <2>2 DEF TypeOK, CountsPending, Goes, WorkerLeaves, Schedule, Meets,
       people, corpus, lock, Troubles
<1>2. ItemOK' /\ PrintOne'
  BY DEF TypeOK, Kinds, ItemOK, PrintOne, CountsPending, Goes, WorkerLeaves, Schedule,
     Meets, people, corpus, lock, Posting, Analysing
<1>3. OneRun'
  BY NobodyJoins DEF TypeOK, CountsPending, Goes, WorkerLeaves, Schedule, Meets, people,
     corpus, lock, Analysing
<1>4. Remembered'
  <2>1. trouble' = "none" /\ Trigger => Trigger'
    BY DEF TypeOK, CountsPending, Goes, WorkerLeaves, Schedule, Meets, people, corpus,
       lock, Trigger, BeforeListing, Posting
  <2> QED
    BY <2>1, NothingForgotten DEF TypeOK, CountsPending, Goes, WorkerLeaves, Schedule,
       Meets, people, corpus, lock
<1> QED
  BY <1>1, <1>2, <1>3, <1>4

LEMMA LooksForPaneKeeps == ASSUME NEW w \in Workers, IInv, LooksForPane(w) PROVE IInv'
<1> USE DEF IInv
<1>1. TypeOK'
  <2>1. pc' \in [Workers -> AtWork \cup {"idle"}]
    BY DEF TypeOK, LooksForPane, Goes, AtWork, Posting, Analysing
  <2>2. posts' \in Nat /\ trouble' \in Troubles
    BY ScheduleTypes DEF TypeOK, LooksForPane
  <2> QED
    BY <2>1, <2>2 DEF TypeOK, LooksForPane, Goes, WorkerLeaves, Schedule, Meets, people,
       corpus, lock, Troubles, Running
<1>2. ItemOK' /\ PrintOne'
  BY DEF TypeOK, Kinds, ItemOK, PrintOne, LooksForPane, Goes, WorkerLeaves, Schedule,
     Meets, people, corpus, lock, Posting, Analysing, Running
<1>3. OneRun'
  BY NobodyJoins DEF TypeOK, LooksForPane, Goes, WorkerLeaves, Schedule, Meets, people,
     corpus, lock, Analysing, Running
<1>4. Remembered'
  <2>1. trouble' = "none" /\ Trigger => Trigger'
    BY DEF TypeOK, LooksForPane, Goes, WorkerLeaves, Schedule, Meets, people, corpus,
       lock, Trigger, BeforeListing, Posting, Running
  <2> QED
    BY <2>1, NothingForgotten DEF TypeOK, LooksForPane, Goes, WorkerLeaves, Schedule,
       Meets, people, corpus, lock, Running
<1> QED
  BY <1>1, <1>2, <1>3, <1>4

LEMMA TakePostKeeps == ASSUME NEW w \in Workers, IInv, TakePost(w) PROVE IInv'
<1> USE DEF IInv
<1>1. TypeOK'
  <2>1. pc' \in [Workers -> AtWork \cup {"idle"}]
    BY DEF TypeOK, TakePost, Goes, AtWork, Posting, Analysing
  <2>2. posts' \in Nat
    BY DEF TypeOK, TakePost
  <2>3. item' \in [Workers -> Kinds \cup {"none", "post"}]
    BY DEF TypeOK, TakePost
  <2> QED
    BY <2>1, <2>2, <2>3 DEF TypeOK, TakePost, Goes, people, corpus, lock, Troubles
<1>2. ItemOK' /\ PrintOne'
  BY DEF TypeOK, Kinds, ItemOK, PrintOne, TakePost, Goes, people, corpus, lock, Posting,
     Analysing
<1>3. OneRun'
  BY NobodyJoins DEF TypeOK, TakePost, Goes, people, corpus, lock, Analysing
<1>4. Remembered'
  <2>1. trouble' = "none" /\ Trigger => Trigger'
    BY DEF TypeOK, TakePost, Goes, people, corpus, lock, Trigger, BeforeListing, Posting
  <2> QED
    BY <2>1, NothingForgotten DEF TypeOK, TakePost, Goes, people, corpus, lock
<1> QED
  BY <1>1, <1>2, <1>3, <1>4

LEMMA ComparesChangedKeeps == ASSUME NEW w \in Workers, IInv, ComparesChanged(w) PROVE IInv'
<1> USE DEF IInv
<1>1. TypeOK'
  BY BoundsAssumption DEF TypeOK, ComparesChanged, Goes, WorkerLeaves, people, corpus,
     lock, Kinds, AtWork, Posting, Analysing, Troubles, RagStatus
<1>2. ItemOK' /\ PrintOne'
  BY DEF TypeOK, Kinds, ItemOK, PrintOne, ComparesChanged, Goes, WorkerLeaves, people,
     corpus, lock, Posting, Analysing
<1>3. OneRun'
  BY NobodyJoins DEF TypeOK, ComparesChanged, Goes, WorkerLeaves, people, corpus, lock,
     Analysing
<1>4. Remembered'
  <2>1. trouble' = "none" /\ Trigger => Trigger'
    BY DEF TypeOK, ComparesChanged, Goes, WorkerLeaves, people, corpus, lock, Trigger,
       BeforeListing, Posting
  <2> QED
    BY <2>1, NothingForgotten DEF TypeOK, ComparesChanged, Goes, WorkerLeaves, people,
       corpus, lock
<1> QED
  BY <1>1, <1>2, <1>3, <1>4

LEMMA RefreshEndsKeeps == ASSUME NEW w \in Workers, IInv, RefreshEnds(w) PROVE IInv'
<1> USE DEF IInv
<1>1. TypeOK'
  BY BoundsAssumption DEF TypeOK, RefreshEnds, WorkerLeaves, people, corpus, lock,
     Finish, Kinds, AtWork, Posting, Analysing, Troubles, RagStatus
<1>2. ItemOK' /\ PrintOne'
  BY DEF TypeOK, Kinds, ItemOK, PrintOne, RefreshEnds, WorkerLeaves, people, corpus,
     lock, Finish, Posting, Analysing
<1>3. OneRun'
  BY NobodyJoins DEF TypeOK, RefreshEnds, WorkerLeaves, people, corpus, lock, Finish,
     Analysing
<1>4. Remembered'
  <2>1. trouble' = "none" /\ Trigger => Trigger'
    BY DEF TypeOK, RefreshEnds, WorkerLeaves, people, corpus, lock, Finish, Trigger,
       BeforeListing, Posting
  <2> QED
    BY <2>1, NothingForgotten DEF TypeOK, RefreshEnds, WorkerLeaves, people, corpus,
       lock, Finish
<1> QED
  BY <1>1, <1>2, <1>3, <1>4

LEMMA PaneEndsKeeps == ASSUME NEW w \in Workers, IInv, PaneEnds(w) PROVE IInv'
<1> USE DEF IInv
<1>1. TypeOK'
  BY BoundsAssumption DEF TypeOK, PaneEnds, Goes, WorkerLeaves, people, corpus, lock,
     Finish, Kinds, AtWork, Posting, Analysing, Troubles, RagStatus
<1>2. ItemOK' /\ PrintOne'
  BY DEF TypeOK, Kinds, ItemOK, PrintOne, PaneEnds, Goes, WorkerLeaves, people, corpus,
     lock, Finish, Posting, Analysing
<1>3. OneRun'
  BY NobodyJoins DEF TypeOK, PaneEnds, Goes, WorkerLeaves, people, corpus, lock, Finish,
     Analysing
<1>4. Remembered'
  <2>1. trouble' = "none" /\ Trigger => Trigger'
    BY DEF TypeOK, PaneEnds, Goes, WorkerLeaves, people, corpus, lock, Finish, Trigger,
       BeforeListing, Posting
  <2> QED
    BY <2>1, NothingForgotten DEF TypeOK, PaneEnds, Goes, WorkerLeaves, people, corpus,
       lock, Finish
<1> QED
  BY <1>1, <1>2, <1>3, <1>4

LEMMA AckKeeps == ASSUME NEW w \in Workers, IInv, Ack(w) PROVE IInv'
<1> USE DEF IInv
<1>1. TypeOK'
  BY BoundsAssumption DEF TypeOK, Ack, people, corpus, lock, queue, Kinds, AtWork,
     Posting, Analysing, Troubles, RagStatus, Idles
<1>2. ItemOK' /\ PrintOne'
  BY DEF TypeOK, Kinds, ItemOK, PrintOne, Ack, people, corpus, lock, queue, Posting,
     Analysing, Idles
<1>3. OneRun'
  BY NobodyJoins DEF TypeOK, Ack, people, corpus, lock, queue, Analysing, Idles
<1>4. Remembered'
  <2>1. trouble' = "none" /\ Trigger => Trigger'
    BY DEF TypeOK, Ack, people, corpus, lock, queue, Trigger, BeforeListing, Posting,
       Idles
  <2> QED
    BY <2>1, NothingForgotten DEF TypeOK, Ack, people, corpus, lock, queue, Idles
<1> QED
  BY <1>1, <1>2, <1>3, <1>4

LEMMA GoesStaleKeeps == ASSUME NEW k \in Kinds, IInv, GoesStale(k) PROVE IInv'
<1> USE DEF IInv
<1>1. TypeOK'
  BY BoundsAssumption DEF TypeOK, GoesStale, people, corpus, queue, Kinds, AtWork,
     Posting, Analysing, Troubles, RagStatus, Running
<1>2. ItemOK' /\ PrintOne'
  BY DEF TypeOK, Kinds, ItemOK, PrintOne, GoesStale, people, corpus, queue, Posting,
     Analysing, Running
<1>3. OneRun'
  BY NobodyJoins DEF TypeOK, GoesStale, people, corpus, queue, Analysing, Running
<1>4. Remembered'
  <2>1. trouble' = "none" /\ Trigger => Trigger'
    BY DEF TypeOK, GoesStale, people, corpus, queue, Trigger, BeforeListing, Posting,
       Running
  <2> QED
    BY <2>1, NothingForgotten DEF TypeOK, GoesStale, people, corpus, queue, Running
<1> QED
  BY <1>1, <1>2, <1>3, <1>4

LEMMA PollReadsKeeps == ASSUME NEW k \in Kinds, IInv, PollReads(k) PROVE IInv'
<1> USE DEF IInv
<1>1. TypeOK'
  BY BoundsAssumption DEF TypeOK, PollReads, people, corpus, queue, Kinds, AtWork,
     Posting, Analysing, Troubles, RagStatus
<1>2. ItemOK' /\ PrintOne'
  BY DEF TypeOK, Kinds, ItemOK, PrintOne, PollReads, people, corpus, queue, Posting,
     Analysing
<1>3. OneRun'
  BY NobodyJoins DEF TypeOK, PollReads, people, corpus, queue, Analysing
<1>4. Remembered'
  <2>1. trouble' = "none" /\ Trigger => Trigger'
    BY DEF TypeOK, PollReads, people, corpus, queue, Trigger, BeforeListing, Posting
  <2> QED
    BY <2>1, NothingForgotten DEF TypeOK, PollReads, people, corpus, queue
<1> QED
  BY <1>1, <1>2, <1>3, <1>4

LEMMA PollClosesKeeps == ASSUME NEW k \in Kinds, IInv, PollCloses(k) PROVE IInv'
<1> USE DEF IInv
<1>1. TypeOK'
  BY BoundsAssumption DEF TypeOK, PollCloses, people, corpus, queue, Kinds, AtWork,
     Posting, Analysing, Troubles, RagStatus
<1>2. ItemOK' /\ PrintOne'
  BY DEF TypeOK, Kinds, ItemOK, PrintOne, PollCloses, people, corpus, queue, Posting,
     Analysing
<1>3. OneRun'
  BY NobodyJoins DEF TypeOK, PollCloses, people, corpus, queue, Analysing
<1>4. Remembered'
  <2>1. trouble' = "none" /\ Trigger => Trigger'
    BY DEF TypeOK, PollCloses, people, corpus, queue, Trigger, BeforeListing, Posting
  <2> QED
    BY <2>1, NothingForgotten DEF TypeOK, PollCloses, people, corpus, queue
<1> QED
  BY <1>1, <1>2, <1>3, <1>4

LEMMA ClickChecksKeeps == ASSUME NEW k \in Kinds, IInv, ClickChecks(k) PROVE IInv'
<1> USE DEF IInv
<1>1. TypeOK'
  BY BoundsAssumption DEF TypeOK, ClickChecks, corpus, lock, Kinds, AtWork, Posting,
     Analysing, Troubles, RagStatus, Clicked, ClickLeaves, Running
<1>2. ItemOK' /\ PrintOne'
  BY DEF TypeOK, Kinds, ItemOK, PrintOne, ClickChecks, corpus, lock, Posting, Analysing,
     Clicked, ClickLeaves, Running
<1>3. OneRun'
  BY NobodyJoins DEF TypeOK, ClickChecks, corpus, lock, Analysing, Clicked, ClickLeaves,
     Running
<1>4. Remembered'
  <2>1. trouble' = "none" /\ Trigger => Trigger'
    BY DEF TypeOK, ClickChecks, corpus, lock, Trigger, BeforeListing, Posting, Clicked,
       ClickLeaves, Running
  <2> QED
    BY <2>1, NothingForgotten DEF TypeOK, ClickChecks, corpus, lock, Clicked,
       ClickLeaves, Running
<1> QED
  BY <1>1, <1>2, <1>3, <1>4

LEMMA ClickMarksKeeps == ASSUME NEW k \in Kinds, IInv, ClickMarks(k) PROVE IInv'
<1> USE DEF IInv
<1>1. TypeOK'
  BY BoundsAssumption DEF TypeOK, ClickMarks, corpus, MarkInProgress, Kinds, AtWork,
     Posting, Analysing, Troubles, RagStatus, Clicked, ClickLeaves
<1>2. ItemOK' /\ PrintOne'
  BY DEF TypeOK, Kinds, ItemOK, PrintOne, ClickMarks, corpus, MarkInProgress, Posting,
     Analysing, Clicked, ClickLeaves
<1>3. OneRun'
  BY NobodyJoins DEF TypeOK, ClickMarks, corpus, MarkInProgress, Analysing, Clicked,
     ClickLeaves
<1>4. Remembered'
  <2>1. trouble' = "none" /\ Trigger => Trigger'
    BY DEF TypeOK, ClickMarks, corpus, MarkInProgress, Trigger, BeforeListing, Posting,
       Clicked, ClickLeaves
  <2> QED
    BY <2>1, NothingForgotten DEF TypeOK, ClickMarks, corpus, MarkInProgress, Clicked,
       ClickLeaves
<1> QED
  BY <1>1, <1>2, <1>3, <1>4

LEMMA ClickBeginsKeeps == ASSUME NEW k \in Kinds, IInv, ClickBegins(k) PROVE IInv'
<1> USE DEF IInv
<1>1. TypeOK'
  <2>1. row' \in [Kinds -> {"none", "IN_PROGRESS", "over"}]
    BY DEF TypeOK, ClickBegins, Create, IsFree, Refuses
  <2>2. click' \in [Kinds -> {"no", "checked", "marks", "begun", "over"}]
    BY DEF TypeOK, ClickBegins, Clicked
  <2> QED
    BY <2>1, <2>2 DEF TypeOK, ClickBegins, corpus, Troubles, ClickLeaves
<1>2. ItemOK' /\ PrintOne'
  BY DEF TypeOK, Kinds, ItemOK, PrintOne, ClickBegins, corpus, Posting, Analysing,
     Clicked, ClickLeaves, Create, IsFree, Refuses, Running
<1>3. OneRun'
  BY NobodyJoins DEF TypeOK, ClickBegins, corpus, Analysing, Clicked, ClickLeaves,
     Create, IsFree, Refuses, Running
<1>4. Remembered'
  <2>1. trouble' = "none" /\ Trigger => Trigger'
    BY DEF TypeOK, ClickBegins, corpus, Trigger, BeforeListing, Posting, Clicked,
       ClickLeaves, Create, IsFree, Refuses, Running
  <2> QED
    BY <2>1, NothingForgotten DEF TypeOK, ClickBegins, corpus, Clicked, ClickLeaves,
       Create, IsFree, Refuses, Running
<1> QED
  BY <1>1, <1>2, <1>3, <1>4

LEMMA ClickSendsKeeps == ASSUME NEW k \in Kinds, IInv, ClickSends(k) PROVE IInv'
<1> USE DEF IInv
<1>1. TypeOK'
  <2>1. queued' \in [Kinds -> Nat]
    BY DEF TypeOK, ClickSends
  <2>2. click' \in [Kinds -> {"no", "checked", "marks", "begun", "over"}]
    BY DEF TypeOK, ClickSends, Clicked
  <2> QED
    BY <2>1, <2>2 DEF TypeOK, ClickSends, corpus, lock, Troubles, ClickLeaves
<1>2. ItemOK' /\ PrintOne'
  BY DEF TypeOK, Kinds, ItemOK, PrintOne, ClickSends, corpus, lock, Posting, Analysing,
     Clicked, ClickLeaves
<1>3. OneRun'
  BY NobodyJoins DEF TypeOK, ClickSends, corpus, lock, Analysing, Clicked, ClickLeaves
<1>4. Remembered'
  <2>1. queued["caseRefresh"] > 0 => queued'["caseRefresh"] > 0
    BY DEF TypeOK, ClickSends, Kinds
  <2>2. Trigger => Trigger'
    BY <2>1 DEF ClickSends, ClickLeaves, Trigger
  <2> QED
    BY <2>2, NothingForgotten DEF ClickSends, ClickLeaves, corpus
<1> QED
  BY <1>1, <1>2, <1>3, <1>4

LEMMA ComparesUnchangedKeeps == ASSUME NEW w \in Workers, IInv, ComparesUnchanged(w) PROVE IInv'
<1> USE DEF IInv
<1>1. TypeOK'
  BY BoundsAssumption DEF TypeOK, ComparesUnchanged, Goes, WorkerLeaves, Meets, people,
     corpus, lock, Kinds, AtWork, Posting, Analysing, Troubles, RagStatus
<1>2. ItemOK' /\ PrintOne'
  BY DEF TypeOK, Kinds, ItemOK, PrintOne, ComparesUnchanged, Goes, WorkerLeaves, Meets,
     people, corpus, lock, Posting, Analysing
<1>3. OneRun'
  BY NobodyJoins DEF TypeOK, ComparesUnchanged, Goes, WorkerLeaves, Meets, people,
     corpus, lock, Analysing
<1>4. Remembered'
  <2>1. \A v \in Workers : pc'[v] = "works" <=> pc[v] = "works"
    BY DEF TypeOK, ComparesUnchanged, Goes
  <2>2. Ready' = Ready /\ Pending' = Pending /\ due' = due /\ read' = read /\ print' = {Ready}
    BY DEF ComparesUnchanged, WorkerLeaves, people, corpus, Ready, Pending
  <2>3. ASSUME trouble' = "none", NEW v \in Workers, pc'[v] = "works" PROVE read'[v] = Ready'
    BY <2>1, <2>2, <2>3 DEF ComparesUnchanged, Meets
  <2> QED
    BY <2>2, <2>3 DEF Remembered, Covers
<1> QED
  BY <1>1, <1>2, <1>3, <1>4

LEMMA BeginsKeeps == ASSUME NEW w \in Workers, IInv, Begins(w) PROVE IInv'
<1> USE DEF IInv
<1>1. TypeOK'
  <2>1. pc' \in [Workers -> AtWork \cup {"idle"}]
    BY DEF TypeOK, Begins, Goes, AtWork, Posting, Analysing
  <2>2. posts' \in Nat /\ trouble' \in Troubles
    BY ScheduleTypes DEF TypeOK, Begins, Overlaps, Meets, Troubles
  <2>3. row' \in [Kinds -> {"none", "IN_PROGRESS", "over"}]
    BY DEF TypeOK, Begins, Create, IsFree, Refuses
  <2> QED
    BY <2>1, <2>2, <2>3 DEF TypeOK, Begins, Goes, WorkerLeaves, Schedule, Meets, people,
       corpus, Troubles, Running
<1>2. ItemOK' /\ PrintOne'
  BY DEF TypeOK, Kinds, ItemOK, PrintOne, Begins, Goes, WorkerLeaves, Schedule, Meets,
     people, corpus, Posting, Analysing, Create, IsFree, Refuses, Running
<1>3. OneRun'
  <2>1. \A v \in Workers \ {w} : pc'[v] = pc[v]
    BY DEF TypeOK, Begins, Goes
  <2>2. CASE Create("caseRefresh") /\ Goes(w, "begins", "lists") /\ Overlaps
    BY <2>1, <2>2, OneJoins
  <2>3. CASE IsFree("caseRefresh") /\ Goes(w, "begins", "marks") /\ UNCHANGED trouble
    BY <2>3, NobodyJoins DEF TypeOK, Goes, Analysing
  <2>4. CASE Refuses("caseRefresh") /\ Goes(w, "begins", "acks") /\ Schedule
    BY <2>4, NobodyJoins DEF TypeOK, Goes, Schedule, Meets, Analysing
  <2> QED
    BY <2>2, <2>3, <2>4 DEF Begins
<1>4. Remembered'
  <2>1. trouble' = "none" => trouble = "none"
    BY DEF Begins, Overlaps, Schedule, Meets
  <2>2. trouble' = "none" => Trigger'
    <3>1. CASE pc'[w] \in {"lists", "marks"}
      BY <3>1 DEF Trigger, BeforeListing, Posting
    <3>2. CASE Refuses("caseRefresh") /\ Schedule
      BY <3>2 DEF TypeOK, Trigger, Schedule, Meets
    <3> QED
      BY <3>1, <3>2 DEF TypeOK, Begins, Goes
  <2> QED
    BY <2>1, <2>2 DEF Remembered
<1> QED
  BY <1>1, <1>2, <1>3, <1>4

LEMMA MarksKeeps == ASSUME NEW w \in Workers, IInv, Marks(w) PROVE IInv'
<1> USE DEF IInv
<1>1. TypeOK'
  BY BoundsAssumption DEF TypeOK, Marks, Goes, WorkerLeaves, Meets, people, corpus,
     MarkInProgress, Kinds, AtWork, Posting, Analysing, Troubles, RagStatus, Overlaps
<1>2. ItemOK' /\ PrintOne'
  BY DEF TypeOK, Kinds, ItemOK, PrintOne, Marks, Goes, WorkerLeaves, Meets, people,
     corpus, MarkInProgress, Posting, Analysing, Overlaps
<1>3. OneRun'
  <2>1. \A v \in Workers \ {w} : pc'[v] = pc[v]
    BY DEF TypeOK, Marks, Goes
  <2> QED
    BY <2>1, OneJoins DEF Marks
<1>4. Remembered'
  <2>1. Trigger'
    BY DEF TypeOK, Marks, Goes, Trigger, BeforeListing
  <2> QED
    BY <2>1 DEF Remembered
<1> QED
  BY <1>1, <1>2, <1>3, <1>4

LEMMA ListsKeeps == ASSUME NEW w \in Workers, IInv, Lists(w) PROVE IInv'
<1> USE DEF IInv
<1>1. TypeOK'
  <2>1. pc' \in [Workers -> AtWork \cup {"idle"}]
    BY DEF TypeOK, Lists, Goes, AtWork, Posting, Analysing
  <2>2. read' \in [Workers -> SUBSET Docs]
    BY DEF TypeOK, Lists, Ready
  <2> QED
    BY <2>1, <2>2 DEF TypeOK, Lists, Goes, WorkerLeaves, people, corpus, lock, Troubles
<1>2. ItemOK' /\ PrintOne'
  BY DEF TypeOK, Kinds, ItemOK, PrintOne, Lists, Goes, WorkerLeaves, people, corpus,
     lock, Posting, Analysing
<1>3. OneRun'
  BY NobodyJoins DEF TypeOK, Lists, Goes, WorkerLeaves, people, corpus, lock, Analysing
<1>4. Remembered'
  <2>1. Ready' = Ready /\ Pending' = Pending /\ due' = due
    BY DEF Lists, WorkerLeaves, people, corpus, Ready, Pending
  <2>2. pc'[w] = "works" /\ pc'[w] \in Analysing /\ read'[w] = Ready'
    BY <2>1 DEF TypeOK, Lists, Goes, Analysing
  <2>3. ASSUME trouble' = "none", NEW v \in Workers, pc'[v] = "works" PROVE v = w
    BY <1>3, <2>2, <2>3 DEF OneRun, Analysing
  <2> QED
    BY <2>2, <2>3 DEF Remembered, Covers
<1> QED
  BY <1>1, <1>2, <1>3, <1>4

LEMMA SetFingerprintKeeps == ASSUME NEW w \in Workers, IInv, SetFingerprint(w) PROVE IInv'
<1> USE DEF IInv
<1>1. TypeOK'
  <2>1. pc' \in [Workers -> AtWork \cup {"idle"}]
    BY DEF TypeOK, SetFingerprint, Goes, AtWork, Posting, Analysing
  <2>2. read' \in [Workers -> SUBSET Docs] /\ print' \in SUBSET SUBSET Docs
    BY DEF TypeOK, SetFingerprint
  <2> QED
    BY <2>1, <2>2 DEF TypeOK, SetFingerprint, Goes, WorkerLeaves, people, corpus, lock,
       Troubles
<1>2. ItemOK' /\ PrintOne'
  BY DEF TypeOK, Kinds, ItemOK, PrintOne, SetFingerprint, Goes, WorkerLeaves, people,
     corpus, lock, Posting, Analysing
<1>3. OneRun'
  BY NobodyJoins DEF TypeOK, SetFingerprint, Goes, WorkerLeaves, people, corpus, lock,
     Analysing
<1>4. Remembered'
  <2>1. Ready' = Ready /\ Pending' = Pending /\ due' = due
    BY DEF SetFingerprint, WorkerLeaves, people, corpus, Ready, Pending
  <2>2. pc[w] = "works" /\ pc[w] \in Analysing /\ pc'[w] = "done" /\ UNION print' = read[w]
    BY DEF TypeOK, SetFingerprint, Goes, Analysing
  <2>3. ASSUME trouble' = "none", NEW v \in Workers, pc'[v] = "works" PROVE FALSE
    BY <2>2, <2>3 DEF TypeOK, OneRun, SetFingerprint, Goes, Analysing
  <2>4. Trigger => Trigger'
    BY <2>2 DEF TypeOK, SetFingerprint, Goes, WorkerLeaves, Trigger, BeforeListing,
       Posting
  <2> QED
    BY <2>1, <2>2, <2>3, <2>4 DEF Remembered, Covers, SetFingerprint
<1> QED
  BY <1>1, <1>2, <1>3, <1>4

LEMMA RefreshThrowsKeeps == ASSUME NEW w \in Workers, IInv, RefreshThrows(w) PROVE IInv'
<1> USE DEF IInv
<1>1. TypeOK'
  BY BoundsAssumption DEF TypeOK, RefreshThrows, WorkerLeaves, Meets, people, corpus,
     lock, Kinds, AtWork, Posting, Analysing, Troubles, RagStatus
<1>2. ItemOK' /\ PrintOne'
  BY DEF TypeOK, Kinds, ItemOK, PrintOne, RefreshThrows, WorkerLeaves, Meets, people,
     corpus, lock, Posting, Analysing
<1>3. OneRun'
  BY NobodyJoins DEF TypeOK, RefreshThrows, WorkerLeaves, Meets, people, corpus, lock,
     Analysing
<1>4. Remembered'
  BY DEF RefreshThrows, Meets, Remembered
<1> QED
  BY <1>1, <1>2, <1>3, <1>4

LEMMA TakeJobKeeps == ASSUME NEW w \in Workers, NEW k \in Kinds, IInv, TakeJob(w, k) PROVE IInv'
<1> USE DEF IInv
<1>1. TypeOK'
  <2>1. pc' \in [Workers -> AtWork \cup {"idle"}]
    BY DEF TypeOK, TakeJob, Goes, AtWork, Posting, Analysing
  <2>2. queued' \in [Kinds -> Nat]
    BY DEF TypeOK, TakeJob
  <2>3. item' \in [Workers -> Kinds \cup {"none", "post"}]
    BY DEF TypeOK, TakeJob
  <2>4. stale' \in SUBSET Kinds
    BY DEF TypeOK, TakeJob
  <2>5. trouble' \in Troubles
    BY DEF TypeOK, TakeJob, Overlaps, Meets, Troubles
  <2> QED
    BY <2>1, <2>2, <2>3, <2>4, <2>5 DEF TypeOK, TakeJob, people, corpus
<1>2. ItemOK' /\ PrintOne'
  BY DEF TypeOK, Kinds, ItemOK, PrintOne, TakeJob, Goes, Meets, people, corpus, Posting,
     Analysing
<1>3. OneRun'
  <2>1. \A v \in Workers \ {w} : pc'[v] = pc[v]
    BY DEF TypeOK, TakeJob, Goes
  <2>2. CASE k = "caseRefresh"
    BY <2>1, <2>2, OneJoins DEF TakeJob
  <2>3. CASE k # "caseRefresh"
    BY <2>3, NobodyJoins DEF TypeOK, TakeJob, Goes, Analysing
  <2> QED
    BY <2>2, <2>3
<1>4. Remembered'
  <2>1. CASE k = "caseRefresh"
    <3>1. Trigger'
      BY <2>1 DEF TypeOK, TakeJob, Goes, Trigger, BeforeListing
    <3> QED
      BY <3>1 DEF Remembered
  <2>2. CASE k # "caseRefresh"
    <3>1. queued'["caseRefresh"] = queued["caseRefresh"]
      BY <2>2 DEF TypeOK, TakeJob, Kinds
    <3>2. Trigger => Trigger'
      BY <3>1, <2>2 DEF TypeOK, TakeJob, Goes, Trigger, BeforeListing, Posting
    <3> QED
      BY <2>2, <3>2, NothingForgotten DEF TypeOK, TakeJob, Goes, people, corpus
  <2> QED
    BY <2>1, <2>2
<1> QED
  BY <1>1, <1>2, <1>3, <1>4

LEMMA RedeliversKeeps == ASSUME NEW w \in Workers, IInv, Redelivers(w) PROVE IInv'
<1> USE DEF IInv
<1>1. TypeOK'
  <2>1. posts' \in Nat /\ queued' \in [Kinds -> Nat]
    BY DEF TypeOK, Redelivers, ItemOK, AtWork, Posting, Analysing, Kinds
  <2>2. faults' \in 0..MaxFaults
    BY BoundsAssumption DEF TypeOK, Redelivers
  <2>3. pc' \in [Workers -> AtWork \cup {"idle"}]
    BY DEF TypeOK, Redelivers, Idles
  <2>4. read' \in [Workers -> SUBSET Docs] /\ item' \in [Workers -> Kinds \cup {"none", "post"}]
    BY DEF TypeOK, Redelivers, Idles
  <2> QED
    BY <2>1, <2>2, <2>3, <2>4 DEF TypeOK, Redelivers, people, corpus, lock, Troubles,
       Idles
<1>2. ItemOK' /\ PrintOne'
  BY DEF TypeOK, Kinds, ItemOK, PrintOne, Redelivers, people, corpus, lock, Posting,
     Analysing, Idles
<1>3. OneRun'
  BY NobodyJoins DEF TypeOK, Redelivers, people, corpus, lock, Analysing, Idles
<1>4. Remembered'
  <2>1. CASE item[w] = "post"
    <3>1. Trigger'
      BY <2>1 DEF TypeOK, Redelivers, Trigger
    <3> QED
      BY <3>1 DEF Remembered
  <2>2. CASE item[w] = "caseRefresh"
    <3>1. Trigger'
      BY <2>2 DEF TypeOK, Redelivers, Trigger, Kinds
    <3> QED
      BY <3>1 DEF Remembered
  <2>3. CASE item[w] = "pane"
    <3>1. pc[w] \in {"pane", "acks"}
      BY <2>3 DEF TypeOK, ItemOK, Redelivers, AtWork
    <3>2. queued'["caseRefresh"] = queued["caseRefresh"]
      BY <2>3 DEF TypeOK, Redelivers, Kinds
    <3>3. Trigger => Trigger'
      BY <2>3, <3>1, <3>2 DEF TypeOK, Redelivers, Idles, Trigger, BeforeListing, Posting
    <3> QED
      BY <3>1, <3>3, NothingForgotten DEF TypeOK, Redelivers, Idles, people, corpus
  <2>4. item[w] # "none"
    BY DEF TypeOK, ItemOK, Redelivers, AtWork
  <2> QED
    BY <2>1, <2>2, <2>3, <2>4 DEF TypeOK, Kinds
<1> QED
  BY <1>1, <1>2, <1>3, <1>4

LEMMA LetsGoKeeps == ASSUME NEW w \in Workers, IInv, LetsGo(w) PROVE IInv'
<1> USE DEF IInv
<1>1. TypeOK'
  <2>1. pc' \in [Workers -> AtWork \cup {"idle"}]
    BY DEF TypeOK, LetsGo, AtWork
  <2>2. trouble' \in Troubles
    BY DEF TypeOK, LetsGo, Meets, Troubles
  <2> QED
    BY <2>1, <2>2 DEF TypeOK, LetsGo, WorkerLeaves, Meets, people, corpus, lock, Troubles
<1>2. ItemOK' /\ PrintOne'
  BY DEF TypeOK, Kinds, ItemOK, PrintOne, LetsGo, WorkerLeaves, Meets, people, corpus,
     lock, Posting, Analysing
<1>3. OneRun'
  BY NobodyJoins DEF TypeOK, LetsGo, WorkerLeaves, Meets, people, corpus, lock, Analysing
<1>4. Remembered'
  BY DEF LetsGo, Meets, Remembered
<1> QED
  BY <1>1, <1>2, <1>3, <1>4

LEMMA SkipsJobKeeps == ASSUME NEW w \in Workers, NEW k \in Kinds, IInv, SkipsJob(w, k) PROVE IInv'
<1> USE DEF IInv
<1>1. TypeOK'
  <2>1. pc' \in [Workers -> AtWork \cup {"idle"}]
    BY DEF TypeOK, SkipsJob, Goes, AtWork, Posting, Analysing
  <2>2. queued' \in [Kinds -> Nat]
    BY DEF TypeOK, SkipsJob
  <2>3. item' \in [Workers -> Kinds \cup {"none", "post"}]
    BY DEF TypeOK, SkipsJob
  <2>4. trouble' \in Troubles
    BY DEF TypeOK, SkipsJob, Meets, Troubles
  <2> QED
    BY <2>1, <2>2, <2>3, <2>4 DEF TypeOK, SkipsJob, people, corpus, lock
<1>2. ItemOK' /\ PrintOne'
  BY DEF TypeOK, Kinds, ItemOK, PrintOne, SkipsJob, Goes, Meets, people, corpus, lock,
     Posting, Analysing
<1>3. OneRun'
  BY NobodyJoins DEF TypeOK, SkipsJob, Goes, Meets, people, corpus, lock, Analysing
<1>4. Remembered'
  <2>1. CASE k = "caseRefresh"
    BY <2>1 DEF SkipsJob, Meets, Remembered
  <2>2. CASE k # "caseRefresh"
    <3>1. queued'["caseRefresh"] = queued["caseRefresh"]
      BY <2>2 DEF TypeOK, SkipsJob, Kinds
    <3>2. Trigger => Trigger'
      BY <3>1 DEF TypeOK, SkipsJob, Goes, Trigger, BeforeListing, Posting
    <3> QED
      BY <2>2, <3>2, NothingForgotten DEF TypeOK, SkipsJob, Goes, people, corpus
  <2> QED
    BY <2>1, <2>2
<1> QED
  BY <1>1, <1>2, <1>3, <1>4

LEMMA UploadKeeps == ASSUME NEW d \in Docs, IInv, Upload(d) PROVE IInv'
<1> USE DEF IInv
<1>1. TypeOK'
  <2>1. doc' \in [Docs -> RagStatus] /\ due' \in SUBSET Docs
    BY DEF TypeOK, Upload, Changed, RagStatus
  <2>2. posts' \in Nat /\ trouble' \in Troubles
    BY DEF TypeOK, Upload, Troubles
  <2>3. changes' \in 0..MaxChanges
    BY BoundsAssumption DEF TypeOK, Upload, Counted
  <2> QED
    BY <2>1, <2>2, <2>3 DEF TypeOK, Upload, lock, Changed
<1>2. ItemOK' /\ PrintOne'
  BY DEF TypeOK, Kinds, ItemOK, PrintOne, Upload, lock, Posting, Analysing, Changed
<1>3. OneRun'
  BY NobodyJoins DEF Upload, Changed
<1>4. Remembered'
  <2>1. Ready' = Ready /\ Pending' = Pending \cup {d} /\ due' = due
    BY DEF TypeOK, Upload, Changed, Ready, Pending
  <2>2. Trigger' = Trigger
    BY DEF Upload, Changed, Trigger
  <2> QED
    BY <2>1, <2>2 DEF Remembered, Covers, Upload, Changed
<1> QED
  BY <1>1, <1>2, <1>3, <1>4

LEMMA ExtractionBeginsKeeps == ASSUME NEW d \in Docs, IInv, ExtractionBegins(d) PROVE IInv'
<1> USE DEF IInv
<1>1. TypeOK'
  <2>1. doc' \in [Docs -> RagStatus] /\ due' \in SUBSET Docs
    BY DEF TypeOK, ExtractionBegins, Changed, RagStatus
  <2>2. posts' \in Nat /\ trouble' \in Troubles
    BY DEF TypeOK, ExtractionBegins, Troubles
  <2>3. changes' \in 0..MaxChanges
    BY BoundsAssumption DEF TypeOK, ExtractionBegins, Counted
  <2> QED
    BY <2>1, <2>2, <2>3 DEF TypeOK, ExtractionBegins, lock, Changed
<1>2. ItemOK' /\ PrintOne'
  BY DEF TypeOK, Kinds, ItemOK, PrintOne, ExtractionBegins, lock, Posting, Analysing, Changed
<1>3. OneRun'
  BY NobodyJoins DEF ExtractionBegins, Changed
<1>4. Remembered'
  <2>1. Ready' = Ready \ {d} /\ Pending' = Pending \cup {d} /\ due' = due
    BY DEF TypeOK, ExtractionBegins, Changed, Ready, Pending
  <2>2. \A R : Covers(R) => Ready' \ due' \subseteq R /\ R \subseteq Ready' \cup Pending' \cup due'
    BY <2>1 DEF Covers
  <2>3. Trigger' = Trigger
    BY DEF ExtractionBegins, Changed, Trigger
  <2> QED
    BY <2>2, <2>3 DEF Remembered, Covers, ExtractionBegins, Changed
<1> QED
  BY <1>1, <1>2, <1>3, <1>4

LEMMA ExtractedForAnotherKeeps == ASSUME NEW d \in Docs, IInv, ExtractedForAnother(d) PROVE IInv'
<1> USE DEF IInv
<1>1. TypeOK'
  <2>1. doc' \in [Docs -> RagStatus] /\ due' \in SUBSET Docs
    BY DEF TypeOK, ExtractedForAnother, Changed, RagStatus
  <2>2. posts' \in Nat /\ trouble' \in Troubles
    BY DEF TypeOK, ExtractedForAnother, Troubles
  <2>3. changes' \in 0..MaxChanges
    BY BoundsAssumption DEF TypeOK, ExtractedForAnother, Counted
  <2> QED
    BY <2>1, <2>2, <2>3 DEF TypeOK, ExtractedForAnother, lock, Changed
<1>2. ItemOK' /\ PrintOne'
  BY DEF TypeOK, Kinds, ItemOK, PrintOne, ExtractedForAnother, lock, Posting, Analysing, Changed
<1>3. OneRun'
  BY NobodyJoins DEF ExtractedForAnother, Changed
<1>4. Remembered'
  <2>1. /\ d \in due /\ due' = due
        /\ Ready \subseteq Ready' /\ Ready' \subseteq Ready \cup {d}
        /\ Pending' = Pending \ {d}
    BY DEF TypeOK, ExtractedForAnother, Changed, Ready, Pending
  <2>2. \A R : Covers(R) => Ready' \ due' \subseteq R /\ R \subseteq Ready' \cup Pending' \cup due'
    BY <2>1 DEF Covers
  <2>3. Trigger' = Trigger
    BY DEF ExtractedForAnother, Changed, Trigger
  <2> QED
    BY <2>2, <2>3 DEF Remembered, Covers, ExtractedForAnother, Changed
<1> QED
  BY <1>1, <1>2, <1>3, <1>4

LEMMA MovedInKeeps == ASSUME NEW d \in Docs, IInv, MovedIn(d) PROVE IInv'
<1> USE DEF IInv
<1>1. TypeOK'
  <2>1. doc' \in [Docs -> RagStatus] /\ due' \in SUBSET Docs
    BY DEF TypeOK, MovedIn, Changed, RagStatus
  <2>2. posts' \in Nat /\ trouble' \in Troubles
    BY DEF TypeOK, MovedIn, Meets, Troubles
  <2>3. changes' \in 0..MaxChanges
    BY BoundsAssumption DEF TypeOK, MovedIn, Counted
  <2> QED
    BY <2>1, <2>2, <2>3 DEF TypeOK, MovedIn, lock, Changed
<1>2. ItemOK' /\ PrintOne'
  BY DEF TypeOK, Kinds, ItemOK, PrintOne, MovedIn, lock, Posting, Analysing, Changed
<1>3. OneRun'
  BY NobodyJoins DEF MovedIn, Changed, Meets
<1>4. Remembered'
  <2>1. CASE due' = due \cup {d} /\ UNCHANGED trouble
    <3>1. Ready \subseteq Ready' /\ Ready' \subseteq Ready \cup {d} /\ Pending \subseteq Pending'
      BY DEF TypeOK, MovedIn, Changed, Ready, Pending
    <3>2. \A R : Covers(R) => Ready' \ due' \subseteq R /\ R \subseteq Ready' \cup Pending' \cup due'
      BY <2>1, <3>1 DEF Covers
    <3>3. Trigger' = Trigger
      BY DEF MovedIn, Changed, Trigger
    <3> QED
      BY <2>1, <3>2, <3>3 DEF Remembered, Covers, MovedIn, Changed
  <2>2. CASE Meets("unsent")
    BY <2>2 DEF Meets, Remembered
  <2> QED
    BY <2>1, <2>2 DEF MovedIn
<1> QED
  BY <1>1, <1>2, <1>3, <1>4

LEMMA ExtractedKeeps == ASSUME NEW d \in Docs, IInv, Extracted(d) PROVE IInv'
<1> USE DEF IInv
<1>1. TypeOK'
  <2>1. doc' \in [Docs -> RagStatus] /\ due' \in SUBSET Docs
    BY DEF TypeOK, Extracted, Changed, RagStatus
  <2>2. posts' \in Nat /\ trouble' \in Troubles
    BY ScheduleTypes DEF TypeOK, Extracted, Schedule, Meets, Troubles
  <2>3. changes' \in 0..MaxChanges
    BY BoundsAssumption DEF TypeOK, Extracted, Counted
  <2> QED
    BY <2>1, <2>2, <2>3 DEF TypeOK, Extracted, lock, Changed
<1>2. ItemOK' /\ PrintOne'
  BY DEF TypeOK, Kinds, ItemOK, PrintOne, Extracted, lock, Posting, Analysing, Changed
<1>3. OneRun'
  BY NobodyJoins DEF Extracted, Changed, Schedule, Meets
<1>4. Remembered'
  <2>1. trouble' = "none" => Trigger'
    BY DEF TypeOK, Extracted, Schedule, Meets, Trigger
  <2> QED
    BY <2>1 DEF Remembered
<1> QED
  BY <1>1, <1>2, <1>3, <1>4

LEMMA ExtractionFailsKeeps == ASSUME NEW d \in Docs, IInv, ExtractionFails(d) PROVE IInv'
<1> USE DEF IInv
<1>1. TypeOK'
  <2>1. doc' \in [Docs -> RagStatus] /\ due' \in SUBSET Docs
    BY DEF TypeOK, ExtractionFails, Changed, RagStatus
  <2>2. posts' \in Nat /\ trouble' \in Troubles
    BY DEF TypeOK, ExtractionFails, LeavesQuietly, Meets, Troubles
  <2>3. changes' \in 0..MaxChanges
    BY BoundsAssumption DEF TypeOK, ExtractionFails, Counted
  <2> QED
    BY <2>1, <2>2, <2>3 DEF TypeOK, ExtractionFails, lock, Changed
<1>2. ItemOK' /\ PrintOne'
  BY DEF TypeOK, Kinds, ItemOK, PrintOne, ExtractionFails, lock, Posting, Analysing, Changed
<1>3. OneRun'
  BY NobodyJoins DEF ExtractionFails, Changed, LeavesQuietly, Meets
<1>4. Remembered'
  <2>1. trouble' = "none" => trouble = "none"
    BY DEF ExtractionFails, LeavesQuietly, Meets
  <2>2. Ready' = Ready \ {d} /\ Pending' = Pending \ {d} /\ due' = due \ {d}
    BY DEF TypeOK, ExtractionFails, Changed, Ready, Pending
  <2>3. trouble' = "none" => d \notin UNION print /\ \A v \in Workers : d \notin read[v]
    BY DEF LeavesQuietly, ExtractionFails, Meets
  <2>4. \A R : Covers(R) /\ d \notin R =>
               Ready' \ due' \subseteq R /\ R \subseteq Ready' \cup Pending' \cup due'
    BY <2>2 DEF Covers
  <2>5. Trigger => Trigger'
    BY DEF TypeOK, ExtractionFails, Changed, Trigger
  <2> QED
    BY <2>1, <2>3, <2>4, <2>5 DEF Remembered, Covers, ExtractionFails, Changed
<1> QED
  BY <1>1, <1>2, <1>3, <1>4

LEMMA MovedAwayKeeps == ASSUME NEW d \in Docs, IInv, MovedAway(d) PROVE IInv'
<1> USE DEF IInv
<1>1. TypeOK'
  <2>1. doc' \in [Docs -> RagStatus] /\ due' \in SUBSET Docs
    BY DEF TypeOK, MovedAway, Changed, RagStatus
  <2>2. posts' \in Nat /\ trouble' \in Troubles
    <3>1. posts \in Nat /\ trouble \in Troubles
      BY DEF TypeOK
    <3>2. posts' \in Nat
      BY <3>1 DEF MovedAway
    <3>3. trouble' \in Troubles
      BY <3>1 DEF MovedAway, LeavesQuietly, Meets, Troubles
    <3> QED
      BY <3>2, <3>3
  <2>3. changes' \in 0..MaxChanges
    BY BoundsAssumption DEF TypeOK, MovedAway, Counted
  <2> QED
    BY <2>1, <2>2, <2>3 DEF TypeOK, MovedAway, lock, Changed
<1>2. ItemOK' /\ PrintOne'
  BY DEF TypeOK, Kinds, ItemOK, PrintOne, MovedAway, lock, Posting, Analysing, Changed
<1>3. OneRun'
  BY NobodyJoins DEF MovedAway, Changed, LeavesQuietly, Meets
<1>4. Remembered'
  <2>1. trouble' = "none" => trouble = "none"
    BY DEF MovedAway, LeavesQuietly, Meets
  <2>2. Ready' = Ready \ {d} /\ Pending' = Pending \ {d} /\ due' = due \ {d}
    BY DEF TypeOK, MovedAway, Changed, Ready, Pending
  <2>3. trouble' = "none" => d \notin UNION print /\ \A v \in Workers : d \notin read[v]
    BY DEF LeavesQuietly, MovedAway, Meets
  <2>4. \A R : Covers(R) /\ d \notin R =>
               Ready' \ due' \subseteq R /\ R \subseteq Ready' \cup Pending' \cup due'
    BY <2>2 DEF Covers
  <2>5. Trigger => Trigger'
    BY DEF TypeOK, MovedAway, Changed, Trigger
  <2> QED
    BY <2>1, <2>3, <2>4, <2>5 DEF Remembered, Covers, MovedAway, Changed
<1> QED
  BY <1>1, <1>2, <1>3, <1>4

LEMMA DeleteKeeps == ASSUME NEW d \in Docs, IInv, Delete(d) PROVE IInv'
<1> USE DEF IInv
<1>1. TypeOK'
  <2>1. doc' \in [Docs -> RagStatus] /\ due' \in SUBSET Docs
    BY DEF TypeOK, Delete, Changed, RagStatus
  <2>2. posts' \in Nat /\ trouble' \in Troubles
    BY ScheduleTypes DEF TypeOK, Delete, Schedule, LeavesQuietly, Meets, Troubles
  <2>3. changes' \in 0..MaxChanges
    BY BoundsAssumption DEF TypeOK, Delete, Counted
  <2> QED
    BY <2>1, <2>2, <2>3 DEF TypeOK, Delete, lock, Changed
<1>2. ItemOK' /\ PrintOne'
  BY DEF TypeOK, Kinds, ItemOK, PrintOne, Delete, lock, Posting, Analysing, Changed
<1>3. OneRun'
  BY NobodyJoins DEF Delete, Changed, Schedule, LeavesQuietly, Meets
<1>4. Remembered'
  <2>1. CASE doc[d] = "READY"
    <3>1. trouble' = "none" => Trigger'
      BY <2>1 DEF TypeOK, Delete, Schedule, Meets, Trigger
    <3> QED
      BY <3>1 DEF Remembered
  <2>2. CASE doc[d] # "READY"
    <3>1. trouble' = "none" => trouble = "none"
      BY <2>2 DEF Delete, LeavesQuietly, Meets
    <3>2. Ready' = Ready \ {d} /\ Pending' = Pending \ {d} /\ due' = due \ {d}
      BY <2>2 DEF TypeOK, Delete, Changed, Ready, Pending
    <3>3. trouble' = "none" => d \notin UNION print /\ \A v \in Workers : d \notin read[v]
      BY <2>2 DEF LeavesQuietly, Delete, Meets
    <3>4. \A R : Covers(R) /\ d \notin R =>
                 Ready' \ due' \subseteq R /\ R \subseteq Ready' \cup Pending' \cup due'
      BY <3>2 DEF Covers
    <3>5. Trigger => Trigger'
      BY <2>2 DEF TypeOK, Delete, Changed, Trigger
    <3> QED
      BY <3>1, <3>3, <3>4, <3>5 DEF Remembered, Covers, Delete, Changed
  <2> QED
    BY <2>1, <2>2
<1> QED
  BY <1>1, <1>2, <1>3, <1>4

-----------------------------------------------------------------------------
LEMMA NextKeeps == IInv /\ [Next]_vars => IInv'
<1> SUFFICES ASSUME IInv, [Next]_vars PROVE IInv'
  OBVIOUS
<1>1. ASSUME NEW d \in Docs, DocSteps(d) PROVE IInv'
  BY <1>1, UploadKeeps, ExtractedKeeps, ExtractionFailsKeeps, ExtractionBeginsKeeps,
     ExtractedForAnotherKeeps, DeleteKeeps, MovedInKeeps, MovedAwayKeeps DEF DocSteps
<1>2. ASSUME NEW k \in Kinds, LockSteps(k) PROVE IInv'
  BY <1>2, GoesStaleKeeps, PollReadsKeeps, PollClosesKeeps, ClickChecksKeeps,
     ClickBeginsKeeps, ClickMarksKeeps, ClickSendsKeeps DEF LockSteps
<1>3. ASSUME NEW w \in Workers, WorkerSteps(w) PROVE IInv'
  BY <1>3, TakePostKeeps, TakeJobKeeps, SkipsJobKeeps, LetsGoKeeps, CountsPendingKeeps, ComparesUnchangedKeeps,
     ComparesChangedKeeps, LooksForPaneKeeps, BeginsKeeps, MarksKeeps, ListsKeeps,
     SetFingerprintKeeps, RefreshThrowsKeeps, RefreshEndsKeeps, PaneEndsKeeps, AckKeeps
  DEF WorkerSteps
<1>4. CASE UNCHANGED vars
  <2>1. TypeOK' /\ ItemOK' /\ PrintOne'
    BY <1>4 DEF vars, people, corpus, lock, queue, IInv, TypeOK, ItemOK, PrintOne
  <2>2. OneRun'
    BY <1>4, NobodyJoins DEF vars, IInv
  <2>3. Remembered'
    BY <1>4, NothingForgotten DEF vars, people, corpus, queue, IInv, Trigger
  <2> QED
    BY <2>1, <2>2, <2>3 DEF IInv
<1> QED
  BY <1>1, <1>2, <1>3, <1>4, RedeliversKeeps DEF Next

THEOREM IInvAlways == Spec => []IInv
BY InitIInv, NextKeeps, PTL DEF Spec

\* The rows of documents and locks, the messages and the workers keep their types.
THEOREM TypeCorrect == Spec => []TypeOK
BY IInvAlways, PTL DEF IInv

LEMMA RememberedFollows == IInv => ChangeIsRemembered
<1> SUFFICES ASSUME IInv, trouble = "none", Behind, ~Trigger,
                    \A d \in Docs : doc[d] # "PENDING" /\ d \notin due,
                    \A w \in Workers : pc[w] # "works"
             PROVE FALSE
  BY DEF ChangeIsRemembered
<1>1. UNION print = Ready
  BY DEF IInv, TypeOK, Remembered, Covers, Pending
<1>2. CASE print = {}
  BY <1>1, <1>2 DEF Behind
<1>3. CASE print # {}
  <2>1. PICK R \in print : TRUE
    BY <1>3
  <2>2. print = {R}
    BY <2>1 DEF IInv, PrintOne
  <2> QED
    BY <1>1, <2>2 DEF Behind
<1> QED
  BY <1>2, <1>3

\* While the analysis is of other documents than the READY ones, something still
\* to come looks again: no message that finds a pane, a run or a document at
\* work is let go for good (runCasePostExtraction, readySetChanged), and a
\* document that was READY as it was moved in is read again (update). This holds
\* until a trouble is met: a message or an extraction never sent, consent
\* withdrawn, an error, two runs at once, a document an analysis has read moved
\* away, or deleted or failed while it was read again, or a change back to what
\* was saved last while a run is at work.
THEOREM ChangeIsRememberedAlways == Spec => []ChangeIsRemembered
BY IInvAlways, RememberedFollows, PTL
=============================================================================
