------------------------ MODULE MaterialPipeline_proofs ------------------------
(***************************************************************************)
(* The material pipeline: which text the rest of the system reads, proved  *)
(* for every number of materials, clients, contents and requeues.          *)
(*                                                                         *)
(* The inductive invariant comes in layers, each shown to be kept with the *)
(* help of the ones before it: the types; where the files are, who is at   *)
(* which material and what the worker has parsed (Files); whose work is    *)
(* under way (Asked); how many versions are used and still owed (Counts);  *)
(* what the rows say (Sound).                                              *)
(***************************************************************************)
EXTENDS MaterialPipeline, FiniteSetTheorems, WellFoundedInduction, TLAPS

----------------------------------------------------------------------------
(* The types.                                                              *)

Contents == 0..MaxContent
JobStates == {"none", "paused"} \union Active \union Settled
RowStates == {"none", "preparing", "ready", "discarded"}
JobRecords == [state : {"none", "paused"} \union Active \union Settled, hash : 0..MaxContent,
               current : BOOLEAN, resumed : BOOLEAN, priority : {0, 10}]
RowRecords == [state : {"none", "preparing", "ready", "discarded"}, hash : 0..MaxContent,
               text : 0..MaxContent, file : BOOLEAN, superseded : BOOLEAN,
               fenced : BOOLEAN, restored : BOOLEAN]

\* Where the worker's job is not at a row yet, is at its row, is past it.
Before == {"extract", "extracted", "fence", "begin"}
AtRow == {"write", "commit", "discard"}
After == {"derive", "ready", "failed"}
Places == {"idle"} \union Before \union AtRow \union After

WorkerRecords == [pc : Places, m : Materials \union {NoMaterial}, hash : Contents,
                  text : Contents, version : Nat, fenced : BOOLEAN, restored : BOOLEAN]

ClientPlaces == {"idle", "enqueue", "retry", "unlink", "rows", "delete", "bin", "recycled",
                 "erase"}
ClientRecords == [pc : ClientPlaces, m : Materials \union {NoMaterial}, hash : Contents]

Types ==
    /\ TypeOK
    /\ worker \in WorkerRecords
    /\ client \in [Clients -> ClientRecords]
    /\ requeues \in 0..MaxRequeues

----------------------------------------------------------------------------
(* The files, and who is at which material.                                *)

\* The file is in one place, and nothing is there before the record.
FilePlaced(m) ==
    /\ source[m] = 0 \/ trash[m] = 0
    /\ record[m] = "none" => source[m] = 0 /\ trash[m] = 0 /\ job[m] = NoJob

\* The worker is at a material of the running server.
WorkerHolds ==
    worker.pc # "idle" =>
        /\ server = "up"
        /\ worker.m \in Materials
        /\ record[worker.m] # "none"

\* Until it compares, the worker has parsed the content its job names if the
\* file has that content, wherever it is, and was not given it back since.
WorkerExact ==
    /\ worker.pc \in {"extracted", "fence"}
    /\ worker.hash # 0
    /\ worker.hash \in {source[worker.m], trash[worker.m]}
    => worker.restored \/ worker.text = worker.hash

\* So is a client; an upload is not queued behind the pause of a restart.
ClientHolds(u) ==
    client[u].pc # "idle" =>
        /\ server = "up"
        /\ client[u].m \in Materials
        /\ record[client[u].m] # "none"
        /\ client[u].pc = "enqueue" => State(client[u].m) # "paused"

Files ==
    /\ \A m \in Materials : FilePlaced(m)
    /\ WorkerHolds
    /\ WorkerExact
    /\ \A u \in Clients : ClientHolds(u)

----------------------------------------------------------------------------
(* Whose work is under way.                                                *)

AskedFor(m) ==
    /\ server = "recovering" => State(m) \notin Active
    /\ server = "up" /\ State(m) \in Active => job[m].current
    /\ server = "up" /\ State(m) = "processing" => worker.pc # "idle" /\ worker.m = m

Asked == \A m \in Materials : AskedFor(m)

----------------------------------------------------------------------------
(* The versions used, and the ones still owed to a run of the job.         *)

Used(m) == {v \in Versions : rows[m][v].state # "none"}

\* A run that has no row yet.
Owed(m) ==
    \/ State(m) = "queued"
    \/ State(m) = "processing" /\ worker.m = m /\ worker.pc \in Before

Pending(m) == IF Owed(m) THEN 1 ELSE 0

\* The retries of m that are counted but have not written their job.
Retrying(m) == {u \in Clients : client[u].pc = "retry" /\ client[u].m = m}

Counted(m) ==
    /\ IsFiniteSet(Retrying(m))
    /\ Cardinality(Retrying(m)) <= requeues
    /\ \A v \in {0} \union Used(m) : v + Pending(m) + Cardinality(Retrying(m)) <= 1 + requeues
    /\ State(m) = "none" => Used(m) = {}

Counts == \A m \in Materials : Counted(m)

----------------------------------------------------------------------------
(* What the rows say.                                                      *)

\* A row of the table.
RowSound(m, v) ==
    LET r == rows[m][v] IN
    /\ r.state = "preparing" => ~ r.superseded
    /\ r.state = "ready" /\ r.file => <<m, v>> \in files
    /\ r.state = "ready" /\ r.fenced /\ ~ r.restored => r.text = r.hash

HasProduct(m) == \E v \in Versions : Visible(rows[m][v]) /\ rows[m][v].hash = job[m].hash

RowsSound(m) ==
    /\ \A v \in Versions : RowSound(m, v)
    /\ \A v, w \in Versions : Visible(rows[m][v]) /\ Visible(rows[m][w]) => v = w
    /\ State(m) = "draft_ready" => HasProduct(m)

\* The worker has parsed what the file held when it compared, unless the file
\* was given that content back; its row is the newest and, while it is in
\* preparation, fits what the worker has.
WorkerSound ==
    LET m == worker.m
        v == worker.version
        processing == State(m) = "processing"
    IN
    worker.pc # "idle" =>
        /\ State(m) # "draft_ready"
        /\ worker.pc = "begin" /\ worker.fenced /\ ~ worker.restored =>
              worker.text = worker.hash
        /\ worker.pc \in Before /\ processing => worker.hash = job[m].hash
        /\ worker.pc \in AtRow =>
              /\ v \in Versions
              /\ \A w \in Used(m) : w <= v
              /\ rows[m][v].state = "preparing" =>
                    /\ rows[m][v].fenced /\ ~ rows[m][v].restored =>
                          worker.text = rows[m][v].hash
                    /\ processing => rows[m][v].hash = job[m].hash
        /\ worker.pc = "commit" /\ worker.text \in Long => <<m, v>> \in files
        /\ worker.pc \in {"derive", "ready"} /\ processing => HasProduct(m)

Sound == (\A m \in Materials : RowsSound(m)) /\ WorkerSound

PipelineInv == Types /\ Files /\ Asked /\ Counts /\ Sound

----------------------------------------------------------------------------
(* Version numbers.                                                        *)

\* The first version number is one, and they are whole numbers from there.
LEMMA VersionNumbers ==
    /\ MaxRequeues \in Nat /\ MaxContent \in Nat \ {0}
    /\ 1 \in Versions
    /\ \A n \in Int : n \in Versions <=> 1 <= n /\ n <= 1 + MaxRequeues
BY MaterialPipelineAssumption DEF Versions

\* Of some version numbers, one is the highest: the others start shorter
\* ranges up to the last number, and a shortest range starts at it.
LEMMA HighestOf ==
    ASSUME NEW vs \in SUBSET Versions
    PROVE  /\ Highest(vs) \in {0} \union vs
           /\ vs = {} => Highest(vs) = 0
           /\ \A w \in vs : w <= Highest(vs)
<1>1. CASE vs = {}
  BY <1>1 DEF Highest
<1>2. CASE vs # {}
  <2> DEFINE last == 1 + MaxRequeues
             ranges == {v..last : v \in vs}
  <2>1. last \in Nat /\ vs \subseteq Nat /\ \A v \in vs : v <= last
    BY VersionNumbers DEF Versions
  <2>2. ranges \subseteq FiniteSubsetsOf(1..last)
    <3>1. ASSUME NEW v \in vs
          PROVE  v..last \in SUBSET (1..last) /\ IsFiniteSet(v..last)
      BY <2>1, FS_Interval DEF Versions
    <3> QED
      BY <3>1 DEF FiniteSubsetsOf
  <2>3. PICK r \in ranges : \A q \in ranges : ~ (<<q, r>> \in StrictSubsetOrdering(1..last))
    <3>1. IsWellFoundedOn(StrictSubsetOrdering(1..last), FiniteSubsetsOf(1..last))
      BY FS_StrictSubsetOrderingWellFounded
    <3>2. ranges # {}
      BY <1>2
    <3> HIDE DEF ranges, last
    <3> QED
      BY <2>2, <3>1, <3>2, WFMin
  <2>4. PICK v \in vs : r = v..last
    OBVIOUS
  <2>5. ASSUME NEW w \in vs
        PROVE  w <= v
    <3>1. SUFFICES ASSUME w > v PROVE FALSE
      BY <2>1
    <3>2. (w..last) \subseteq (v..last) /\ v \in v..last /\ v \notin w..last
      BY <2>1, <3>1
    <3>3. v..last \in SUBSET (1..last) /\ w..last \in SUBSET (1..last)
      BY <2>1 DEF Versions
    <3>4. <<w..last, v..last>> \in StrictSubsetOrdering(1..last)
      BY <3>2, <3>3 DEF StrictSubsetOrdering
    <3> QED
      BY <2>3, <2>4, <3>4
  <2>6. \E u \in vs : \A w \in vs : w <= u
    BY <2>5
  <2>7. Highest(vs) = CHOOSE u \in vs : \A w \in vs : w <= u
    BY <1>2 DEF Highest
  <2> QED
    BY <1>2, <2>6, <2>7
<1> QED
  BY <1>1, <1>2

----------------------------------------------------------------------------
(* The records.                                                            *)

\* The initial records.
LEMMA FirstRecords ==
    /\ NoJob \in JobRecords /\ NoJob.state = "none" /\ NoJob.hash = 0
    /\ NoRow \in RowRecords /\ NoRow.state = "none" /\ ~ NoRow.superseded
    /\ IdleWorker \in WorkerRecords /\ IdleWorker.pc = "idle"
    /\ IdleClient \in ClientRecords /\ IdleClient.pc = "idle"
<1>1. 0 \in 0..MaxContent
  BY VersionNumbers
<1>2. NoJob \in JobRecords /\ NoJob.state = "none" /\ NoJob.hash = 0
  BY <1>1 DEF NoJob, JobRecords
<1>3. NoRow \in RowRecords /\ NoRow.state = "none" /\ ~ NoRow.superseded
  BY <1>1 DEF NoRow, RowRecords
<1>4. IdleWorker \in WorkerRecords /\ IdleWorker.pc = "idle"
  BY <1>1 DEF IdleWorker, WorkerRecords, Contents, Places
<1>5. IdleClient \in ClientRecords /\ IdleClient.pc = "idle"
  BY <1>1 DEF IdleClient, ClientRecords, Contents, ClientPlaces
<1> QED
  BY <1>2, <1>3, <1>4, <1>5

\* The tables' types, by the names used here.
LEMMA Tables ==
    Types <=>
        /\ record \in [Materials -> {"none", "kept", "recycled", "deleted"}]
        /\ source \in [Materials -> Contents]
        /\ trash \in [Materials -> Contents]
        /\ job \in [Materials -> JobRecords]
        /\ rows \in [Materials -> [Versions -> RowRecords]]
        /\ files \subseteq Materials \X Versions
        /\ server \in {"down", "recovering", "up"}
        /\ worker \in WorkerRecords
        /\ client \in [Clients -> ClientRecords]
        /\ requeues \in 0..MaxRequeues
BY DEF Types, TypeOK, Contents, JobRecords, RowRecords

\* The worker goes on to another place of its program.
LEMMA WorkerGoes ==
    ASSUME Types, NEW pc \in Places, Goes(pc)
    PROVE  /\ worker' \in WorkerRecords
           /\ worker'.pc = pc /\ worker'.m = worker.m
           /\ worker'.hash = 0 /\ worker'.text = 0
<1>1. PICK w \in WorkerRecords : w = worker
  BY DEF Types
<1>2. PICK i \in WorkerRecords : i = IdleWorker /\ i.hash = 0 /\ i.text = 0
  BY FirstRecords DEF IdleWorker
<1>3. worker' = [i EXCEPT !.pc = pc, !.m = w.m]
  BY <1>1, <1>2 DEF Goes
<1> QED
  BY <1>1, <1>2, <1>3 DEF WorkerRecords

\* A client goes on to another place of its call.
LEMMA ClientGoesOn ==
    ASSUME Types, NEW u \in Clients, NEW pc \in ClientPlaces, NEW m \in Materials,
           NEW hash \in Contents, Continues(u, pc, m, hash)
    PROVE  /\ client' \in [Clients -> ClientRecords]
           /\ client'[u].pc = pc /\ client'[u].m = m /\ client'[u].hash = hash
           /\ \A w \in Clients \ {u} : client'[w] = client[w]
<1>1. PICK q \in ClientRecords : q = [pc |-> pc, m |-> m, hash |-> hash]
  BY DEF ClientRecords
<1>2. q.pc = pc /\ q.m = m /\ q.hash = hash
  BY <1>1
<1>3. client' = [client EXCEPT ![u] = q]
  BY <1>1 DEF Continues
<1> QED
  BY <1>2, <1>3, Tables

\* A client's call ends.
LEMMA ClientEnds ==
    ASSUME Types, NEW u \in Clients, Returns(u)
    PROVE  /\ client' \in [Clients -> ClientRecords]
           /\ client'[u].pc = "idle"
           /\ \A w \in Clients \ {u} : client'[w] = client[w]
BY FirstRecords, Tables DEF Returns

\* A job is written.
LEMMA JobWritten ==
    ASSUME Types, NEW m \in Materials, NEW j \in JobRecords, job' = [job EXCEPT ![m] = j]
    PROVE  /\ job' \in [Materials -> JobRecords]
           /\ job'[m] = j
           /\ \A n \in Materials \ {m} : job'[n] = job[n]
BY Tables

\* The state of a job is written.
LEMMA StateWritten ==
    ASSUME Types, NEW m \in Materials, NEW s \in JobStates, SetState(m, s)
    PROVE  /\ job' \in [Materials -> JobRecords]
           /\ job'[m].state = s
           /\ job'[m].hash = job[m].hash
           /\ job'[m].current = job[m].current
           /\ \A n \in Materials \ {m} : job'[n] = job[n]
<1>1. PICK j \in JobRecords : j = job[m]
  BY Tables
<1>2. PICK q \in JobRecords : q = [j EXCEPT !.state = s]
  BY DEF JobRecords, JobStates
<1>3. q.state = s /\ q.hash = j.hash /\ q.current = j.current
  BY <1>2 DEF JobRecords
<1>4. job' = [job EXCEPT ![m] = q]
  BY <1>1, <1>2, Tables DEF SetState
<1> QED
  BY <1>1, <1>3, <1>4, JobWritten

\* A job that is queued.
LEMMA QueuedJob ==
    ASSUME NEW hash \in Contents, NEW resumed \in BOOLEAN, NEW priority \in {0, 10}
    PROVE  /\ Queued(hash, resumed, priority) \in JobRecords
           /\ Queued(hash, resumed, priority).state = "queued"
           /\ Queued(hash, resumed, priority).hash = hash
           /\ Queued(hash, resumed, priority).current
<1>1. PICK q : q = [state |-> "queued", hash |-> hash, current |-> TRUE, resumed |-> resumed,
                    priority |-> priority]
  OBVIOUS
<1>2. q \in JobRecords
  BY <1>1 DEF JobRecords, Contents, Active
<1> QED
  BY <1>1, <1>2 DEF Queued

\* A job at the start of a process.
LEMMA PausedJob ==
    ASSUME NEW j \in JobRecords
    PROVE  /\ Paused(j) \in JobRecords
           /\ Paused(j).state = IF j.state \in Active THEN "paused" ELSE j.state
           /\ Paused(j).hash = j.hash
<1>1. PICK a \in JobRecords : a = [j EXCEPT !.current = FALSE]
  BY DEF JobRecords
<1>2. a.state = j.state /\ a.hash = j.hash
  BY <1>1 DEF JobRecords
<1>3. PICK p \in JobRecords : p = [a EXCEPT !.state = "paused"]
  BY DEF JobRecords
<1>4. p.state = "paused" /\ p.hash = a.hash
  BY <1>3 DEF JobRecords
<1>5. Paused(j) = IF j.state \in Active THEN p ELSE a
  BY <1>1, <1>3 DEF Paused, Aged
<1> QED
  BY <1>1, <1>2, <1>3, <1>4, <1>5

----------------------------------------------------------------------------
(* The rows of a material.                                                 *)

\* A row that gave way: it was in preparation and is gone.
GaveWay(r, q) == r.state = "preparing" /\ q = NoRow

\* A new attempt clears at most the row that was left in preparation.
LEMMA ClearedRows ==
    ASSUME Types, NEW m \in Materials
    PROVE  /\ Cleared(m) \in [Versions -> RowRecords]
           /\ \A w \in Versions : \/ Cleared(m)[w] = rows[m][w]
                                  \/ GaveWay(rows[m][w], Cleared(m)[w])
<1>1. PICK f \in [Versions -> RowRecords] : f = rows[m]
  BY Tables
<1>2. PICK q \in RowRecords : q = IF f[1].state = "preparing" THEN NoRow ELSE f[1]
  BY <1>1, FirstRecords, VersionNumbers
<1>3. Cleared(m) = [f EXCEPT ![1] = q]
  BY <1>1, <1>2 DEF Cleared
<1> QED
  BY <1>1, <1>2, <1>3, VersionNumbers DEF GaveWay

\* The next version follows a used one, or none, and is above all that stay.
LEMMA NextVersionNew ==
    ASSUME Types, NEW m \in Materials
    PROVE  /\ \E v \in {0} \union Used(m) : NextVersion(m) = v + 1
           /\ NextVersion(m) \in Nat
           /\ \A w \in Versions : Cleared(m)[w].state # "none" => w < NextVersion(m)
<1>1. PICK vs \in SUBSET Versions : vs = {v \in Versions : Cleared(m)[v].state # "none"}
  OBVIOUS
<1>2. vs \subseteq Used(m)
  BY <1>1, ClearedRows, FirstRecords DEF Used, GaveWay
<1>3. PICK h : h = Highest(vs)
  OBVIOUS
<1>4. h \in {0} \union vs /\ \A w \in vs : w <= h
  BY <1>3, HighestOf
<1>5. NextVersion(m) = h + 1
  BY <1>1, <1>3 DEF NextVersion
<1>6. h \in Nat
  BY <1>4, VersionNumbers DEF Versions
<1>7. \A w \in Versions : Cleared(m)[w].state # "none" => w < h + 1
  BY <1>1, <1>4, <1>6, VersionNumbers DEF Versions
<1> QED
  BY <1>2, <1>4, <1>5, <1>6, <1>7

\* The rows of m when an attempt has begun.
LEMMA BegunRows ==
    ASSUME Types, NEW m \in Materials, NEW hash \in Contents, NEW fenced \in BOOLEAN,
           NEW restored \in BOOLEAN, NEW n, n = NextVersion(m)
    PROVE  /\ Begun(m, hash, fenced, restored) \in [Versions -> RowRecords]
           /\ n \in Versions =>
                /\ Begun(m, hash, fenced, restored)[n].state = "preparing"
                /\ Begun(m, hash, fenced, restored)[n].hash = hash
                /\ Begun(m, hash, fenced, restored)[n].fenced = fenced
                /\ Begun(m, hash, fenced, restored)[n].restored = restored
                /\ ~ Begun(m, hash, fenced, restored)[n].superseded
                /\ rows[m][n].state \in {"none", "preparing"}
           /\ \A w \in Versions \ {n} :
                \/ Begun(m, hash, fenced, restored)[w] = rows[m][w]
                \/ GaveWay(rows[m][w], Begun(m, hash, fenced, restored)[w])
           /\ \A w \in Versions \ {n} : Begun(m, hash, fenced, restored)[w].state # "none" => w < n
<1>1. PICK f \in [Versions -> RowRecords] : f = Cleared(m)
  BY ClearedRows
<1>2. PICK r \in RowRecords : r = NoRow
  BY FirstRecords
<1>3. PICK q \in RowRecords :
        q = [r EXCEPT !.state = "preparing", !.hash = hash, !.file = TRUE,
                      !.fenced = fenced, !.restored = restored]
  BY DEF RowRecords, Contents
<1>4. /\ q.state = "preparing" /\ q.hash = hash /\ q.fenced = fenced
      /\ q.restored = restored /\ q.superseded = r.superseded
  BY <1>3 DEF RowRecords
<1>5. Begun(m, hash, fenced, restored) = [f EXCEPT ![n] = q]
  BY <1>1, <1>2, <1>3 DEF Begun
<1>6. n \in Versions => rows[m][n].state \in {"none", "preparing"}
  <2>1. ASSUME n \in Versions
        PROVE  Cleared(m)[n].state = "none"
    BY <2>1, NextVersionNew
  <2> QED
    BY <2>1, ClearedRows DEF GaveWay
<1> HIDE DEF Contents
<1> QED
  BY <1>1, <1>2, <1>4, <1>5, <1>6, ClearedRows, NextVersionNew, FirstRecords

\* The rows of m when v is committed.
LEMMA CommittedRows ==
    ASSUME Types, NEW m \in Materials, NEW v \in Versions, NEW text \in Contents
    PROVE  /\ Committed(m, v, text) \in [Versions -> RowRecords]
           /\ LET r == rows[m][v]
                  q == Committed(m, v, text)[v]
              IN /\ q.state = "ready" /\ q.text = text /\ (q.file <=> text \in Long)
                 /\ q.hash = r.hash /\ q.fenced = r.fenced /\ q.restored = r.restored
                 /\ q.superseded = r.superseded
           /\ \A w \in Versions \ {v} :
                LET r == rows[m][w]
                    q == Committed(m, v, text)[w]
                IN /\ q.state = r.state /\ q.text = r.text /\ q.file = r.file
                   /\ q.hash = r.hash /\ q.fenced = r.fenced /\ q.restored = r.restored
                   /\ ~ Visible(q)
                   /\ r.superseded => q.superseded
                   /\ r.state # "ready" => q.superseded = r.superseded
<1>1. PICK f \in [Versions -> RowRecords] : f = rows[m]
  BY Tables
<1>2. PICK long \in BOOLEAN : long <=> text \in Long
  <2>1. CASE text \in Long
    BY <2>1
  <2>2. CASE text \notin Long
    BY <2>2
  <2> QED
    BY <2>1, <2>2
<1>3. ASSUME NEW w \in Versions, NEW r \in RowRecords, r = f[w], NEW q, q = Committed(m, v, text)[w]
      PROVE  q = IF w = v THEN [r EXCEPT !.state = "ready", !.text = text, !.file = long]
                 ELSE IF Visible(r) THEN [r EXCEPT !.superseded = TRUE] ELSE r
  BY <1>1, <1>2, <1>3 DEF Committed
<1>4. ASSUME NEW r \in RowRecords, NEW q,
             q = [r EXCEPT !.state = "ready", !.text = text, !.file = long]
      PROVE  /\ q \in RowRecords
             /\ q.state = "ready" /\ q.text = text /\ q.file = long
             /\ q.hash = r.hash /\ q.fenced = r.fenced /\ q.restored = r.restored
             /\ q.superseded = r.superseded
  BY <1>4 DEF RowRecords, Contents
<1>5. ASSUME NEW r \in RowRecords, NEW q, q = [r EXCEPT !.superseded = TRUE]
      PROVE  /\ q \in RowRecords
             /\ q.state = r.state /\ q.text = r.text /\ q.file = r.file
             /\ q.hash = r.hash /\ q.fenced = r.fenced /\ q.restored = r.restored
             /\ q.superseded
  BY <1>5 DEF RowRecords
<1>6. Committed(m, v, text) = [w \in Versions |-> Committed(m, v, text)[w]]
  BY DEF Committed
<1>7. ASSUME NEW w \in Versions, NEW r \in RowRecords, r = f[w],
             NEW q, q = Committed(m, v, text)[w]
      PROVE  /\ q \in RowRecords
             /\ w = v => /\ q.state = "ready" /\ q.text = text /\ q.file = long
                         /\ q.hash = r.hash /\ q.fenced = r.fenced /\ q.restored = r.restored
                         /\ q.superseded = r.superseded
             /\ w # v => /\ q.state = r.state /\ q.text = r.text /\ q.file = r.file
                         /\ q.hash = r.hash /\ q.fenced = r.fenced /\ q.restored = r.restored
                         /\ ~ Visible(q)
                         /\ r.superseded => q.superseded
                         /\ r.state # "ready" => q.superseded = r.superseded
  <2>1. q = IF w = v THEN [r EXCEPT !.state = "ready", !.text = text, !.file = long]
            ELSE IF Visible(r) THEN [r EXCEPT !.superseded = TRUE] ELSE r
    BY <1>3, <1>7
  <2>2. CASE w = v
    <3>1. q = [r EXCEPT !.state = "ready", !.text = text, !.file = long]
      BY <2>1, <2>2
    <3> QED
      BY <1>4, <2>2, <3>1
  <2>3. CASE w # v /\ Visible(r)
    <3>1. q = [r EXCEPT !.superseded = TRUE]
      BY <2>1, <2>3
    <3> QED
      BY <1>5, <2>3, <3>1 DEF Visible
  <2>4. CASE w # v /\ ~ Visible(r)
    BY <2>1, <2>4
  <2> QED
    BY <2>2, <2>3, <2>4
<1>8. ASSUME NEW w \in Versions
      PROVE  Committed(m, v, text)[w] \in RowRecords
  BY <1>7
<1> HIDE DEF Visible
<1> QED
  BY <1>1, <1>2, <1>6, <1>7, <1>8

\* Discarding a row in preparation.
LEMMA DiscardedRows ==
    ASSUME Types, NEW m \in Materials, NEW v, rows' = Discarded(m, v)
    PROVE  /\ rows' \in [Materials -> [Versions -> RowRecords]]
           /\ \A n \in Materials, w \in Versions :
                \/ rows'[n][w] = rows[n][w]
                \/ /\ n = m /\ w = v
                   /\ rows[n][w].state = "preparing" /\ rows'[n][w].state = "discarded"
<1>1. PICK f \in [Versions -> RowRecords] : f = rows[m]
  BY Tables
<1>2. CASE v \in Versions
  <2>1. PICK r \in RowRecords : r = f[v]
    BY <1>2
  <2>2. PICK d \in RowRecords : d = [r EXCEPT !.state = "discarded"]
    BY DEF RowRecords
  <2>3. d.state = "discarded"
    BY <2>2 DEF RowRecords
  <2>4. PICK q \in RowRecords : q = IF r.state = "preparing" THEN d ELSE r
    OBVIOUS
  <2>5. rows' = [rows EXCEPT ![m] = [f EXCEPT ![v] = q]]
    BY <1>1, <1>2, <2>1, <2>2, <2>4, Tables DEF Discarded
  <2> QED
    BY <1>1, <1>2, <2>1, <2>3, <2>4, <2>5, Tables
<1>3. CASE v \notin Versions
  BY <1>1, <1>3, Tables DEF Discarded
<1> QED
  BY <1>2, <1>3

----------------------------------------------------------------------------
(* The types are kept.                                                     *)

\* The worker's material is one while it is at work.
LEMMA WorkerBusy ==
    ASSUME Types, Files, worker.pc # "idle"
    PROVE  worker.m \in Materials /\ server = "up" /\ record[worker.m] # "none"
BY DEF Files, WorkerHolds

\* What the worker does with the job, and the rest of its program.
LEMMA WorkerTyped == ASSUME Types, Files, WorkerStep PROVE worker' \in WorkerRecords
<1>1. PICK w \in WorkerRecords : w = worker
  BY DEF Types
<1>2. PICK i \in WorkerRecords : i = IdleWorker
  BY FirstRecords
<1>3. ASSUME NEW pc \in Places, Goes(pc)
      PROVE  worker' \in WorkerRecords
  BY <1>3, WorkerGoes
<1>4. ASSUME NEW m \in Materials, Claim(m)
      PROVE  worker' \in WorkerRecords
  <2>1. PICK h \in Contents : h = job[m].hash
    BY Tables DEF JobRecords, Contents
  <2>2. worker' = [i EXCEPT !.pc = "extract", !.m = m, !.hash = h]
    BY <1>2, <1>4, <2>1 DEF Claim
  <2> QED
    BY <2>2 DEF WorkerRecords, Places, Before
<1>5. ASSUME NEW pc \in Places, worker' = [worker EXCEPT !.pc = pc]
      PROVE  worker' \in WorkerRecords
  BY <1>1, <1>5 DEF WorkerRecords
<1>6. CASE Extract
  <2>1. worker.m \in Materials
    BY <1>6, WorkerBusy DEF Extract
  <2>2. PICK t \in Contents : t = source[worker.m]
    BY <2>1, Tables
  <2>3. CASE worker' = [worker EXCEPT !.pc = "extracted", !.text = source[worker.m]]
    BY <1>1, <2>2, <2>3 DEF WorkerRecords, Places, Before
  <2>4. CASE Goes("failed")
    BY <1>3, <2>4 DEF Places, After
  <2> QED
    BY <1>6, <2>3, <2>4 DEF Extract
<1>7. CASE CheckHeld
  <2>1. CASE StillProcessing
    BY <1>5, <1>7, <2>1 DEF CheckHeld, Places, Before
  <2>2. CASE ~ StillProcessing
    BY <1>2, <1>7, <2>2 DEF CheckHeld
  <2> QED
    BY <2>1, <2>2
<1>8. CASE Fence
  <2>1. PICK pc \in {"begin", "failed"} :
          pc = IF Matches(worker.hash, source[worker.m]) THEN "begin" ELSE "failed"
    OBVIOUS
  <2>2. PICK b \in BOOLEAN : b <=> worker.hash # 0 /\ source[worker.m] # 0
    <3>1. CASE worker.hash # 0 /\ source[worker.m] # 0
      BY <3>1
    <3>2. CASE ~ (worker.hash # 0 /\ source[worker.m] # 0)
      BY <3>2
    <3> QED
      BY <3>1, <3>2
  <2>3. worker' = [w EXCEPT !.pc = pc, !.fenced = b]
    BY <1>1, <1>8, <2>1, <2>2 DEF Fence
  <2> QED
    BY <2>3 DEF WorkerRecords, Places, Before, After
<1>9. CASE Begin
  <2>1. PICK n \in Nat : n = NextVersion(worker.m)
    BY <1>9, WorkerBusy, NextVersionNew DEF Begin
  <2>2. CASE MayBegin
    <3>1. PICK pc \in {"write", "commit"} :
            pc = IF worker.text \in Long THEN "write" ELSE "commit"
      OBVIOUS
    <3>2. PICK z \in Contents : z = 0
      BY VersionNumbers DEF Contents
    <3>3. worker' = [w EXCEPT !.pc = pc, !.version = n, !.hash = z, !.fenced = FALSE,
                              !.restored = FALSE]
      BY <1>1, <1>9, <2>1, <2>2, <3>1, <3>2 DEF Begin
    <3> QED
      BY <3>3 DEF WorkerRecords, Places, AtRow
  <2>3. CASE ~ MayBegin
    BY <1>2, <1>9, <2>3 DEF Begin
  <2> QED
    BY <2>2, <2>3
<1>10. CASE WriteFile
  BY <1>5, <1>10 DEF WriteFile, Places, AtRow
<1>11. CASE Commit
  BY <1>3, <1>5, <1>11 DEF Commit, Places, AtRow, After
<1>12. CASE Discard
  BY <1>3, <1>12 DEF Discard, Places, After
<1>13. CASE Derive
  BY <1>2, <1>3, <1>13 DEF Derive, Places, After
<1>14. CASE Finish
  BY <1>2, <1>14 DEF Finish
<1> QED
  BY <1>4, <1>6, <1>7, <1>8, <1>9, <1>10, <1>11, <1>12, <1>13, <1>14 DEF WorkerStep

\* The version the worker is at, while it is at a row (shown below).
AtVersion == worker.pc \in AtRow => worker.version \in Versions

\* The worker's writes to the tables.
LEMMA WorkerWritesTyped == ASSUME Types, Files, AtVersion, WorkerStep PROVE Types'
<1>1. worker' \in WorkerRecords
  BY WorkerTyped
<1>2. CASE job' = job /\ rows' = rows /\ files' = files
           /\ UNCHANGED <<matVars, server, client, requeues>>
  BY <1>1, <1>2, Tables DEF matVars, Types, TypeOK
<1>3. ASSUME NEW m \in Materials, NEW s \in JobStates, SetState(m, s),
             UNCHANGED <<matVars, rows, files, server, client, requeues>>
      PROVE  Types'
  <2>1. job' \in [Materials -> JobRecords]
    BY <1>3, StateWritten
  <2> QED
    BY <1>1, <1>3, <2>1, Tables DEF matVars, Types, TypeOK, JobRecords
<1>4. ASSUME NEW m \in Materials, NEW f \in [Versions -> RowRecords],
             rows' = [rows EXCEPT ![m] = f],
             UNCHANGED <<matVars, job, files, server, client, requeues>>
      PROVE  Types'
  <2>1. rows' \in [Materials -> [Versions -> RowRecords]]
    BY <1>4, Tables
  <2> QED
    BY <1>1, <1>4, <2>1, Tables DEF matVars, Types, TypeOK, RowRecords
<1>5. ASSUME NEW m \in Materials, Claim(m)
      PROVE  Types'
  BY <1>3, <1>5 DEF Claim, JobStates, Active
<1>6. CASE Extract \/ CheckHeld \/ Fence \/ Derive
  BY <1>2, <1>6 DEF Extract, CheckHeld, Fence, Derive, dbVars
<1>7. CASE Begin
  <2>1. PICK m \in Materials : m = worker.m
    BY <1>7, WorkerBusy DEF Begin
  <2>2. PICK h \in Contents : h = worker.hash
    BY DEF Types, WorkerRecords
  <2>3. PICK b \in BOOLEAN, r \in BOOLEAN : b = worker.fenced /\ r = worker.restored
    BY DEF Types, WorkerRecords
  <2>4. CASE MayBegin
    <3>1. PICK f \in [Versions -> RowRecords] : f = Begun(m, h, b, r)
      BY BegunRows
    <3> QED
      BY <1>4, <1>7, <2>1, <2>2, <2>3, <2>4, <3>1 DEF Begin
  <2>5. CASE ~ MayBegin
    BY <1>2, <1>7, <2>5 DEF Begin
  <2> QED
    BY <2>4, <2>5
<1>8. CASE WriteFile
  <2>1. <<worker.m, worker.version>> \in Materials \X Versions
    BY <1>8, WorkerBusy DEF WriteFile, AtVersion, AtRow
  <2>2. files' \subseteq Materials \X Versions
    BY <1>8, <2>1, Tables DEF WriteFile
  <2> QED
    BY <1>1, <1>8, <2>2, Tables DEF WriteFile, matVars, Types, TypeOK
<1>9. CASE Commit
  <2>1. PICK m \in Materials : m = worker.m
    BY <1>9, WorkerBusy DEF Commit
  <2>2. PICK v \in Versions : v = worker.version
    BY <1>9 DEF Commit, AtVersion, AtRow
  <2>3. PICK t \in Contents : t = worker.text
    BY DEF Types, WorkerRecords
  <2>4. CASE rows[m][v].state = "preparing"
    <3>1. PICK f \in [Versions -> RowRecords] : f = Committed(m, v, t)
      BY CommittedRows
    <3> QED
      BY <1>4, <1>9, <2>1, <2>2, <2>3, <2>4, <3>1 DEF Commit
  <2>5. CASE rows[m][v].state # "preparing"
    BY <1>2, <1>9, <2>1, <2>2, <2>5 DEF Commit
  <2> QED
    BY <2>4, <2>5
<1>10. CASE Discard
  <2>1. PICK m \in Materials : m = worker.m
    BY <1>10, WorkerBusy DEF Discard
  <2>2. rows' \in [Materials -> [Versions -> RowRecords]]
    BY <1>10, <2>1, DiscardedRows DEF Discard
  <2> QED
    BY <1>1, <1>10, <2>2, Tables DEF Discard, matVars, Types, TypeOK, RowRecords
<1>11. CASE Finish
  <2>1. PICK m \in Materials : m = worker.m
    BY <1>11, WorkerBusy DEF Finish
  <2>2. PICK s \in JobStates :
          s = Finished(IF worker.pc = "ready" THEN "draft_ready" ELSE "failed")
    <3>1. job[m].state \in JobStates
      BY Tables DEF JobRecords, JobStates
    <3> QED
      BY <2>1, <3>1 DEF Finished, JobStates, Settled, State
  <2> QED
    BY <1>3, <1>11, <2>1, <2>2 DEF Finish
<1> QED
  BY <1>5, <1>6, <1>7, <1>8, <1>9, <1>10, <1>11 DEF WorkerStep

\* The material of a client is one while its call goes on.
LEMMA ClientBusy ==
    ASSUME Types, Files, NEW u \in Clients, client[u].pc # "idle"
    PROVE  /\ client[u].m \in Materials
           /\ record[client[u].m] # "none"
           /\ client[u].hash \in Contents
BY DEF Types, ClientRecords, Files, ClientHolds

\* A call that writes the files of a material and its record, and goes on or
\* ends.
LEMMA CallTyped ==
    ASSUME Types, UNCHANGED <<server, worker>>,
           record' \in [Materials -> {"none", "kept", "recycled", "deleted"}],
           source' \in [Materials -> Contents],
           trash' \in [Materials -> Contents],
           job' \in [Materials -> JobRecords],
           rows' \in [Materials -> [Versions -> RowRecords]],
           files' = files,
           client' \in [Clients -> ClientRecords],
           requeues' \in 0..MaxRequeues
    PROVE  Types'
BY Tables DEF Types, TypeOK, JobRecords, RowRecords, Contents

\* Whatever the users do, the types are kept.
LEMMA CallsTyped == ASSUME Types, Files, NEW u \in Clients, Call(u) PROVE Types'
<1> USE DEF matVars, dbVars
<1>1. PICK z \in Contents : z = 0
  BY VersionNumbers DEF Contents
<1>2. 1 \in Contents
  BY VersionNumbers DEF Contents
<1>3. ASSUME NEW m \in Materials, NEW pc \in ClientPlaces, NEW hash \in Contents,
             Continues(u, pc, m, hash)
      PROVE  client' \in [Clients -> ClientRecords]
  BY <1>3, ClientGoesOn
<1>4. Returns(u) => client' \in [Clients -> ClientRecords]
  BY ClientEnds
<1>5. ASSUME NEW m \in Materials, NEW c \in Contents
      PROVE  /\ [source EXCEPT ![m] = c] \in [Materials -> Contents]
             /\ [trash EXCEPT ![m] = c] \in [Materials -> Contents]
  BY Tables
<1>6. ASSUME NEW m \in Materials, NEW s \in {"none", "kept", "recycled", "deleted"}
      PROVE  [record EXCEPT ![m] = s] \in
               [Materials -> {"none", "kept", "recycled", "deleted"}]
  BY Tables
<1>7. \A m \in Materials : source[m] \in Contents /\ trash[m] \in Contents
  BY Tables
<1>8. ASSUME NEW m \in Materials, CancelForLifecycle(m)
      PROVE  job' \in [Materials -> JobRecords]
  <2>1. PICK s \in JobStates : s = IF State(m) \in Active THEN "canceled" ELSE State(m)
    BY Tables DEF JobRecords, JobStates, Settled, State
  <2> QED
    BY <1>8, <2>1, StateWritten DEF CancelForLifecycle
<1>9. ASSUME NEW m \in Materials, Upload(u, m)
      PROVE  Types'
  BY <1>2, <1>3, <1>5, <1>6, <1>9, CallTyped, Tables DEF Upload, ClientPlaces
<1>10. CASE Enqueue(u)
  <2>1. PICK m \in Materials : m = client[u].m
    BY <1>10, ClientBusy DEF Enqueue
  <2>2. PICK h \in Contents : h = client[u].hash
    BY <1>10, ClientBusy DEF Enqueue
  <2>3. CASE State(m) \in Active
    <3>1. /\ record' \in [Materials -> {"none", "kept", "recycled", "deleted"}]
          /\ source' \in [Materials -> Contents]
          /\ client' \in [Clients -> ClientRecords]
      BY <1>1, <1>4, <1>5, <1>6, <1>10, <2>1, <2>3 DEF Enqueue
    <3> QED
      BY <1>10, <2>1, <2>3, <3>1, CallTyped, Tables DEF Enqueue
  <2>4. CASE State(m) \notin Active
    <3>1. PICK j \in JobRecords : j = Queued(h, FALSE, 0)
      BY QueuedJob
    <3>2. job' = [job EXCEPT ![m] = j]
      BY <1>10, <2>1, <2>2, <2>4, <3>1 DEF Enqueue
    <3>3. job' \in [Materials -> JobRecords]
      BY <3>2, JobWritten
    <3> QED
      BY <1>4, <1>10, <2>1, <2>4, <3>3, CallTyped, Tables DEF Enqueue
  <2> QED
    BY <2>3, <2>4
<1>11. ASSUME NEW m \in Materials, RetryRead(u, m)
       PROVE  Types'
  <2>1. requeues' \in 0..MaxRequeues
    BY <1>11, VersionNumbers, Tables DEF RetryRead
  <2> QED
    BY <1>3, <1>7, <1>11, <2>1, CallTyped, Tables DEF RetryRead, ClientPlaces
<1>12. CASE RetryWrite(u)
  <2>1. PICK m \in Materials : m = client[u].m
    BY <1>12, ClientBusy DEF RetryWrite
  <2>2. PICK h \in Contents : h = client[u].hash
    BY <1>12, ClientBusy DEF RetryWrite
  <2>3. PICK j \in JobRecords :
          j = IF job[m].state \in Active \union {"none"} THEN job[m] ELSE Queued(h, FALSE, 10)
    BY QueuedJob, Tables
  <2>4. job' = [job EXCEPT ![m] = j]
    BY <1>12, <2>1, <2>2, <2>3, Tables DEF RetryWrite
  <2>5. job' \in [Materials -> JobRecords]
    BY <2>4, JobWritten
  <2> QED
    BY <1>4, <1>12, <2>5, CallTyped, Tables DEF RetryWrite
<1>13. ASSUME NEW m \in Materials, RemoveRead(u, m)
       PROVE  Types'
  BY <1>1, <1>3, <1>13, CallTyped, Tables DEF RemoveRead, ClientPlaces
<1>14. CASE RemoveFile(u)
  <2>1. PICK m \in Materials : m = client[u].m
    BY <1>14, ClientBusy DEF RemoveFile
  <2> QED
    BY <1>1, <1>3, <1>5, <1>14, <2>1, CallTyped, Tables DEF RemoveFile, ClientPlaces
<1>15. CASE RemoveRows(u)
  <2>1. PICK m \in Materials : m = client[u].m
    BY <1>15, ClientBusy DEF RemoveRows
  <2>2. job' \in [Materials -> JobRecords]
    BY <1>15, <2>1, FirstRecords, Tables DEF RemoveRows
  <2>3. PICK f \in [Versions -> RowRecords] : f = [v \in Versions |-> NoRow]
    BY FirstRecords
  <2>4. rows' \in [Materials -> [Versions -> RowRecords]]
    BY <1>15, <2>1, <2>3, Tables DEF RemoveRows
  <2> QED
    BY <1>1, <1>3, <1>15, <2>1, <2>2, <2>4, CallTyped, Tables DEF RemoveRows, ClientPlaces
<1>16. CASE DeleteRecord(u)
  <2>1. PICK m \in Materials : m = client[u].m
    BY <1>16, ClientBusy DEF DeleteRecord
  <2> QED
    BY <1>4, <1>6, <1>16, <2>1, CallTyped, Tables DEF DeleteRecord
<1>17. ASSUME NEW m \in Materials, RecycleStart(u, m)
       PROVE  Types'
  BY <1>1, <1>3, <1>8, <1>17, CallTyped, Tables DEF RecycleStart, ClientPlaces
<1>18. CASE RecycleFile(u)
  <2>1. PICK m \in Materials : m = client[u].m
    BY <1>18, ClientBusy DEF RecycleFile
  <2>2. source' \in [Materials -> Contents] /\ trash' \in [Materials -> Contents]
    BY <1>1, <1>5, <1>7, <1>18, <2>1, Tables DEF RecycleFile
  <2>3. client' \in [Clients -> ClientRecords]
    BY <1>1, <1>3, <1>4, <1>18, <2>1 DEF RecycleFile, ClientPlaces
  <2> QED
    BY <1>18, <2>2, <2>3, CallTyped, Tables DEF RecycleFile
<1>19. CASE RecycleEnd(u)
  <2>1. PICK m \in Materials : m = client[u].m
    BY <1>19, ClientBusy DEF RecycleEnd
  <2>2. source' \in [Materials -> Contents] /\ trash' \in [Materials -> Contents]
    BY <1>1, <1>5, <1>7, <1>19, <2>1, Tables DEF RecycleEnd
  <2>3. record' \in [Materials -> {"none", "kept", "recycled", "deleted"}]
    BY <1>6, <1>19, <2>1, Tables DEF RecycleEnd
  <2> QED
    BY <1>4, <1>19, <2>2, <2>3, CallTyped, Tables DEF RecycleEnd
<1>20. ASSUME NEW m \in Materials, PurgeStart(u, m)
       PROVE  Types'
  BY <1>1, <1>3, <1>8, <1>20, CallTyped, Tables DEF PurgeStart, ClientPlaces
<1>21. CASE PurgeFiles(u)
  <2>1. PICK m \in Materials : m = client[u].m
    BY <1>21, ClientBusy DEF PurgeFiles
  <2>2. PICK c \in Contents : c = IF record[m] = "recycled" THEN 0 ELSE trash[m]
    BY <1>1, <1>7
  <2>3. source' \in [Materials -> Contents] /\ trash' \in [Materials -> Contents]
    BY <1>1, <1>5, <1>21, <2>1, <2>2 DEF PurgeFiles
  <2> QED
    BY <1>1, <1>3, <1>21, <2>1, <2>3, CallTyped, Tables DEF PurgeFiles, ClientPlaces
<1> QED
  BY <1>9, <1>10, <1>11, <1>12, <1>13, <1>14, <1>15, <1>16, <1>17, <1>18, <1>19, <1>20, <1>21
     DEF Call

\* An edit: the file has another content, and the worker what it had; if the
\* file has got back what the worker's job names, that is written down.
WorkerKeeps ==
    /\ worker'.pc = worker.pc
    /\ worker'.m = worker.m
    /\ worker'.hash = worker.hash
    /\ worker'.text = worker.text
    /\ worker'.version = worker.version
    /\ worker'.fenced = worker.fenced
    /\ worker.pc \notin {"extracted", "fence"} => worker'.restored = worker.restored

LEMMA EditDoes ==
    ASSUME Types, NEW m \in Materials, Edit(m)
    PROVE  /\ worker' \in WorkerRecords
           /\ WorkerKeeps
           /\ source[m] # 0
           /\ \E c \in Contents :
                 /\ source' = [source EXCEPT ![m] = c]
                 /\ Restores(m, c) => worker'.restored
           /\ worker.restored => worker'.restored
           /\ UNCHANGED <<record, trash, dbVars, server, client, requeues>>
<1>1. PICK w \in WorkerRecords : w = worker
  BY DEF Types
<1>2. PICK c \in 1..MaxContent :
        /\ source' = [source EXCEPT ![m] = c]
        /\ worker' = [worker EXCEPT !.restored = @ \/ Restores(m, c)]
  BY DEF Edit
<1>3. PICK b \in BOOLEAN : b <=> (w.restored \/ Restores(m, c))
  OBVIOUS
<1>4. worker' = [w EXCEPT !.restored = b]
  BY <1>1, <1>2, <1>3 DEF WorkerRecords
<1>5. /\ worker' \in WorkerRecords
      /\ worker'.pc = w.pc /\ worker'.m = w.m /\ worker'.hash = w.hash
      /\ worker'.text = w.text /\ worker'.version = w.version
      /\ worker'.fenced = w.fenced /\ worker'.restored = b
  BY <1>4 DEF WorkerRecords
<1>6. worker.pc \notin {"extracted", "fence"} => b = w.restored
  BY <1>1, <1>3 DEF Restores, WorkerRecords
<1>7. c \in Contents
  BY VersionNumbers DEF Contents
<1> QED
  BY <1>1, <1>2, <1>3, <1>5, <1>6, <1>7 DEF Edit, WorkerKeeps

\* The calls of one step, an edit of the file and the process.
LEMMA OthersTyped ==
    ASSUME Types, Files,
           \/ \E m \in Materials : QuickCall(m) \/ Edit(m)
           \/ Recovery
           \/ Crash
           \/ UNCHANGED vars
    PROVE  Types'
<1> USE DEF matVars, dbVars, vars
<1>1. PICK z \in Contents : z = 0
  BY VersionNumbers DEF Contents
<1>2. \A m \in Materials : source[m] \in Contents /\ trash[m] \in Contents
  BY Tables
<1>3. ASSUME NEW m \in Materials, NEW j \in JobRecords, job' = [job EXCEPT ![m] = j],
             UNCHANGED <<matVars, rows, files, server, worker, client>>,
             requeues' \in 0..MaxRequeues
      PROVE  Types'
  <2>1. job' \in [Materials -> JobRecords]
    BY <1>3, JobWritten
  <2> QED
    BY <1>3, <2>1, CallTyped, Tables
<1>4. ASSUME NEW m \in Materials, Repair(m)
      PROVE  Types'
  <2>1. PICK j \in JobRecords : j = Queued(source[m], FALSE, 0)
    BY <1>2, QueuedJob
  <2> QED
    BY <1>3, <1>4, <2>1, Tables DEF Repair
<1>5. ASSUME NEW m \in Materials, Resume(m)
      PROVE  Types'
  <2>1. PICK q \in JobRecords : q = job[m]
    BY Tables
  <2>2. PICK j \in JobRecords : j = Queued(q.hash, TRUE, q.priority)
    BY QueuedJob DEF JobRecords, Contents
  <2>3. job' = [job EXCEPT ![m] = j]
    BY <1>5, <2>1, <2>2, Tables DEF Resume
  <2>4. requeues' \in 0..MaxRequeues
    BY <1>5, VersionNumbers, Tables DEF Resume
  <2> QED
    BY <1>3, <1>5, <2>3, <2>4 DEF Resume
<1>6. ASSUME NEW m \in Materials, Cancel(m)
      PROVE  Types'
  <2>1. job' \in [Materials -> JobRecords]
    BY <1>6, StateWritten DEF Cancel, JobStates, Settled
  <2> QED
    BY <1>6, <2>1, CallTyped, Tables DEF Cancel
<1>7. ASSUME NEW m \in Materials, Unrecycle(m)
      PROVE  Types'
  <2>1. PICK s \in Contents : s = IF source[m] = 0 THEN trash[m] ELSE source[m]
    BY <1>2
  <2>2. PICK t \in Contents : t = IF source[m] = 0 THEN 0 ELSE trash[m]
    BY <1>1, <1>2
  <2>3. source' = [source EXCEPT ![m] = s] /\ trash' = [trash EXCEPT ![m] = t]
    BY <1>7, <2>1, <2>2, Tables DEF Unrecycle
  <2>4. source' \in [Materials -> Contents] /\ trash' \in [Materials -> Contents]
    BY <2>3, Tables
  <2> QED
    BY <1>7, <2>4, CallTyped, Tables DEF Unrecycle
<1>8. ASSUME NEW m \in Materials, Edit(m)
      PROVE  Types'
  <2>1. source' \in [Materials -> Contents]
    BY <1>8, EditDoes, Tables
  <2>2. worker' \in WorkerRecords
    BY <1>8, EditDoes
  <2> QED
    BY <1>8, <2>1, <2>2, Tables DEF Edit, Types, TypeOK, JobRecords, RowRecords
<1>9. CASE Crash
  BY <1>9, FirstRecords, Tables DEF Crash, Types, TypeOK
<1>10. CASE Boot
  <2>1. \A m \in Materials : Paused(job[m]) \in JobRecords
    BY PausedJob, Tables
  <2>2. job' \in [Materials -> JobRecords]
    BY <1>10, <2>1 DEF Boot
  <2> QED
    BY <1>10, <2>2, Tables DEF Boot, Types, TypeOK, JobRecords
<1>11. ASSUME NEW m \in Materials, NEW v \in Versions, RollBack(m, v)
       PROVE  Types'
  <2>1. CASE <<m, v>> \in files
    BY <1>11, <2>1 DEF RollBack, Types, TypeOK
  <2>2. CASE <<m, v>> \notin files
    <3>1. rows' \in [Materials -> [Versions -> RowRecords]]
      BY <1>11, <2>2, DiscardedRows DEF RollBack
    <3> QED
      BY <1>11, <2>2, <3>1, CallTyped, Tables DEF RollBack
  <2> QED
    BY <2>1, <2>2
<1>12. CASE Recovered
  BY <1>12 DEF Recovered, Types, TypeOK
<1>13. CASE UNCHANGED vars
  BY <1>13 DEF Types, TypeOK
<1> QED
  BY <1>4, <1>5, <1>6, <1>7, <1>8, <1>9, <1>10, <1>11, <1>12, <1>13 DEF QuickCall, Recovery

\* Every step keeps the types.
LEMMA TypesNext == ASSUME Types, Files, AtVersion, [Next]_vars PROVE Types'
BY WorkerWritesTyped, CallsTyped, OthersTyped DEF Next

----------------------------------------------------------------------------
(* The worker's program, step by step.                                     *)

\* The worker is at pc with its material; what it read is as it was.
WorkerAt(pc) ==
    /\ worker'.pc = pc
    /\ worker'.m = worker.m
    /\ worker'.hash = worker.hash
    /\ worker'.text = worker.text
    /\ worker'.version = worker.version
    /\ worker'.fenced = worker.fenced
    /\ worker'.restored = worker.restored

\* The worker moves with all it has.
LEMMA MovesWhole ==
    ASSUME Types, NEW pc \in Places, worker' = [worker EXCEPT !.pc = pc]
    PROVE  WorkerAt(pc)
<1>1. PICK w \in WorkerRecords : w = worker
  BY DEF Types
<1> QED
  BY <1>1 DEF WorkerAt, WorkerRecords

\* A job is claimed.
LEMMA ClaimDoes ==
    ASSUME Types, Files, NEW m \in Materials, Claim(m)
    PROVE  /\ server = "up" /\ worker.pc = "idle" /\ State(m) = "queued"
           /\ worker'.pc = "extract" /\ worker'.m = m /\ worker'.hash = job[m].hash
           /\ job'[m].state = "processing"
           /\ job'[m].hash = job[m].hash
           /\ job'[m].current = job[m].current
           /\ \A n \in Materials \ {m} : job'[n] = job[n]
           /\ UNCHANGED <<matVars, rows, files, server, client, requeues>>
<1>1. PICK i \in WorkerRecords : i = IdleWorker
  BY FirstRecords
<1>2. PICK h \in Contents : h = job[m].hash
  BY Tables DEF JobRecords, Contents
<1>3. worker' = [i EXCEPT !.pc = "extract", !.m = m, !.hash = h]
  BY <1>1, <1>2 DEF Claim
<1>4. worker'.pc = "extract" /\ worker'.m = m /\ worker'.hash = h
  BY <1>1, <1>3 DEF WorkerRecords
<1>5. /\ job'[m].state = "processing"
      /\ job'[m].hash = job[m].hash
      /\ job'[m].current = job[m].current
      /\ \A n \in Materials \ {m} : job'[n] = job[n]
  BY StateWritten DEF Claim, JobStates, Active
<1> QED
  BY <1>2, <1>4, <1>5 DEF Claim, NextQueued, Claimable

\* The file is read, or the job has failed.
LEMMA ExtractDoes ==
    ASSUME Types, Files, Extract
    PROVE  /\ worker.pc = "extract"
           /\ \/ /\ worker'.pc = "extracted" /\ worker'.m = worker.m
                 /\ worker'.hash = worker.hash /\ worker'.text = source[worker.m]
                 /\ source[worker.m] # 0
              \/ worker'.pc = "failed" /\ worker'.m = worker.m
           /\ UNCHANGED <<matVars, dbVars, server, client, requeues>>
<1>1. PICK w \in WorkerRecords : w = worker
  BY DEF Types
<1>2. CASE source[worker.m] # 0
           /\ worker' = [worker EXCEPT !.pc = "extracted", !.text = source[worker.m]]
  <2>1. /\ worker'.pc = "extracted" /\ worker'.m = w.m
        /\ worker'.hash = w.hash /\ worker'.text = source[w.m]
    BY <1>1, <1>2 DEF WorkerRecords
  <2> QED
    BY <1>1, <1>2, <2>1 DEF Extract
<1>3. CASE Goes("failed")
  BY <1>3, WorkerGoes DEF Extract, Places, After
<1> QED
  BY <1>2, <1>3 DEF Extract

\* The job is still to be done, or the worker lets go of it.
LEMMA CheckHeldDoes ==
    ASSUME Types, Files, CheckHeld
    PROVE  /\ worker.pc = "extracted"
           /\ \/ WorkerAt("fence")
              \/ worker'.pc = "idle" /\ State(worker.m) # "processing"
           /\ UNCHANGED <<matVars, dbVars, server, client, requeues>>
BY FirstRecords, MovesWhole DEF CheckHeld, StillProcessing, Places, Before

\* The fingerprints match, and "fenced" says whether there were two.
LEMMA FenceDoes ==
    ASSUME Types, Files, Fence
    PROVE  /\ worker.pc = "fence"
           /\ worker'.m = worker.m /\ worker'.hash = worker.hash /\ worker'.text = worker.text
           /\ worker'.restored = worker.restored
           /\ \/ worker'.pc = "begin" /\ (worker'.fenced => worker.hash = source[worker.m]
                                                            /\ source[worker.m] # 0)
              \/ worker'.pc = "failed"
           /\ UNCHANGED <<matVars, dbVars, server, client, requeues>>
<1>1. PICK w \in WorkerRecords : w = worker
  BY DEF Types
<1>2. PICK pc \in {"begin", "failed"} :
        pc = IF Matches(worker.hash, source[worker.m]) THEN "begin" ELSE "failed"
  OBVIOUS
<1>3. PICK b \in BOOLEAN : b <=> worker.hash # 0 /\ source[worker.m] # 0
  <2>1. CASE worker.hash # 0 /\ source[worker.m] # 0
    BY <2>1
  <2>2. CASE ~ (worker.hash # 0 /\ source[worker.m] # 0)
    BY <2>2
  <2> QED
    BY <2>1, <2>2
<1>4. worker' = [w EXCEPT !.pc = pc, !.fenced = b]
  BY <1>1, <1>2, <1>3 DEF Fence
<1>5. /\ worker'.pc = pc /\ worker'.fenced = b
      /\ worker'.m = w.m /\ worker'.hash = w.hash /\ worker'.text = w.text
      /\ worker'.restored = w.restored
  BY <1>4 DEF WorkerRecords
<1>6. pc = "begin" /\ b => worker.hash = source[worker.m] /\ source[worker.m] # 0
  BY <1>2, <1>3 DEF Matches
<1> QED
  BY <1>1, <1>5, <1>6 DEF Fence

\* A row is begun, under the next version, or the worker lets go.
LEMMA BeginDoes ==
    ASSUME Types, Files, Begin
    PROVE  /\ worker.pc = "begin"
           /\ \/ /\ State(worker.m) = "processing"
                 /\ rows' = [rows EXCEPT ![worker.m] =
                               Begun(worker.m, worker.hash, worker.fenced, worker.restored)]
                 /\ worker'.pc = IF worker.text \in Long THEN "write" ELSE "commit"
                 /\ worker'.m = worker.m /\ worker'.text = worker.text
                 /\ worker'.version = NextVersion(worker.m)
              \/ /\ State(worker.m) # "processing"
                 /\ worker'.pc = "idle" /\ rows' = rows
           /\ UNCHANGED <<matVars, job, files, server, client, requeues>>
<1>1. PICK w \in WorkerRecords : w = worker
  BY DEF Types
<1>2. PICK n : n = NextVersion(worker.m)
  OBVIOUS
<1>3. PICK pc \in {"write", "commit"} :
        pc = IF worker.text \in Long THEN "write" ELSE "commit"
  OBVIOUS
<1>4. CASE MayBegin
  <2>1. worker' = [w EXCEPT !.pc = pc, !.version = n, !.hash = 0, !.fenced = FALSE,
                            !.restored = FALSE]
    BY <1>1, <1>2, <1>3, <1>4 DEF Begin
  <2>2. /\ worker'.pc = pc /\ worker'.version = n
        /\ worker'.m = w.m /\ worker'.text = w.text
    BY <2>1 DEF WorkerRecords
  <2> QED
    BY <1>1, <1>2, <1>3, <1>4, <2>2 DEF Begin, MayBegin, StillProcessing
<1>5. CASE ~ MayBegin
  BY <1>5, FirstRecords DEF Begin, MayBegin, StillProcessing
<1> QED
  BY <1>4, <1>5

\* The file of a long text is written, or not.
LEMMA WriteFileDoes ==
    ASSUME Types, Files, WriteFile
    PROVE  /\ worker.pc = "write"
           /\ \/ WorkerAt("commit") /\ files' = files \union {<<worker.m, worker.version>>}
              \/ WorkerAt("discard") /\ files' = files
           /\ UNCHANGED <<matVars, job, rows, server, client, requeues>>
BY MovesWhole DEF WriteFile, Places, AtRow

\* The row becomes ready, or is given up.
LEMMA CommitDoes ==
    ASSUME Types, Files, Commit
    PROVE  /\ worker.pc = "commit"
           /\ \/ /\ rows[worker.m][worker.version].state = "preparing"
                 /\ rows' = [rows EXCEPT ![worker.m] =
                               Committed(worker.m, worker.version, worker.text)]
                 /\ worker'.pc = "derive" /\ worker'.m = worker.m
              \/ WorkerAt("discard") /\ rows' = rows
           /\ UNCHANGED <<matVars, job, files, server, client, requeues>>
BY WorkerGoes, MovesWhole DEF Commit, Places, AtRow, After

\* The row is discarded.
LEMMA DiscardDoes ==
    ASSUME Types, Files, Discard
    PROVE  /\ worker.pc = "discard"
           /\ worker'.pc = "failed" /\ worker'.m = worker.m
           /\ \A n \in Materials, w \in Versions :
                \/ rows'[n][w] = rows[n][w]
                \/ rows[n][w].state = "preparing" /\ rows'[n][w].state = "discarded"
           /\ UNCHANGED <<matVars, job, files, server, client, requeues>>
<1>1. worker.m \in Materials
  BY WorkerBusy DEF Discard
<1>2. \A n \in Materials, w \in Versions :
        \/ rows'[n][w] = rows[n][w]
        \/ rows[n][w].state = "preparing" /\ rows'[n][w].state = "discarded"
  BY <1>1, DiscardedRows DEF Discard
<1> QED
  BY <1>2, WorkerGoes DEF Discard, Places, After

\* The job is still to be finished, or the worker lets go.
LEMMA DeriveDoes ==
    ASSUME Types, Files, Derive
    PROVE  /\ worker.pc = "derive"
           /\ \/ worker'.pc = "ready" /\ worker'.m = worker.m
              \/ worker'.pc = "idle" /\ State(worker.m) # "processing"
           /\ UNCHANGED <<matVars, dbVars, server, client, requeues>>
BY WorkerGoes, FirstRecords DEF Derive, StillProcessing, Places, After

\* The job ends, if it was still being processed.
LEMMA FinishDoes ==
    ASSUME Types, Files, Finish
    PROVE  /\ worker.pc \in {"ready", "failed"}
           /\ worker'.pc = "idle"
           /\ job'[worker.m].state =
                IF State(worker.m) = "processing"
                THEN IF worker.pc = "ready" THEN "draft_ready" ELSE "failed"
                ELSE State(worker.m)
           /\ job'[worker.m].hash = job[worker.m].hash
           /\ job'[worker.m].current = job[worker.m].current
           /\ \A n \in Materials \ {worker.m} : job'[n] = job[n]
           /\ UNCHANGED <<matVars, rows, files, server, client, requeues>>
<1>1. PICK m \in Materials : m = worker.m
  BY WorkerBusy DEF Finish
<1>2. PICK s : s = Finished(IF worker.pc = "ready" THEN "draft_ready" ELSE "failed")
  OBVIOUS
<1>3. s = IF job[m].state = "processing"
          THEN IF worker.pc = "ready" THEN "draft_ready" ELSE "failed"
          ELSE job[m].state
  BY <1>1, <1>2 DEF Finished, StillProcessing, State
<1>4. job[m].state \in JobStates
  BY Tables DEF JobRecords, JobStates
<1>5. s \in JobStates
  BY <1>3, <1>4 DEF JobStates, Settled
<1>6. /\ job'[m].state = s
      /\ job'[m].hash = job[m].hash
      /\ job'[m].current = job[m].current
      /\ \A n \in Materials \ {m} : job'[n] = job[n]
  BY <1>1, <1>2, <1>5, StateWritten DEF Finish
<1> QED
  BY <1>1, <1>3, <1>6, FirstRecords DEF Finish, State

----------------------------------------------------------------------------
(* The files, and who is at which material.                                *)

\* The file of m stays, goes away or changes its place.
FileMoves(m) ==
    /\ source'[m] \in {0, source[m], trash[m]}
    /\ trash'[m] \in {0, source[m], trash[m]}

\* What any step but an edit may do to a material.
MaterialStep(m) ==
    /\ source'[m] = 0 \/ trash'[m] = 0
    /\ record[m] # "none" => record'[m] # "none" /\ FileMoves(m)
    /\ record'[m] = "none" => source'[m] = 0 /\ trash'[m] = 0 /\ job'[m] = job[m]

\* Such steps keep what the worker has parsed as exact as it was, while it
\* stays where it is.
LEMMA ExactKept ==
    ASSUME Files, UNCHANGED worker, \A m \in Materials : MaterialStep(m)
    PROVE  WorkerExact'
<1>1. worker.pc # "idle" => worker.m \in Materials /\ FileMoves(worker.m)
  BY DEF Files, WorkerHolds, MaterialStep
<1> QED
  BY <1>1 DEF Files, WorkerExact, FileMoves

\* Such steps keep the layer, if they keep what the worker and the clients
\* hold.
LEMMA FilesStep ==
    ASSUME Files, \A m \in Materials : MaterialStep(m),
           WorkerHolds', WorkerExact',
           \A u \in Clients : ClientHolds(u)'
    PROVE  Files'
<1>1. ASSUME NEW m \in Materials
      PROVE  FilePlaced(m)'
  BY DEF Files, FilePlaced, MaterialStep
<1> QED
  BY <1>1 DEF Files

\* A step that leaves the file of a material and its record.
LEMMA OnlyItsJob ==
    ASSUME Files, NEW m \in Materials,
           record'[m] = record[m], source'[m] = source[m], trash'[m] = trash[m],
           record[m] = "none" => job'[m] = job[m]
    PROVE  MaterialStep(m)
BY DEF Files, FilePlaced, MaterialStep, FileMoves

\* A job that is there belongs to a material whose record was made.
LEMMA RecordOfJob ==
    ASSUME Files, NEW m \in Materials, job[m].state # "none"
    PROVE  record[m] # "none"
BY FirstRecords DEF Files, FilePlaced

\* The worker's steps.
LEMMA FilesWorker == ASSUME Types, Files, WorkerStep PROVE Files'
<1> USE DEF matVars, dbVars
<1>1. UNCHANGED <<matVars, server, client>>
  BY DEF WorkerStep, Claim, Extract, CheckHeld, Fence, Begin, WriteFile, Commit, Discard,
         Derive, Finish
<1>2. ASSUME \A m \in Materials :
               /\ record[m] = "none" => job'[m] = job[m]
               /\ job'[m].state = "paused" => job[m].state = "paused",
             WorkerHolds', WorkerExact'
      PROVE  Files'
  <2>1. \A m \in Materials : MaterialStep(m)
    BY <1>1, <1>2, OnlyItsJob
  <2>2. \A u \in Clients : ClientHolds(u)'
    BY <1>1, <1>2 DEF Files, ClientHolds, State
  <2> QED
    BY <1>2, <2>1, <2>2, FilesStep
<1>3. ASSUME UNCHANGED job, worker.pc # "idle", worker'.pc = "idle" \/ worker'.m = worker.m,
             WorkerExact'
      PROVE  Files'
  <2>1. WorkerHolds'
    BY <1>1, <1>3 DEF Files, WorkerHolds
  <2> QED
    BY <1>2, <1>3, <2>1
<1>4. ASSUME UNCHANGED job, worker.pc # "idle", worker'.pc = "idle" \/ worker'.m = worker.m,
             worker'.pc \notin {"extracted", "fence"}
      PROVE  Files'
  BY <1>3, <1>4 DEF WorkerExact
<1>5. ASSUME NEW m \in Materials, Claim(m)
      PROVE  Files'
  <2>1. /\ server = "up" /\ State(m) = "queued"
        /\ worker'.pc = "extract" /\ worker'.m = m
        /\ job'[m].state = "processing"
        /\ \A n \in Materials \ {m} : job'[n] = job[n]
    BY <1>5, ClaimDoes
  <2>2. record[m] # "none"
    BY <2>1, RecordOfJob DEF State
  <2>3. WorkerHolds' /\ WorkerExact'
    BY <1>1, <2>1, <2>2 DEF WorkerHolds, WorkerExact
  <2>4. ASSUME NEW n \in Materials
        PROVE  /\ record[n] = "none" => job'[n] = job[n]
               /\ job'[n].state = "paused" => job[n].state = "paused"
    BY <2>1, <2>2
  <2> QED
    BY <1>2, <2>3, <2>4
<1>6. CASE Extract
  <2>1. CASE worker'.pc = "failed" /\ worker'.m = worker.m
    BY <1>4, <1>6, <2>1, ExtractDoes
  <2>2. CASE /\ worker'.pc = "extracted" /\ worker'.m = worker.m
             /\ worker'.hash = worker.hash /\ worker'.text = source[worker.m]
             /\ source[worker.m] # 0
    <3>1. worker.m \in Materials
      BY <1>6, WorkerBusy DEF Extract
    <3>2. trash[worker.m] = 0
      BY <2>2, <3>1 DEF Files, FilePlaced
    <3>3. WorkerExact'
      BY <1>1, <2>2, <3>2 DEF WorkerExact
    <3> QED
      BY <1>3, <1>6, <2>2, <3>3, ExtractDoes
  <2> QED
    BY <1>6, <2>1, <2>2, ExtractDoes
<1>7. CASE CheckHeld
  <2>1. WorkerExact'
    BY <1>1, <1>7, CheckHeldDoes DEF WorkerAt, Files, WorkerExact
  <2> QED
    BY <1>3, <1>7, <2>1, CheckHeldDoes DEF WorkerAt
<1>8. CASE Fence
  BY <1>4, <1>8, FenceDoes
<1>9. CASE Begin
  BY <1>4, <1>9, BeginDoes
<1>10. CASE WriteFile
  BY <1>4, <1>10, WriteFileDoes DEF WorkerAt
<1>11. CASE Commit
  BY <1>4, <1>11, CommitDoes DEF WorkerAt
<1>12. CASE Discard
  BY <1>4, <1>12, DiscardDoes
<1>13. CASE Derive
  BY <1>4, <1>13, DeriveDoes
<1>14. CASE Finish
  <2>1. PICK m \in Materials : m = worker.m
    BY <1>14, WorkerBusy DEF Finish
  <2>2. record[m] # "none"
    BY <1>14, <2>1, WorkerBusy DEF Finish
  <2>3. /\ worker'.pc = "idle"
        /\ job'[m].state = "paused" => job[m].state = "paused"
        /\ \A n \in Materials \ {m} : job'[n] = job[n]
    BY <1>14, <2>1, FinishDoes DEF State
  <2>4. WorkerHolds' /\ WorkerExact'
    BY <2>3 DEF WorkerHolds, WorkerExact
  <2>5. ASSUME NEW n \in Materials
        PROVE  /\ record[n] = "none" => job'[n] = job[n]
               /\ job'[n].state = "paused" => job[n].state = "paused"
    BY <2>2, <2>3
  <2> QED
    BY <1>2, <2>4, <2>5
<1> QED
  BY <1>5, <1>6, <1>7, <1>8, <1>9, <1>10, <1>11, <1>12, <1>13, <1>14 DEF WorkerStep

\* A call, or anything else beside the worker, of which at most one client is
\* part.
LEMMA FilesCall ==
    ASSUME Types, Files, UNCHANGED <<server, worker>>, server = "up",
           NEW m \in Materials, MaterialStep(m), record'[m] # "none",
           \A n \in Materials \ {m} :
             /\ record'[n] = record[n] /\ source'[n] = source[n] /\ trash'[n] = trash[n]
             /\ job'[n] = job[n],
           job'[m].state = "paused" => job[m].state = "paused",
           NEW u, \A w \in Clients \ {u} : client'[w] = client[w],
           u \in Clients /\ client'[u].pc # "idle" =>
             /\ client'[u].m = m
             /\ client'[u].pc = "enqueue" => job'[m].state # "paused"
    PROVE  Files'
<1>1. ASSUME NEW n \in Materials
      PROVE  MaterialStep(n)
  <2>1. CASE n # m
    BY <2>1, OnlyItsJob
  <2> QED
    BY <2>1
<1>2. WorkerHolds'
  BY <1>1 DEF Files, WorkerHolds, MaterialStep
<1>3. ASSUME NEW w \in Clients
      PROVE  ClientHolds(w)'
  <2>1. CASE w = u
    BY <2>1 DEF ClientHolds, State
  <2>2. CASE w # u
    BY <1>1, <2>2 DEF Files, ClientHolds, State, MaterialStep
  <2> QED
    BY <2>1, <2>2
<1> QED
  BY <1>1, <1>2, <1>3, ExactKept, FilesStep

\* A call ends, and its material keeps its record.
LEMMA FilesEnd ==
    ASSUME Types, Files, UNCHANGED <<server, worker>>, server = "up",
           NEW m \in Materials, MaterialStep(m), record[m] # "none",
           \A n \in Materials \ {m} :
             /\ record'[n] = record[n] /\ source'[n] = source[n] /\ trash'[n] = trash[n]
             /\ job'[n] = job[n],
           job'[m].state = "paused" => job[m].state = "paused",
           NEW u \in Clients, Returns(u)
    PROVE  Files'
<1>1. /\ client'[u].pc = "idle"
      /\ \A w \in Clients \ {u} : client'[w] = client[w]
  BY ClientEnds
<1>2. record'[m] # "none"
  BY DEF MaterialStep
<1> QED
  BY <1>1, <1>2, FilesCall

\* A call goes on, other than to queue an upload.
LEMMA FilesGoOn ==
    ASSUME Types, Files, UNCHANGED <<server, worker>>, server = "up",
           NEW m \in Materials, MaterialStep(m), record[m] # "none",
           \A n \in Materials \ {m} :
             /\ record'[n] = record[n] /\ source'[n] = source[n] /\ trash'[n] = trash[n]
             /\ job'[n] = job[n],
           job'[m].state = "paused" => job[m].state = "paused",
           NEW u \in Clients, NEW pc \in ClientPlaces \ {"idle", "enqueue"},
           NEW hash \in Contents, Continues(u, pc, m, hash)
    PROVE  Files'
<1>1. /\ client'[u].pc = pc /\ client'[u].m = m
      /\ \A w \in Clients \ {u} : client'[w] = client[w]
  BY ClientGoesOn
<1>2. record'[m] # "none"
  BY DEF MaterialStep
<1> QED
  BY <1>1, <1>2, FilesCall

\* The calls of several steps.
LEMMA FilesCalls ==
    ASSUME Types, Files, NEW u \in Clients, server = "up", Call(u)
    PROVE  Files'
<1> USE DEF matVars, dbVars
<1>1. 0 \in Contents
  BY VersionNumbers DEF Contents
<1>2. ASSUME NEW m \in Materials, Upload(u, m)
      PROVE  Files'
  <2>1. /\ client'[u].pc = "enqueue" /\ client'[u].m = m
        /\ \A w \in Clients \ {u} : client'[w] = client[w]
    BY <1>2, ClientGoesOn, VersionNumbers DEF Upload, ClientPlaces, Contents
  <2>2. record[m] = "none" /\ trash[m] = 0 /\ job[m].state = "none"
    BY <1>2, FirstRecords DEF Upload, Files, FilePlaced
  <2>3. /\ record'[m] = "kept" /\ trash' = trash /\ job' = job
        /\ \A n \in Materials \ {m} : record'[n] = record[n] /\ source'[n] = source[n]
    BY <1>2, Tables DEF Upload
  <2>4. MaterialStep(m)
    BY <2>2, <2>3 DEF MaterialStep
  <2> QED
    BY <1>2, <2>1, <2>2, <2>3, <2>4, FilesCall DEF Upload
<1>3. CASE Enqueue(u)
  <2>1. PICK m \in Materials : m = client[u].m
    BY <1>3, ClientBusy DEF Enqueue
  <2>2. record[m] # "none"
    BY <1>3, <2>1, ClientBusy DEF Enqueue
  <2>3. CASE State(m) \in Active
    <3>1. MaterialStep(m)
      BY <1>3, <2>1, <2>3, Tables DEF Enqueue, MaterialStep, FileMoves, Files, FilePlaced
    <3> QED
      BY <1>3, <2>1, <2>2, <2>3, <3>1, FilesEnd, Tables DEF Enqueue
  <2>4. CASE State(m) \notin Active
    <3>1. PICK h \in Contents : h = client[u].hash
      BY <1>3, ClientBusy DEF Enqueue
    <3>2. PICK j \in JobRecords : j = Queued(h, FALSE, 0) /\ j.state = "queued"
      BY QueuedJob
    <3>3. job' = [job EXCEPT ![m] = j]
      BY <1>3, <2>1, <2>4, <3>1, <3>2 DEF Enqueue
    <3>4. job'[m] = j /\ \A n \in Materials \ {m} : job'[n] = job[n]
      BY <3>3, JobWritten
    <3>5. MaterialStep(m)
      BY <1>3, <2>1, <2>2, <2>4, OnlyItsJob DEF Enqueue
    <3> QED
      BY <1>3, <2>1, <2>2, <2>4, <3>2, <3>4, <3>5, FilesEnd DEF Enqueue
  <2> QED
    BY <2>3, <2>4
<1>4. ASSUME NEW m \in Materials, NEW pc \in ClientPlaces \ {"idle", "enqueue"},
             NEW hash \in Contents, Continues(u, pc, m, hash), Present(m),
             UNCHANGED <<matVars, server, worker>>,
             \A n \in Materials \ {m} : job'[n] = job[n],
             job'[m].state = "paused" => job[m].state = "paused"
      PROVE  Files'
  <2>1. record[m] # "none"
    BY <1>4 DEF Present
  <2>2. MaterialStep(m)
    BY <1>4, <2>1, OnlyItsJob
  <2> QED
    BY <1>4, <2>1, <2>2, FilesGoOn
<1>5. ASSUME NEW m \in Materials, RetryRead(u, m)
      PROVE  Files'
  <2>1. source[m] \in Contents /\ "retry" \in ClientPlaces \ {"idle", "enqueue"}
    BY Tables DEF ClientPlaces
  <2> QED
    BY <1>4, <1>5, <2>1 DEF RetryRead
<1>6. CASE RetryWrite(u)
  <2>1. PICK m \in Materials : m = client[u].m
    BY <1>6, ClientBusy DEF RetryWrite
  <2>2. PICK h \in Contents : h = client[u].hash
    BY <1>6, ClientBusy DEF RetryWrite
  <2>3. PICK j \in JobRecords :
          j = IF job[m].state \in Active \union {"none"} THEN job[m] ELSE Queued(h, FALSE, 10)
    BY QueuedJob, Tables
  <2>4. j = job[m] \/ j.state = "queued"
    BY <2>2, <2>3, QueuedJob
  <2>5. job' = [job EXCEPT ![m] = j]
    BY <1>6, <2>1, <2>2, <2>3, Tables DEF RetryWrite
  <2>6. job'[m] = j /\ \A n \in Materials \ {m} : job'[n] = job[n]
    BY <2>5, JobWritten
  <2>7. record[m] # "none"
    BY <1>6, <2>1, ClientBusy DEF RetryWrite
  <2>8. MaterialStep(m)
    BY <1>6, <2>7, OnlyItsJob DEF RetryWrite
  <2> QED
    BY <1>6, <2>4, <2>6, <2>7, <2>8, FilesEnd DEF RetryWrite
<1>7. ASSUME NEW m \in Materials, RemoveRead(u, m)
      PROVE  Files'
  <2>1. "unlink" \in ClientPlaces \ {"idle", "enqueue"}
    BY DEF ClientPlaces
  <2> QED
    BY <1>1, <1>4, <1>7, <2>1 DEF RemoveRead
<1>8. CASE RemoveFile(u)
  <2>1. PICK m \in Materials : m = client[u].m
    BY <1>8, ClientBusy DEF RemoveFile
  <2>2. "rows" \in ClientPlaces \ {"idle", "enqueue"} /\ record[m] # "none"
    BY <1>8, <2>1, ClientBusy DEF ClientPlaces, RemoveFile
  <2>3. MaterialStep(m)
    BY <1>8, <2>1, <2>2, Tables DEF RemoveFile, MaterialStep, FileMoves
  <2> QED
    BY <1>1, <1>8, <2>1, <2>2, <2>3, FilesGoOn, Tables DEF RemoveFile
<1>9. CASE RemoveRows(u)
  <2>1. PICK m \in Materials : m = client[u].m
    BY <1>9, ClientBusy DEF RemoveRows
  <2>2. "delete" \in ClientPlaces \ {"idle", "enqueue"} /\ record[m] # "none"
    BY <1>9, <2>1, ClientBusy DEF ClientPlaces, RemoveRows
  <2>3. job'[m].state = "none" /\ \A n \in Materials \ {m} : job'[n] = job[n]
    BY <1>9, <2>1, FirstRecords, JobWritten DEF RemoveRows
  <2>4. MaterialStep(m)
    BY <1>9, <2>2, OnlyItsJob DEF RemoveRows
  <2> QED
    BY <1>1, <1>9, <2>1, <2>2, <2>3, <2>4, FilesGoOn DEF RemoveRows
<1>10. CASE DeleteRecord(u)
  <2>1. PICK m \in Materials : m = client[u].m
    BY <1>10, ClientBusy DEF DeleteRecord
  <2>2. record[m] # "none"
    BY <1>10, <2>1, ClientBusy DEF DeleteRecord
  <2>3. MaterialStep(m)
    BY <1>10, <2>1, Tables DEF DeleteRecord, MaterialStep, FileMoves, Files, FilePlaced
  <2> QED
    BY <1>10, <2>1, <2>2, <2>3, FilesEnd, Tables DEF DeleteRecord
<1>11. ASSUME NEW m \in Materials, CancelForLifecycle(m)
      PROVE  /\ job'[m].state = "paused" => job[m].state = "paused"
             /\ \A n \in Materials \ {m} : job'[n] = job[n]
  <2>1. PICK s \in JobStates : s = IF State(m) \in Active THEN "canceled" ELSE State(m)
    BY Tables DEF JobRecords, JobStates, Settled, State
  <2>2. SetState(m, s)
    BY <1>11, <2>1 DEF CancelForLifecycle
  <2>3. s = "paused" => job[m].state = "paused"
    BY <2>1 DEF State
  <2> QED
    BY <2>2, <2>3, StateWritten
<1>12. ASSUME NEW m \in Materials, RecycleStart(u, m) \/ PurgeStart(u, m)
       PROVE  Files'
  <2>1. {"bin", "erase"} \subseteq ClientPlaces \ {"idle", "enqueue"}
    BY DEF ClientPlaces
  <2>2. CancelForLifecycle(m)
    BY <1>12 DEF RecycleStart, PurgeStart
  <2> QED
    BY <1>1, <1>4, <1>11, <1>12, <2>1, <2>2 DEF RecycleStart, PurgeStart
<1>13. CASE RecycleFile(u)
  <2>1. PICK m \in Materials : m = client[u].m
    BY <1>13, ClientBusy DEF RecycleFile
  <2>2. record[m] # "none"
    BY <1>13, <2>1, ClientBusy DEF RecycleFile
  <2>3. CASE /\ source' = [source EXCEPT ![m] = 0]
             /\ trash' = [trash EXCEPT ![m] = source[m]]
             /\ Continues(u, "recycled", m, 0)
    <3>1. "recycled" \in ClientPlaces \ {"idle", "enqueue"}
      BY DEF ClientPlaces
    <3>2. /\ source'[m] = 0 /\ trash'[m] = source[m]
          /\ \A n \in Materials \ {m} : source'[n] = source[n] /\ trash'[n] = trash[n]
      BY <2>3, Tables
    <3>3. MaterialStep(m)
      BY <1>13, <2>2, <3>2 DEF RecycleFile, MaterialStep, FileMoves
    <3> QED
      BY <1>1, <1>13, <2>2, <2>3, <3>1, <3>2, <3>3, FilesGoOn DEF RecycleFile
  <2>4. CASE UNCHANGED <<source, trash>> /\ Returns(u)
    <3>1. MaterialStep(m)
      BY <1>13, <2>4, OnlyItsJob DEF RecycleFile
    <3> QED
      BY <1>13, <2>2, <2>4, <3>1, FilesEnd DEF RecycleFile
  <2> QED
    BY <1>13, <2>1, <2>3, <2>4 DEF RecycleFile
<1>14. CASE RecycleEnd(u)
  <2>1. PICK m \in Materials : m = client[u].m
    BY <1>14, ClientBusy DEF RecycleEnd
  <2>2. record[m] # "none"
    BY <1>14, <2>1, ClientBusy DEF RecycleEnd
  <2>3. CASE record' = [record EXCEPT ![m] = "recycled"] /\ UNCHANGED <<source, trash>>
    <3>1. MaterialStep(m)
      BY <1>14, <2>3, Tables DEF RecycleEnd, MaterialStep, FileMoves, Files, FilePlaced
    <3> QED
      BY <1>14, <2>2, <2>3, <3>1, FilesEnd, Tables DEF RecycleEnd
  <2>4. CASE /\ source' = [source EXCEPT ![m] = trash[m]]
             /\ trash' = [trash EXCEPT ![m] = 0]
             /\ UNCHANGED record
    <3>1. /\ source'[m] = trash[m] /\ trash'[m] = 0
          /\ \A n \in Materials \ {m} : source'[n] = source[n] /\ trash'[n] = trash[n]
      BY <2>4, Tables
    <3>2. MaterialStep(m)
      BY <1>14, <2>2, <2>4, <3>1 DEF RecycleEnd, MaterialStep, FileMoves
    <3> QED
      BY <1>14, <2>2, <2>4, <3>1, <3>2, FilesEnd DEF RecycleEnd
  <2> QED
    BY <1>14, <2>1, <2>3, <2>4 DEF RecycleEnd
<1>15. CASE PurgeFiles(u)
  <2>1. PICK m \in Materials : m = client[u].m
    BY <1>15, ClientBusy DEF PurgeFiles
  <2>2. "delete" \in ClientPlaces \ {"idle", "enqueue"} /\ record[m] # "none"
    BY <1>15, <2>1, ClientBusy DEF ClientPlaces, PurgeFiles
  <2>3. /\ source'[m] = 0 /\ trash'[m] \in {0, trash[m]}
        /\ \A n \in Materials \ {m} : source'[n] = source[n] /\ trash'[n] = trash[n]
    BY <1>15, <2>1, Tables DEF PurgeFiles
  <2>4. MaterialStep(m)
    BY <1>15, <2>2, <2>3 DEF PurgeFiles, MaterialStep, FileMoves
  <2> QED
    BY <1>1, <1>15, <2>1, <2>2, <2>3, <2>4, FilesGoOn DEF PurgeFiles
<1> QED
  BY <1>2, <1>3, <1>5, <1>6, <1>7, <1>8, <1>9, <1>10, <1>12, <1>13, <1>14, <1>15 DEF Call

\* An edit: what the worker has parsed was exact, or the file did not have the
\* content of the fingerprint; if it gets it now, that is written down.
LEMMA FilesEdit == ASSUME Types, Files, NEW m \in Materials, Edit(m) PROVE Files'
<1>1. PICK c \in Contents :
        /\ source' = [source EXCEPT ![m] = c]
        /\ Restores(m, c) => worker'.restored
  BY EditDoes
<1>2. /\ source[m] # 0 /\ (worker.restored => worker'.restored)
      /\ UNCHANGED <<record, trash, job, server, client>>
  BY EditDoes DEF dbVars
<1>3. /\ worker'.pc = worker.pc /\ worker'.m = worker.m
      /\ worker'.hash = worker.hash /\ worker'.text = worker.text
  BY EditDoes DEF WorkerKeeps
<1>4. source'[m] = c /\ \A n \in Materials \ {m} : source'[n] = source[n]
  BY <1>1, Tables
<1>5. record[m] # "none" /\ trash[m] = 0
  BY <1>2 DEF Files, FilePlaced
<1>6. ASSUME NEW n \in Materials
      PROVE  FilePlaced(n)'
  BY <1>2, <1>4, <1>5 DEF Files, FilePlaced
<1>7. WorkerHolds' /\ \A u \in Clients : ClientHolds(u)'
  BY <1>2, <1>3 DEF Files, WorkerHolds, ClientHolds, State
<1>8. WorkerExact'
  <2>1. SUFFICES ASSUME worker.pc \in {"extracted", "fence"}, worker.hash # 0,
                        worker.hash \in {source'[worker.m], trash[worker.m]}
                 PROVE  worker'.restored \/ worker.text = worker.hash
    BY <1>2, <1>3 DEF WorkerExact
  <2>2. worker.m \in Materials
    BY <2>1, WorkerBusy
  <2>3. CASE worker.m = m
    BY <1>1, <1>4, <1>5, <2>1, <2>3 DEF Restores
  <2>4. CASE worker.m # m
    BY <1>2, <1>4, <2>1, <2>2, <2>4 DEF Files, WorkerExact
  <2> QED
    BY <2>3, <2>4
<1> QED
  BY <1>6, <1>7, <1>8 DEF Files

\* Files and records are not touched; nobody is at work afterwards, or
\* everybody stays where they are and the jobs as they were.
LEMMA FilesUntouched ==
    ASSUME Types, Files, UNCHANGED <<record, source, trash>>,
           \A m \in Materials : record[m] = "none" => job'[m] = job[m],
           \/ UNCHANGED <<server, worker, client, job>>
           \/ worker'.pc = "idle" /\ \A u \in Clients : client'[u].pc = "idle"
    PROVE  Files'
<1>1. \A m \in Materials : MaterialStep(m)
  BY OnlyItsJob
<1>2. CASE UNCHANGED <<server, worker, client, job>>
  BY <1>1, <1>2, ExactKept, FilesStep DEF Files, WorkerHolds, ClientHolds, State
<1>3. CASE worker'.pc = "idle" /\ \A u \in Clients : client'[u].pc = "idle"
  BY <1>1, <1>3, FilesStep DEF WorkerHolds, WorkerExact, ClientHolds
<1> QED
  BY <1>2, <1>3

\* A call of one step.
LEMMA FilesQuick ==
    ASSUME Types, Files, UNCHANGED <<server, worker, client>>,
           NEW m \in Materials, MaterialStep(m),
           \A n \in Materials \ {m} :
             /\ record'[n] = record[n] /\ source'[n] = source[n] /\ trash'[n] = trash[n]
             /\ job'[n] = job[n],
           job'[m].state = "paused" => job[m].state = "paused"
    PROVE  Files'
<1>1. ASSUME NEW n \in Materials
      PROVE  MaterialStep(n)
  <2>1. CASE n # m
    BY <2>1, OnlyItsJob
  <2> QED
    BY <2>1
<1>2. WorkerHolds'
  BY <1>1 DEF Files, WorkerHolds, MaterialStep
<1>3. ASSUME NEW u \in Clients
      PROVE  ClientHolds(u)'
  BY <1>1 DEF Files, ClientHolds, State, MaterialStep
<1> QED
  BY <1>1, <1>2, <1>3, ExactKept, FilesStep

\* The calls of one step, edits, and the process.
LEMMA FilesOthers ==
    ASSUME Types, Files,
           \/ \E m \in Materials : QuickCall(m) \/ Edit(m)
           \/ Recovery
           \/ Crash
           \/ UNCHANGED vars
    PROVE  Files'
<1> USE DEF matVars, dbVars, vars
<1>1. ASSUME NEW m \in Materials, NEW j \in JobRecords, job' = [job EXCEPT ![m] = j],
             j.state # "paused", record[m] # "none",
             UNCHANGED <<matVars, server, worker, client>>
      PROVE  Files'
  <2>1. job'[m] = j /\ \A n \in Materials \ {m} : job'[n] = job[n]
    BY <1>1, JobWritten
  <2>2. MaterialStep(m)
    BY <1>1, OnlyItsJob
  <2> QED
    BY <1>1, <2>1, <2>2, FilesQuick
<1>2. ASSUME NEW m \in Materials, Repair(m)
      PROVE  Files'
  <2>1. PICK h \in Contents : h = source[m]
    BY Tables
  <2>2. PICK j \in JobRecords : j = Queued(h, FALSE, 0) /\ j.state = "queued"
    BY QueuedJob
  <2> QED
    BY <1>1, <1>2, <2>1, <2>2 DEF Repair, Present
<1>3. ASSUME NEW m \in Materials, Resume(m)
      PROVE  Files'
  <2>1. PICK q \in JobRecords : q = job[m]
    BY Tables
  <2>2. q.hash \in Contents /\ q.priority \in {0, 10}
    BY DEF JobRecords, Contents
  <2>3. PICK j \in JobRecords : j = Queued(q.hash, TRUE, q.priority)
    BY <2>2, QueuedJob
  <2>4. j.state = "queued"
    BY <2>2, <2>3, QueuedJob
  <2>5. job' = [job EXCEPT ![m] = j]
    BY <1>3, <2>1, <2>3, Tables DEF Resume
  <2> QED
    BY <1>1, <1>3, <2>4, <2>5 DEF Resume, Present
<1>4. ASSUME NEW m \in Materials, Cancel(m)
      PROVE  Files'
  <2>1. /\ job'[m].state = "canceled"
        /\ \A n \in Materials \ {m} : job'[n] = job[n]
    BY <1>4, StateWritten DEF Cancel, JobStates, Settled
  <2>2. MaterialStep(m)
    BY <1>4, OnlyItsJob DEF Cancel, Present
  <2> QED
    BY <1>4, <2>1, <2>2, FilesQuick DEF Cancel
<1>5. ASSUME NEW m \in Materials, Unrecycle(m)
      PROVE  Files'
  <2>1. /\ source'[m] = IF source[m] = 0 THEN trash[m] ELSE source[m]
        /\ trash'[m] = IF source[m] = 0 THEN 0 ELSE trash[m]
        /\ record'[m] = "kept"
        /\ \A n \in Materials \ {m} : /\ record'[n] = record[n]
                                     /\ source'[n] = source[n]
                                     /\ trash'[n] = trash[n]
    BY <1>5, Tables DEF Unrecycle
  <2>2. MaterialStep(m)
    BY <1>5, <2>1 DEF Unrecycle, MaterialStep, FileMoves, Files, FilePlaced
  <2> QED
    BY <1>5, <2>1, <2>2, FilesQuick DEF Unrecycle
<1>6. ASSUME NEW m \in Materials, Edit(m)
      PROVE  Files'
  BY <1>6, FilesEdit
<1>7. CASE Crash
  BY <1>7, FirstRecords, FilesUntouched DEF Crash
<1>8. CASE Boot
  <2>1. worker'.pc = "idle" /\ \A u \in Clients : client'[u].pc = "idle"
    BY <1>8 DEF Boot, Files, WorkerHolds, ClientHolds
  <2>2. ASSUME NEW m \in Materials, record[m] = "none"
        PROVE  job'[m] = job[m]
    <3>1. job[m] = NoJob /\ job'[m] = Paused(NoJob)
      BY <1>8, <2>2 DEF Boot, Files, FilePlaced
    <3>2. Paused(NoJob) = [NoJob EXCEPT !.current = FALSE]
      BY DEF Paused, Aged, NoJob, Active
    <3>3. Paused(NoJob) = NoJob
      BY <3>2 DEF NoJob
    <3> QED
      BY <3>1, <3>3
  <2> QED
    BY <1>8, <2>1, <2>2, FilesUntouched DEF Boot
<1>9. ASSUME NEW m \in Materials, NEW v \in Versions, RollBack(m, v)
      PROVE  Files'
  BY <1>9, FilesUntouched DEF RollBack
<1>10. CASE Recovered
  <2>1. worker'.pc = "idle" /\ \A u \in Clients : client'[u].pc = "idle"
    BY <1>10 DEF Recovered, Files, WorkerHolds, ClientHolds
  <2> QED
    BY <1>10, <2>1, FilesUntouched DEF Recovered
<1>11. CASE UNCHANGED vars
  BY <1>11, FilesUntouched
<1> QED
  BY <1>2, <1>3, <1>4, <1>5, <1>6, <1>7, <1>8, <1>9, <1>10, <1>11 DEF QuickCall, Recovery

\* Every step keeps the layer.
LEMMA FilesNext == ASSUME Types, Files, [Next]_vars PROVE Files'
BY FilesWorker, FilesCalls, FilesOthers DEF Next

----------------------------------------------------------------------------
(* What a user does to a material.                                         *)

\* Nothing to the job and its rows; a retry of another material may be
\* counted, one of this material may be over.
LeavesAlone(m) ==
    /\ job'[m] = job[m] /\ rows'[m] = rows[m]
    /\ Retrying(m)' \subseteq Retrying(m)
    /\ requeues' \in {requeues, requeues + 1}

Stops(m) ==
    /\ job'[m].state = "canceled" /\ rows'[m] = rows[m]
    /\ Retrying(m)' = Retrying(m)
    /\ requeues' = requeues

AsksRetry(m) ==
    /\ job'[m] = job[m] /\ rows'[m] = rows[m]
    /\ \E u \in Clients : Retrying(m)' = Retrying(m) \union {u}
    /\ requeues' = requeues + 1

\* The job is queued: for the first time, after a restart, or by a retry.
Queues(m) ==
    /\ job'[m].state = "queued" /\ job'[m].current
    /\ rows'[m] = rows[m]
    /\ \/ State(m) = "none" /\ Retrying(m)' = Retrying(m) /\ requeues' = requeues
       \/ State(m) = "paused" /\ Retrying(m)' = Retrying(m) /\ requeues' = requeues + 1
       \/ /\ State(m) \notin Active
          /\ \E u \in Retrying(m) : Retrying(m)' = Retrying(m) \ {u}
          /\ requeues' = requeues

Removes(m) ==
    /\ job'[m].state = "none"
    /\ \A v \in Versions : rows'[m][v].state = "none"
    /\ Retrying(m)' = Retrying(m)
    /\ requeues' = requeues

UserDoes(m) == LeavesAlone(m) \/ Stops(m) \/ AsksRetry(m) \/ Queues(m) \/ Removes(m)

\* A client that neither begins nor ends a retry.
LEMMA RetryingSame ==
    ASSUME NEW u, \A w \in Clients \ {u} : client'[w] = client[w],
           u \in Clients => client[u].pc # "retry" /\ client'[u].pc # "retry",
           NEW m \in Materials
    PROVE  Retrying(m)' = Retrying(m)
<1>1. ASSUME NEW w \in Clients
      PROVE  w \in Retrying(m)' <=> w \in Retrying(m)
  <2>1. CASE w = u
    BY <2>1 DEF Retrying
  <2>2. CASE w # u
    BY <2>2 DEF Retrying
  <2> QED
    BY <2>1, <2>2
<1> QED
  BY <1>1 DEF Retrying

\* Cancelling for the life cycle.
LEMMA CanceledForLifecycle ==
    ASSUME Types, NEW m \in Materials, CancelForLifecycle(m)
    PROVE  /\ job'[m] = job[m] \/ job'[m].state = "canceled"
           /\ \A n \in Materials \ {m} : job'[n] = job[n]
<1>1. CASE State(m) \in Active
  BY <1>1, StateWritten DEF CancelForLifecycle, JobStates, Settled
<1>2. CASE State(m) \notin Active
  <2>1. job' = job
    BY <1>2, Tables DEF CancelForLifecycle, SetState, State, JobRecords
  <2> QED
    BY <2>1
<1> QED
  BY <1>1, <1>2

\* A call that leaves the rows and the count.
LEMMA CallLeaves ==
    ASSUME UNCHANGED <<rows, requeues>>,
           \A n \in Materials : Retrying(n)' = Retrying(n),
           NEW m \in Materials,
           \A n \in Materials \ {m} : job'[n] = job[n],
           \/ job'[m] = job[m]
           \/ job'[m].state = "canceled"
           \/ job'[m].state = "queued" /\ job'[m].current /\ State(m) = "none"
    PROVE  \A n \in Materials : UserDoes(n)
<1>1. ASSUME NEW n \in Materials, job'[n] = job[n]
      PROVE  UserDoes(n)
  BY <1>1 DEF UserDoes, LeavesAlone
<1>2. job'[m].state = "canceled" => UserDoes(m)
  BY DEF UserDoes, Stops
<1>3. job'[m].state = "queued" /\ job'[m].current /\ State(m) = "none" => UserDoes(m)
  BY DEF UserDoes, Queues
<1>4. job'[m] = job[m] => UserDoes(m)
  BY <1>1
<1>5. UserDoes(m)
  BY <1>2, <1>3, <1>4
<1>6. ASSUME NEW n \in Materials
      PROVE  UserDoes(n)
  <2>1. CASE n = m
    BY <1>5, <2>1
  <2>2. CASE n # m
    BY <1>1, <2>2
  <2> QED
    BY <2>1, <2>2
<1> QED
  BY <1>6

\* The calls of several steps.
LEMMA CallDoes ==
    ASSUME Types, Files, NEW u \in Clients, Call(u)
    PROVE  /\ UNCHANGED <<files, server, worker>>
           /\ \A n \in Materials : UserDoes(n)
<1> USE DEF matVars, dbVars
<1>1. UNCHANGED <<files, server, worker>>
  BY DEF Call, Upload, Enqueue, RetryRead, RetryWrite, RemoveRead, RemoveFile, RemoveRows,
         DeleteRecord, RecycleStart, RecycleFile, RecycleEnd, PurgeStart, PurgeFiles
<1> SUFFICES \A n \in Materials : UserDoes(n)
  BY <1>1
<1>2. ASSUME NEW m \in Materials, NEW pc \in ClientPlaces \ {"retry"}, NEW h \in Contents,
             Continues(u, pc, m, h), client[u].pc # "retry"
      PROVE  \A n \in Materials : Retrying(n)' = Retrying(n)
  <2>1. client'[u].pc = pc /\ \A w \in Clients \ {u} : client'[w] = client[w]
    BY <1>2, ClientGoesOn
  <2> QED
    BY <1>2, <2>1, RetryingSame
<1>3. ASSUME Returns(u), client[u].pc # "retry"
      PROVE  \A n \in Materials : Retrying(n)' = Retrying(n)
  <2>1. client'[u].pc = "idle" /\ \A w \in Clients \ {u} : client'[w] = client[w]
    BY <1>3, ClientEnds
  <2> QED
    BY <1>3, <2>1, RetryingSame
<1>4. 0 \in Contents /\ 1 \in Contents
  BY VersionNumbers DEF Contents
<1> USE DEF ClientPlaces
<1>5. ASSUME NEW m \in Materials, Upload(u, m) \/ RemoveRead(u, m)
      PROVE  \A n \in Materials : UserDoes(n)
  <2>1. \A n \in Materials : Retrying(n)' = Retrying(n)
    BY <1>2, <1>4, <1>5 DEF Upload, RemoveRead, Idle
  <2>2. job' = job /\ rows' = rows /\ requeues' = requeues
    BY <1>5 DEF Upload, RemoveRead
  <2> QED
    BY <2>1, <2>2, CallLeaves
<1>6. ASSUME NEW m \in Materials, RecycleStart(u, m) \/ PurgeStart(u, m)
      PROVE  \A n \in Materials : UserDoes(n)
  <2>1. \A n \in Materials : Retrying(n)' = Retrying(n)
    BY <1>2, <1>4, <1>6 DEF RecycleStart, PurgeStart, Idle
  <2>2. CancelForLifecycle(m) /\ rows' = rows /\ requeues' = requeues
    BY <1>6 DEF RecycleStart, PurgeStart
  <2> QED
    BY <2>1, <2>2, CallLeaves, CanceledForLifecycle
<1>7. CASE RemoveFile(u) \/ RecycleFile(u) \/ PurgeFiles(u)
  <2>1. PICK m \in Materials : m = client[u].m
    BY <1>7, ClientBusy DEF RemoveFile, RecycleFile, PurgeFiles
  <2>2. \A n \in Materials : Retrying(n)' = Retrying(n)
    BY <1>2, <1>3, <1>4, <1>7, <2>1 DEF RemoveFile, RecycleFile, PurgeFiles
  <2> QED
    BY <1>7, <2>2, CallLeaves DEF RemoveFile, RecycleFile, PurgeFiles
<1>8. CASE DeleteRecord(u) \/ RecycleEnd(u)
  <2>1. \A n \in Materials : Retrying(n)' = Retrying(n)
    BY <1>3, <1>8 DEF DeleteRecord, RecycleEnd
  <2> QED
    BY <1>8, <2>1, CallLeaves DEF DeleteRecord, RecycleEnd
<1>9. CASE Enqueue(u)
  <2>1. PICK m \in Materials : m = client[u].m
    BY <1>9, ClientBusy DEF Enqueue
  <2>2. \A n \in Materials : Retrying(n)' = Retrying(n)
    BY <1>3, <1>9 DEF Enqueue
  <2>3. CASE State(m) \in Active
    BY <1>9, <2>1, <2>2, <2>3, CallLeaves DEF Enqueue
  <2>4. CASE State(m) \notin Active
    <3>1. PICK h \in Contents : h = client[u].hash
      BY <1>9, ClientBusy DEF Enqueue
    <3>2. PICK j \in JobRecords : j = Queued(h, FALSE, 0)
      BY QueuedJob
    <3>3. j.state = "queued" /\ j.current
      BY <3>2, QueuedJob
    <3>4. job' = [job EXCEPT ![m] = j]
      BY <1>9, <2>1, <2>4, <3>1, <3>2 DEF Enqueue
    <3>5. State(m) \in JobStates
      BY Tables DEF JobRecords, JobStates, State
    <3>6. State(m) = "none"
      BY <1>9, <2>1, <2>4, <3>5 DEF Enqueue, JobStates, Files, ClientHolds
    <3>7. job'[m].state = "queued" /\ job'[m].current /\ \A n \in Materials \ {m} : job'[n] = job[n]
      BY <3>3, <3>4, JobWritten
    <3> QED
      BY <1>9, <2>2, <3>6, <3>7, CallLeaves DEF Enqueue
  <2> QED
    BY <2>3, <2>4
<1>10. ASSUME NEW m \in Materials, RetryRead(u, m)
      PROVE  \A n \in Materials : UserDoes(n)
  <2>1. PICK h \in Contents : h = source[m]
    BY Tables
  <2>2. /\ client'[u].pc = "retry" /\ client'[u].m = m
        /\ \A w \in Clients \ {u} : client'[w] = client[w]
        /\ client[u].pc = "idle"
    BY <1>10, <2>1, ClientGoesOn DEF RetryRead, Idle
  <2>3. Retrying(m)' = Retrying(m) \union {u}
    <3>1. ASSUME NEW w \in Clients
          PROVE  w \in Retrying(m)' <=> w \in Retrying(m) \union {u}
      <4>1. CASE w = u
        BY <2>2, <4>1 DEF Retrying
      <4>2. CASE w # u
        BY <2>2, <4>2 DEF Retrying
      <4> QED
        BY <4>1, <4>2
    <3> QED
      BY <3>1 DEF Retrying
  <2>4. ASSUME NEW n \in Materials \ {m}
        PROVE  Retrying(n)' \subseteq Retrying(n)
    <3>1. ASSUME NEW w \in Retrying(n)'
          PROVE  w \in Retrying(n)
      <4>1. CASE w = u
        BY <2>2, <3>1, <4>1 DEF Retrying
      <4>2. CASE w # u
        BY <2>2, <3>1, <4>2 DEF Retrying
      <4> QED
        BY <4>1, <4>2
    <3> QED
      BY <3>1
  <2>5. job' = job /\ rows' = rows /\ requeues' = requeues + 1
    BY <1>10 DEF RetryRead
  <2>6. UserDoes(m)
    BY <2>3, <2>5 DEF UserDoes, AsksRetry
  <2>7. \A n \in Materials \ {m} : UserDoes(n)
    BY <2>4, <2>5 DEF UserDoes, LeavesAlone
  <2> QED
    BY <2>6, <2>7
<1>11. CASE RetryWrite(u)
  <2>1. PICK m \in Materials : m = client[u].m
    BY <1>11, ClientBusy DEF RetryWrite
  <2>2. PICK h \in Contents : h = client[u].hash
    BY <1>11, ClientBusy DEF RetryWrite
  <2>3. PICK j \in JobRecords :
          j = IF job[m].state \in Active \union {"none"} THEN job[m] ELSE Queued(h, FALSE, 10)
    BY QueuedJob, Tables
  <2>4. j = job[m] \/ (State(m) \notin Active /\ j.state = "queued" /\ j.current)
    BY <2>2, <2>3, QueuedJob DEF State
  <2>5. job' = [job EXCEPT ![m] = j]
    BY <1>11, <2>1, <2>2, <2>3, Tables DEF RetryWrite
  <2>6. job'[m] = j /\ \A n \in Materials \ {m} : job'[n] = job[n]
    BY <2>5, JobWritten
  <2>7. /\ client'[u].pc = "idle" /\ client[u].pc = "retry"
        /\ \A w \in Clients \ {u} : client'[w] = client[w]
        /\ rows' = rows /\ requeues' = requeues
    BY <1>11, ClientEnds DEF RetryWrite
  <2>8. ASSUME NEW n \in Materials
        PROVE  Retrying(n)' = Retrying(n) \ {u}
    <3>1. ASSUME NEW w \in Clients
          PROVE  w \in Retrying(n)' <=> w \in Retrying(n) \ {u}
      <4>1. CASE w = u
        BY <2>7, <4>1 DEF Retrying
      <4>2. CASE w # u
        BY <2>7, <4>2 DEF Retrying
      <4> QED
        BY <4>1, <4>2
    <3> QED
      BY <3>1 DEF Retrying
  <2>9. u \in Retrying(m)
    BY <2>1, <2>7 DEF Retrying
  <2>10. UserDoes(m)
    <3>1. CASE j = job[m]
      BY <2>6, <2>7, <2>8, <3>1 DEF UserDoes, LeavesAlone
    <3>2. CASE State(m) \notin Active /\ j.state = "queued" /\ j.current
      BY <2>6, <2>7, <2>8, <2>9, <3>2 DEF UserDoes, Queues
    <3> QED
      BY <2>4, <3>1, <3>2
  <2>11. \A n \in Materials \ {m} : UserDoes(n)
    BY <2>6, <2>7, <2>8 DEF UserDoes, LeavesAlone
  <2> QED
    BY <2>10, <2>11
<1>12. CASE RemoveRows(u)
  <2>1. PICK m \in Materials : m = client[u].m
    BY <1>12, ClientBusy DEF RemoveRows
  <2>2. \A n \in Materials : Retrying(n)' = Retrying(n)
    BY <1>2, <1>4, <1>12, <2>1 DEF RemoveRows
  <2>3. job'[m] = NoJob /\ \A n \in Materials \ {m} : job'[n] = job[n]
    BY <1>12, <2>1, Tables DEF RemoveRows
  <2>4. PICK f : f = [v \in Versions |-> NoRow]
    OBVIOUS
  <2>5. rows' = [rows EXCEPT ![m] = f]
    BY <1>12, <2>1, <2>4 DEF RemoveRows
  <2>6. rows'[m] = f /\ \A n \in Materials \ {m} : rows'[n] = rows[n]
    BY <2>5, Tables
  <2>7. \A v \in Versions : f[v].state = "none"
    BY <2>4, FirstRecords
  <2>8. requeues' = requeues
    BY <1>12 DEF RemoveRows
  <2>9. UserDoes(m)
    BY <2>2, <2>3, <2>6, <2>7, <2>8, FirstRecords DEF UserDoes, Removes
  <2>10. \A n \in Materials \ {m} : UserDoes(n)
    BY <2>2, <2>3, <2>6, <2>8 DEF UserDoes, LeavesAlone
  <2> QED
    BY <2>9, <2>10
<1> QED
  BY <1>5, <1>6, <1>7, <1>8, <1>9, <1>10, <1>11, <1>12 DEF Call

\* The calls of one step, edits, and no step.
LEMMA QuickDoes ==
    ASSUME Types, Files,
           (\E m \in Materials : QuickCall(m) \/ Edit(m)) \/ UNCHANGED vars
    PROVE  /\ UNCHANGED <<files, server>> /\ WorkerKeeps
           /\ \A n \in Materials : UserDoes(n)
<1> USE DEF matVars, dbVars, vars
<1>1. UNCHANGED <<files, server, client>> /\ WorkerKeeps
  <2>1. ASSUME NEW m \in Materials, Edit(m)
        PROVE  UNCHANGED <<files, server, client>> /\ WorkerKeeps
    BY <2>1, EditDoes
  <2>2. ASSUME (\E m \in Materials : QuickCall(m)) \/ UNCHANGED vars
        PROVE  UNCHANGED <<files, server, client>> /\ WorkerKeeps
    BY <2>2 DEF QuickCall, Repair, Resume, Cancel, Unrecycle, WorkerKeeps
  <2> QED
    BY <2>1, <2>2
<1>2. \A n \in Materials : Retrying(n)' = Retrying(n)
  BY <1>1 DEF Retrying
<1> SUFFICES \A n \in Materials : UserDoes(n)
  BY <1>1
<1>3. ASSUME NEW m \in Materials, Repair(m)
      PROVE  \A n \in Materials : UserDoes(n)
  <2>1. PICK h \in Contents : h = source[m]
    BY Tables
  <2>2. PICK j \in JobRecords : j = Queued(h, FALSE, 0)
    BY QueuedJob
  <2>3. j.state = "queued" /\ j.current
    BY <2>2, QueuedJob
  <2>4. job' = [job EXCEPT ![m] = j] /\ UNCHANGED <<rows, requeues>> /\ State(m) = "none"
    BY <1>3, <2>1, <2>2 DEF Repair
  <2>5. job'[m] = j /\ \A n \in Materials \ {m} : job'[n] = job[n]
    BY <2>4, JobWritten
  <2> QED
    BY <1>2, <2>3, <2>4, <2>5, CallLeaves
<1>4. ASSUME NEW m \in Materials, Resume(m)
      PROVE  \A n \in Materials : UserDoes(n)
  <2>1. PICK q \in JobRecords : q = job[m]
    BY Tables
  <2>2. q.hash \in Contents /\ q.priority \in {0, 10}
    BY DEF JobRecords, Contents
  <2>3. PICK j \in JobRecords : j = Queued(q.hash, TRUE, q.priority)
    BY <2>2, QueuedJob
  <2>4. j.state = "queued" /\ j.current
    BY <2>2, <2>3, QueuedJob
  <2>5. /\ job' = [job EXCEPT ![m] = j]
        /\ rows' = rows /\ requeues' = requeues + 1 /\ State(m) = "paused"
    BY <1>4, <2>1, <2>3, Tables DEF Resume
  <2>6. job'[m] = j /\ \A n \in Materials \ {m} : job'[n] = job[n]
    BY <2>5, JobWritten
  <2>7. UserDoes(m)
    BY <1>2, <2>4, <2>5, <2>6 DEF UserDoes, Queues
  <2>8. \A n \in Materials \ {m} : UserDoes(n)
    BY <1>2, <2>5, <2>6 DEF UserDoes, LeavesAlone
  <2> QED
    BY <2>7, <2>8
<1>5. ASSUME NEW m \in Materials, Cancel(m)
      PROVE  \A n \in Materials : UserDoes(n)
  <2>1. /\ job'[m].state = "canceled"
        /\ \A n \in Materials \ {m} : job'[n] = job[n]
        /\ UNCHANGED <<rows, requeues>>
    BY <1>5, StateWritten DEF Cancel, JobStates, Settled
  <2> QED
    BY <1>2, <2>1, CallLeaves
<1>6. ASSUME NEW m \in Materials, Unrecycle(m) \/ Edit(m)
      PROVE  \A n \in Materials : UserDoes(n)
  <2>1. UNCHANGED <<job, rows, requeues>>
    BY <1>6 DEF Unrecycle, Edit
  <2> QED
    BY <1>2, <2>1, CallLeaves
<1>7. ASSUME UNCHANGED vars
      PROVE  \A n \in Materials : UserDoes(n)
  BY <1>2, <1>7 DEF UserDoes, LeavesAlone
<1> QED
  BY <1>3, <1>4, <1>5, <1>6, <1>7 DEF QuickCall

\* A step of a user, or none.  Jobs are written only while the server is up.
UserStep ==
    /\ UNCHANGED <<files, server>>
    /\ WorkerKeeps
    /\ \A n \in Materials : UserDoes(n)
    /\ server # "up" => job' = job

\* Every step is the worker's, the process's or a user's.
LEMMA StepKinds ==
    ASSUME Types, Files, [Next]_vars
    PROVE  WorkerStep \/ Recovery \/ Crash \/ UserStep
<1>1. ASSUME (\E m \in Materials : Edit(m)) \/ UNCHANGED vars
      PROVE  job' = job
  BY <1>1 DEF Edit, vars, dbVars
<1> QED
  BY <1>1, CallDoes, QuickDoes DEF Next, UserStep, WorkerKeeps

----------------------------------------------------------------------------
(* Whose work is under way is kept.                                        *)

\* What a step may do to a material without making somebody's work of it.
AskedStep(m) ==
    /\ \/ job'[m].state = State(m) /\ job'[m].current = job[m].current
       \/ job'[m].state \notin Active
       \/ job'[m].state = "queued" /\ job'[m].current
    /\ job'[m].state = "processing" /\ worker.pc # "idle" /\ worker.m = m =>
          worker'.pc # "idle" /\ worker'.m = m

\* Such steps keep the layer while the server stays as it is.
LEMMA AskedKept ==
    ASSUME Types, Asked, server' = server, server # "recovering",
           \A m \in Materials : AskedStep(m)
    PROVE  Asked'
<1>1. ASSUME NEW m \in Materials
      PROVE  AskedFor(m)'
  BY <1>1 DEF Asked, AskedFor, AskedStep, State, Active
<1> QED
  BY <1>1 DEF Asked

\* The worker's steps.
LEMMA AskedWorker == ASSUME Types, Files, Asked, WorkerStep PROVE Asked'
<1> USE DEF matVars, dbVars
<1>1. ASSUME NEW m \in Materials, Claim(m)
      PROVE  Asked'
  <2>1. /\ server = "up" /\ server' = server /\ worker.pc = "idle" /\ State(m) = "queued"
        /\ worker'.pc = "extract" /\ worker'.m = m
        /\ job'[m].state = "processing" /\ job'[m].current = job[m].current
        /\ \A n \in Materials \ {m} : job'[n] = job[n]
    BY <1>1, ClaimDoes
  <2>2. AskedFor(m)'
    BY <2>1 DEF Asked, AskedFor, State, Active
  <2>3. ASSUME NEW n \in Materials \ {m}
        PROVE  AskedFor(n)'
    BY <2>1 DEF Asked, AskedFor, State, Active
  <2> QED
    BY <2>2, <2>3 DEF Asked
<1>2. ASSUME UNCHANGED <<job, server>>, server = "up",
             \/ worker'.pc # "idle" /\ worker'.m = worker.m
             \/ worker'.pc = "idle" /\ State(worker.m) # "processing"
      PROVE  Asked'
  <2>1. ASSUME NEW m \in Materials
        PROVE  AskedStep(m)
    BY <1>2 DEF AskedStep, State
  <2> QED
    BY <1>2, <2>1, AskedKept
<1>3. CASE Extract
  BY <1>2, <1>3, ExtractDoes, WorkerBusy
<1>4. CASE CheckHeld
  BY <1>2, <1>4, CheckHeldDoes, WorkerBusy DEF WorkerAt
<1>5. CASE Fence
  BY <1>2, <1>5, FenceDoes, WorkerBusy
<1>6. CASE Begin
  BY <1>2, <1>6, BeginDoes, WorkerBusy
<1>7. CASE WriteFile
  BY <1>2, <1>7, WriteFileDoes, WorkerBusy DEF WorkerAt
<1>8. CASE Commit
  BY <1>2, <1>8, CommitDoes, WorkerBusy DEF WorkerAt
<1>9. CASE Discard
  BY <1>2, <1>9, DiscardDoes, WorkerBusy
<1>10. CASE Derive
  BY <1>2, <1>10, DeriveDoes, WorkerBusy
<1>11. CASE Finish
  <2>1. /\ job'[worker.m].state # "processing"
        /\ job'[worker.m].state = State(worker.m) \/ job'[worker.m].state \notin Active
        /\ job'[worker.m].current = job[worker.m].current
        /\ \A n \in Materials \ {worker.m} : job'[n] = job[n]
        /\ server' = server /\ server = "up"
    BY <1>11, FinishDoes, WorkerBusy DEF Active
  <2>2. ASSUME NEW m \in Materials
        PROVE  AskedStep(m)
    <3>1. CASE m = worker.m
      BY <2>1, <3>1 DEF AskedStep
    <3>2. CASE m # worker.m
      BY <2>1, <3>2 DEF AskedStep, State
    <3> QED
      BY <3>1, <3>2
  <2> QED
    BY <2>1, <2>2, AskedKept
<1> QED
  BY <1>1, <1>3, <1>4, <1>5, <1>6, <1>7, <1>8, <1>9, <1>10, <1>11 DEF WorkerStep

\* The process and the users.
LEMMA AskedOthers ==
    ASSUME Types, Files, Asked, Recovery \/ Crash \/ UserStep
    PROVE  Asked'
<1> USE DEF matVars, dbVars
<1>1. CASE Boot
  <2>1. ASSUME NEW m \in Materials
        PROVE  job'[m].state \notin Active
    <3>1. PICK j \in JobRecords : j = job[m]
      BY Tables
    <3>2. job'[m] = Paused(j)
      BY <1>1, <3>1 DEF Boot
    <3> QED
      BY <3>2, PausedJob DEF Active
  <2> QED
    BY <1>1, <2>1 DEF Boot, Asked, AskedFor, State
<1>2. CASE Recovered
  BY <1>2 DEF Recovered, Asked, AskedFor, State, Active
<1>3. ASSUME NEW m \in Materials, NEW v \in Versions, RollBack(m, v)
      PROVE  Asked'
  BY <1>3 DEF RollBack, Asked, AskedFor, State
<1>4. CASE Crash
  BY <1>4 DEF Crash, Asked, AskedFor
<1>5. CASE UserStep
  <2>1. CASE server = "up"
    <3>1. ASSUME NEW m \in Materials
          PROVE  AskedStep(m)
      BY <1>5 DEF UserStep, UserDoes, LeavesAlone, Stops, AsksRetry, Queues, Removes, AskedStep,
                  State, Active, WorkerKeeps
    <3>2. server' = server
      BY <1>5 DEF UserStep
    <3> QED
      BY <2>1, <3>1, <3>2, AskedKept
  <2>2. CASE server # "up"
    BY <1>5, <2>2 DEF UserStep, Asked, AskedFor, State
  <2> QED
    BY <2>1, <2>2
<1> QED
  BY <1>1, <1>2, <1>3, <1>4, <1>5 DEF Recovery

\* Every step keeps the layer.
LEMMA AskedNext == ASSUME Types, Files, Asked, [Next]_vars PROVE Asked'
BY StepKinds, AskedWorker, AskedOthers

----------------------------------------------------------------------------
(* The count of versions is kept.                                          *)

\* What is counted is made of numbers.
LEMMA Numbers ==
    ASSUME Types, NEW m \in Materials
    PROVE  /\ requeues \in Nat
           /\ Pending(m) \in {0, 1}
           /\ \A v \in {0} \union Used(m) : v \in Nat
           /\ IsFiniteSet(Retrying(m)) => Cardinality(Retrying(m)) \in Nat
BY VersionNumbers, FS_CardinalityType DEF Types, Pending, Used, Versions

\* A step after which no more is used or owed than was allowed before.
LEMMA CountedWeighed ==
    ASSUME Types, Types', NEW m \in Materials, Counted(m), IsFiniteSet(Retrying(m))',
           NEW c, c = Cardinality(Retrying(m)), NEW d, d = Cardinality(Retrying(m))',
           Pending(m)' + d + requeues <= Pending(m) + c + requeues',
           d + requeues <= c + requeues',
           Used(m)' \subseteq Used(m),
           State(m)' = "none" => State(m) = "none" \/ Used(m)' = {}
    PROVE  Counted(m)'
<1>1. c \in Nat /\ d \in Nat /\ requeues \in Nat /\ requeues' \in Nat
  <2>1. c \in Nat /\ d \in Nat
    BY FS_CardinalityType DEF Counted
  <2> QED
    BY <2>1, VersionNumbers DEF Types
<1>2. PICK p \in {0, 1}, q \in {0, 1} : p = Pending(m) /\ q = Pending(m)'
  BY DEF Pending
<1>3. c <= requeues /\ \A v \in {0} \union Used(m) : v + p + c <= 1 + requeues
  BY <1>2 DEF Counted
<1>4. q + d + requeues <= p + c + requeues'
  BY <1>2
<1>5. d <= requeues'
  BY <1>1, <1>3
<1>6. ASSUME NEW v \in {0} \union Used(m)'
      PROVE  v + q + d <= 1 + requeues'
  <2>1. v \in Nat /\ v + p + c <= 1 + requeues
    BY <1>3, <1>6, Numbers
  <2> QED
    BY <1>1, <1>2, <1>4, <2>1
<1>7. State(m)' = "none" => Used(m)' = {}
  BY DEF Counted
<1> QED
  BY <1>2, <1>5, <1>6, <1>7 DEF Counted

\* A step that uses, owes and counts nothing new.
LEMMA CountedKept ==
    ASSUME Types, Types', NEW m \in Materials, Counted(m),
           Retrying(m)' \subseteq Retrying(m),
           requeues' \in {requeues, requeues + 1},
           Owed(m)' => Owed(m),
           Used(m)' \subseteq Used(m),
           State(m)' = "none" => State(m) = "none" \/ Used(m)' = {}
    PROVE  Counted(m)'
<1>1. PICK R, S : R = Retrying(m) /\ S = Retrying(m)'
  OBVIOUS
<1>2. IsFiniteSet(S) /\ Cardinality(S) <= Cardinality(R)
  BY <1>1, FS_Subset DEF Counted
<1>3. Cardinality(R) \in Nat /\ Cardinality(S) \in Nat
  BY <1>1, <1>2, FS_CardinalityType DEF Counted
<1>4. PICK p \in {0, 1}, q \in {0, 1} : p = Pending(m) /\ q = Pending(m)' /\ q <= p
  BY DEF Pending
<1>5. requeues \in Nat /\ requeues' \in Nat /\ requeues <= requeues'
  BY VersionNumbers DEF Types
<1>6. /\ q + Cardinality(S) + requeues <= p + Cardinality(R) + requeues'
      /\ Cardinality(S) + requeues <= Cardinality(R) + requeues'
  BY <1>2, <1>3, <1>4, <1>5
<1> QED
  BY <1>1, <1>2, <1>4, <1>6, CountedWeighed

\* A user's step.
LEMMA CountsUser == ASSUME Types, Types', Counts, UserStep PROVE Counts'
<1>1. SUFFICES ASSUME NEW m \in Materials
               PROVE  Counted(m)'
  BY DEF Counts
<1>2. PICK R, S : R = Retrying(m) /\ S = Retrying(m)'
  OBVIOUS
<1>3. IsFiniteSet(R) /\ Cardinality(R) \in Nat /\ Cardinality(R) <= requeues /\ Counted(m)
  BY <1>2, FS_CardinalityType DEF Counts, Counted
<1>4. requeues \in Nat
  BY VersionNumbers DEF Types
<1>5. worker'.pc = worker.pc /\ worker'.m = worker.m /\ UserDoes(m)
  BY DEF UserStep, WorkerKeeps
<1>6. CASE LeavesAlone(m)
  BY <1>3, <1>5, <1>6, CountedKept DEF LeavesAlone, Owed, Used, State
<1>7. CASE Stops(m)
  BY <1>3, <1>5, <1>7, CountedKept DEF Stops, Owed, Used, State
<1>8. CASE Removes(m)
  BY <1>3, <1>5, <1>8, CountedKept DEF Removes, Owed, Used, State
<1>9. CASE AsksRetry(m)
  <2>1. PICK u \in Clients : S = R \union {u}
    BY <1>2, <1>9 DEF AsksRetry
  <2>2. IsFiniteSet(S) /\ Cardinality(S) \in Nat /\ Cardinality(S) <= Cardinality(R) + 1
    <3>1. /\ IsFiniteSet(S)
          /\ Cardinality(S) = IF u \in R THEN Cardinality(R) ELSE Cardinality(R) + 1
      BY <1>3, <2>1, FS_AddElement
    <3> QED
      BY <1>3, <3>1
  <2>3. PICK p \in {0, 1} : p = Pending(m) /\ p = Pending(m)'
    BY <1>5, <1>9 DEF AsksRetry, Pending, Owed, State
  <2>4. requeues' = requeues + 1 /\ UNCHANGED <<State(m), Used(m)>>
    BY <1>9 DEF AsksRetry, State, Used
  <2>5. /\ p + Cardinality(S) + requeues <= p + Cardinality(R) + requeues'
        /\ Cardinality(S) + requeues <= Cardinality(R) + requeues'
    BY <1>3, <1>4, <2>2, <2>4
  <2> QED
    BY <1>2, <1>3, <2>2, <2>3, <2>4, <2>5, CountedWeighed
<1>10. CASE Queues(m)
  <2>1. /\ State(m)' = "queued" /\ Used(m)' = Used(m)
        /\ Pending(m)' = 1
    BY <1>10 DEF Queues, State, Used, Pending, Owed
  <2>2. CASE State(m) = "none" /\ Retrying(m)' = Retrying(m) /\ requeues' = requeues
    <3>1. Used(m) = {}
      BY <1>3, <2>2 DEF Counted
    <3>2. \A v \in {0} \union Used(m)' : v + 1 + Cardinality(R) <= 1 + requeues
      BY <1>3, <1>4, <2>1, <3>1
    <3> QED
      BY <1>2, <1>3, <2>1, <2>2, <3>2 DEF Counted
  <2>3. CASE State(m) = "paused" /\ Retrying(m)' = Retrying(m) /\ requeues' = requeues + 1
    <3>1. Pending(m) = 0
      BY <2>3 DEF Pending, Owed
    <3>2. /\ 1 + Cardinality(R) + requeues <= 0 + Cardinality(R) + requeues'
          /\ Cardinality(R) + requeues <= Cardinality(R) + requeues'
      BY <1>3, <1>4, <2>3
    <3> QED
      BY <1>2, <1>3, <2>1, <2>3, <3>1, <3>2, CountedWeighed
  <2>4. CASE /\ State(m) \notin Active
             /\ \E u \in Retrying(m) : Retrying(m)' = Retrying(m) \ {u}
             /\ requeues' = requeues
    <3>1. PICK u \in R : S = R \ {u}
      BY <1>2, <2>4
    <3>2. IsFiniteSet(S) /\ Cardinality(S) = Cardinality(R) - 1
      BY <1>3, <3>1, FS_RemoveElement
    <3>3. Pending(m) = 0
      BY <2>4 DEF Pending, Owed, Active
    <3>4. /\ 1 + Cardinality(S) + requeues <= 0 + Cardinality(R) + requeues'
          /\ Cardinality(S) + requeues <= Cardinality(R) + requeues'
      BY <1>3, <1>4, <2>4, <3>2
    <3> QED
      BY <1>2, <1>3, <2>1, <3>2, <3>3, <3>4, CountedWeighed
  <2> QED
    BY <1>10, <2>2, <2>3, <2>4 DEF Queues
<1> QED
  BY <1>5, <1>6, <1>7, <1>8, <1>9, <1>10 DEF UserDoes

\* The worker's steps.
LEMMA CountsWorker ==
    ASSUME Types, Types', Files, AtVersion, Counts, WorkerStep
    PROVE  Counts'
<1> USE DEF matVars, dbVars
<1>1. ASSUME UNCHANGED <<client, requeues>>,
             NEW m \in Materials,
             Owed(m)' => Owed(m),
             Used(m)' \subseteq Used(m),
             State(m)' = "none" => State(m) = "none"
      PROVE  Counted(m)'
  <2>1. Retrying(m)' = Retrying(m) /\ requeues' = requeues
    BY <1>1 DEF Retrying
  <2> QED
    BY <1>1, <2>1, CountedKept DEF Counts
<1>2. ASSUME UNCHANGED <<client, requeues, rows, job>>,
             worker'.pc \in Before => worker'.m = worker.m /\ worker.pc \in Before
      PROVE  Counts'
  <2>1. ASSUME NEW m \in Materials
        PROVE  /\ Owed(m)' => Owed(m)
               /\ Used(m)' = Used(m)
               /\ State(m)' = State(m)
    BY <1>2 DEF Owed, Used, State
  <2> QED
    BY <1>1, <1>2, <2>1 DEF Counts
<1>3. ASSUME NEW m \in Materials, Claim(m)
      PROVE  Counts'
  <2>1. /\ State(m) = "queued" /\ worker'.m = m /\ job'[m].state = "processing"
        /\ \A n \in Materials \ {m} : job'[n] = job[n]
        /\ UNCHANGED <<rows, client, requeues>>
    BY <1>3, ClaimDoes
  <2>2. ASSUME NEW n \in Materials
        PROVE  /\ Owed(n)' => Owed(n)
               /\ Used(n)' = Used(n)
               /\ State(n)' = "none" => State(n) = "none"
    <3>1. CASE n = m
      BY <2>1, <3>1 DEF Owed, Used, State
    <3>2. CASE n # m
      BY <2>1, <3>2 DEF Owed, Used, State
    <3> QED
      BY <3>1, <3>2
  <2> QED
    BY <1>1, <2>1, <2>2 DEF Counts
<1>4. CASE Extract
  BY <1>2, <1>4, ExtractDoes DEF Before
<1>5. CASE CheckHeld
  BY <1>2, <1>5, CheckHeldDoes DEF Before, WorkerAt
<1>6. CASE Fence
  BY <1>2, <1>6, FenceDoes DEF Before
<1>7. CASE Begin
  <2>1. PICK m \in Materials : m = worker.m
    BY <1>7, WorkerBusy DEF Begin
  <2>2. PICK h \in Contents, b \in BOOLEAN, r \in BOOLEAN, n \in Nat :
          h = worker.hash /\ b = worker.fenced /\ r = worker.restored /\ n = NextVersion(m)
    BY NextVersionNew DEF Types, WorkerRecords
  <2>3. CASE State(m) = "processing"
    <3>1. PICK f \in [Versions -> RowRecords] : f = Begun(m, h, b, r)
      BY BegunRows
    <3>2. /\ rows' = [rows EXCEPT ![m] = f] /\ UNCHANGED <<job, client, requeues>>
          /\ worker.pc = "begin" /\ worker'.pc \in {"write", "commit"}
      BY <1>7, <2>1, <2>2, <2>3, <3>1, BeginDoes
    <3>3. rows'[m] = f /\ \A w \in Materials \ {m} : rows'[w] = rows[w]
      BY <3>2, Tables
    <3>4. \A w \in Versions \ {n} : f[w] = rows[m][w] \/ f[w].state = "none"
      BY <2>2, <3>1, BegunRows, FirstRecords DEF GaveWay
    <3>5. Used(m)' \subseteq Used(m) \union {n}
      BY <3>3, <3>4 DEF Used
    <3>6. PICK R : R = Retrying(m) /\ R = Retrying(m)'
      BY <3>2 DEF Retrying
    <3>7. Pending(m) = 1 /\ Pending(m)' = 0
      BY <2>1, <2>3, <3>2 DEF Pending, Owed, Before, State
    <3>8. /\ IsFiniteSet(R) /\ Cardinality(R) \in Nat /\ Cardinality(R) <= requeues
          /\ \A v \in {0} \union Used(m) : v + 1 + Cardinality(R) <= 1 + requeues
      BY <3>6, <3>7, FS_CardinalityType DEF Counts, Counted
    <3>9. n + 0 + Cardinality(R) <= 1 + requeues
      <4>1. PICK v \in {0} \union Used(m) : n = v + 1
        BY <2>2, NextVersionNew
      <4>2. v \in Nat /\ requeues \in Nat
        BY Numbers
      <4> QED
        BY <3>8, <4>1, <4>2
    <3>10. ASSUME NEW v \in {0} \union Used(m)'
           PROVE  v + 0 + Cardinality(R) <= 1 + requeues
      <4>1. CASE v = n
        BY <3>9, <4>1
      <4>2. CASE v # n
        <5>1. v \in {0} \union Used(m)
          BY <3>5, <3>10, <4>2
        <5>2. v \in Nat /\ requeues \in Nat
          BY <5>1, Numbers
        <5> QED
          BY <3>8, <5>1, <5>2
      <4> QED
        BY <4>1, <4>2
    <3>11. Counted(m)'
      BY <2>3, <3>2, <3>6, <3>7, <3>8, <3>10 DEF Counted, State
    <3>12. ASSUME NEW w \in Materials \ {m}
           PROVE  Counted(w)'
      <4>1. /\ Owed(w)' => Owed(w)
            /\ Used(w)' = Used(w)
            /\ State(w)' = State(w)
        BY <3>2, <3>3 DEF Owed, Used, State, Before
      <4> QED
        BY <1>1, <3>2, <4>1
    <3> QED
      BY <3>11, <3>12 DEF Counts
  <2>4. CASE State(m) # "processing"
    BY <1>2, <1>7, <2>1, <2>4, BeginDoes DEF Before
  <2> QED
    BY <2>3, <2>4
<1>8. CASE WriteFile
  BY <1>2, <1>8, WriteFileDoes DEF Before, WorkerAt
<1>9. ASSUME UNCHANGED <<client, requeues, job>>, worker'.pc \notin Before,
             \A n \in Materials, w \in Versions :
               rows[n][w].state = "none" => rows'[n][w].state = "none"
      PROVE  Counts'
  <2>1. ASSUME NEW n \in Materials
        PROVE  /\ Owed(n)' => Owed(n)
               /\ Used(n)' \subseteq Used(n)
               /\ State(n)' = State(n)
    BY <1>9 DEF Owed, Used, State
  <2> QED
    BY <1>1, <1>9, <2>1 DEF Counts
<1>10. CASE Commit
  <2>1. PICK m \in Materials : m = worker.m
    BY <1>10, WorkerBusy DEF Commit
  <2>2. PICK v \in Versions : v = worker.version
    BY <1>10 DEF Commit, AtVersion, AtRow
  <2>3. PICK t \in Contents : t = worker.text
    BY DEF Types, WorkerRecords
  <2>4. CASE rows[m][v].state = "preparing" /\ rows' = [rows EXCEPT ![m] = Committed(m, v, t)]
    <3>1. PICK f \in [Versions -> RowRecords] : f = Committed(m, v, t)
      BY CommittedRows
    <3>2. rows'[m] = f /\ \A n \in Materials \ {m} : rows'[n] = rows[n]
      BY <2>4, <3>1, Tables
    <3>3. \A w \in Versions \ {v} : f[w].state = rows[m][w].state
      BY <3>1, CommittedRows
    <3>4. \A w \in Versions : rows[m][w].state = "none" => f[w].state = "none"
      BY <2>4, <3>3
    <3>5. ASSUME NEW n \in Materials, NEW w \in Versions, rows[n][w].state = "none"
          PROVE  rows'[n][w].state = "none"
      BY <3>2, <3>4, <3>5
    <3> QED
      BY <1>9, <1>10, <3>5, CommitDoes DEF Before, WorkerAt
  <2>5. CASE rows' = rows
    BY <1>9, <1>10, <2>5, CommitDoes DEF Before, WorkerAt
  <2> QED
    BY <1>10, <2>1, <2>2, <2>3, <2>4, <2>5, CommitDoes
<1>11. CASE Discard
  BY <1>9, <1>11, DiscardDoes DEF Before
<1>12. CASE Derive
  BY <1>2, <1>12, DeriveDoes DEF Before
<1>13. CASE Finish
  <2>1. PICK m \in Materials : m = worker.m
    BY <1>13, WorkerBusy DEF Finish
  <2>2. /\ worker'.pc = "idle" /\ UNCHANGED <<rows, client, requeues>>
        /\ job'[m].state \in {"draft_ready", "failed", State(m)}
        /\ State(m) = "processing" => job'[m].state \in {"draft_ready", "failed"}
        /\ \A n \in Materials \ {m} : job'[n] = job[n]
    BY <1>13, <2>1, FinishDoes
  <2>3. ASSUME NEW n \in Materials
        PROVE  /\ Owed(n)' => Owed(n)
               /\ Used(n)' = Used(n)
               /\ State(n)' = "none" => State(n) = "none"
    <3>1. CASE n = m
      BY <2>2, <3>1 DEF Owed, Used, State, Before
    <3>2. CASE n # m
      BY <2>2, <3>2 DEF Owed, Used, State, Before
    <3> QED
      BY <3>1, <3>2
  <2> QED
    BY <1>1, <2>2, <2>3 DEF Counts
<1> QED
  BY <1>3, <1>4, <1>5, <1>6, <1>7, <1>8, <1>10, <1>11, <1>12, <1>13 DEF WorkerStep

\* The process.
LEMMA CountsProcess ==
    ASSUME Types, Types', Files, Counts, Recovery \/ Crash
    PROVE  Counts'
<1> USE DEF matVars, dbVars
<1>1. ASSUME NEW m \in Materials, requeues' = requeues,
             Retrying(m)' \subseteq Retrying(m),
             Owed(m)' => Owed(m),
             Used(m)' \subseteq Used(m),
             State(m)' = "none" => State(m) = "none"
      PROVE  Counted(m)'
  BY <1>1, CountedKept DEF Counts
<1>2. CASE Boot
  <2>1. ASSUME NEW m \in Materials
        PROVE  job'[m].state \notin Active /\ (job'[m].state = "none" => State(m) = "none")
    <3>1. PICK j \in JobRecords : j = job[m]
      BY Tables
    <3>2. job'[m] = Paused(j)
      BY <1>2, <3>1 DEF Boot
    <3> QED
      BY <3>1, <3>2, PausedJob DEF Active, State
  <2>2. ASSUME NEW m \in Materials
        PROVE  /\ Owed(m)' => Owed(m)
               /\ Used(m)' = Used(m)
               /\ State(m)' = "none" => State(m) = "none"
               /\ Retrying(m)' = Retrying(m)
    BY <1>2, <2>1 DEF Boot, Owed, Used, State, Active, Retrying
  <2> QED
    BY <1>1, <1>2, <2>2 DEF Boot, Counts
<1>3. CASE Recovered
  BY <1>1, <1>3 DEF Recovered, Counts, Retrying, Owed, Used, State
<1>4. ASSUME NEW m \in Materials, NEW v \in Versions, RollBack(m, v)
      PROVE  Counts'
  <2>1. ASSUME NEW n \in Materials
        PROVE  Used(n)' \subseteq Used(n)
    <3>1. CASE rows' = rows
      BY <3>1 DEF Used
    <3>2. CASE rows' = Discarded(m, v)
      BY <3>2, DiscardedRows DEF Used
    <3> QED
      BY <1>4, <3>1, <3>2 DEF RollBack
  <2> QED
    BY <1>1, <1>4, <2>1 DEF RollBack, Counts, Retrying, Owed, State
<1>5. CASE Crash
  <2>1. worker'.pc = "idle" /\ \A u \in Clients : client'[u].pc = "idle"
    BY <1>5, FirstRecords DEF Crash
  <2>2. ASSUME NEW n \in Materials
        PROVE  Retrying(n)' \subseteq Retrying(n)
    BY <2>1 DEF Retrying
  <2> QED
    BY <1>1, <1>5, <2>1, <2>2 DEF Crash, Counts, Owed, Used, State, Before
<1> QED
  BY <1>2, <1>3, <1>4, <1>5 DEF Recovery

\* Every step keeps the layer.
LEMMA CountsNext ==
    ASSUME Types, Types', Files, AtVersion, Counts, [Next]_vars
    PROVE  Counts'
BY StepKinds, CountsWorker, CountsProcess, CountsUser

\* There is a version number for a row that is begun.
LEMMA VersionLeft ==
    ASSUME Types, Files, Counts, worker.pc = "begin", State(worker.m) = "processing"
    PROVE  NextVersion(worker.m) \in Versions
<1>1. PICK m \in Materials : m = worker.m
  BY WorkerBusy
<1>2. Pending(m) = 1
  BY <1>1 DEF Pending, Owed, Before
<1>3. PICK c \in Nat : c = Cardinality(Retrying(m))
  BY Numbers DEF Counts, Counted
<1>4. PICK v \in {0} \union Used(m) : NextVersion(m) = v + 1
  BY NextVersionNew
<1>5. v + 1 + c <= 1 + requeues
  BY <1>2, <1>3 DEF Counts, Counted
<1>6. v \in Nat /\ requeues \in Nat /\ requeues <= MaxRequeues
  BY Numbers, VersionNumbers DEF Types
<1> QED
  BY <1>1, <1>3, <1>4, <1>5, <1>6, VersionNumbers

----------------------------------------------------------------------------
(* What the rows say is kept.                                              *)

\* No row becomes ready, none that was visible changes, the files of ready
\* rows stay, and the job does not end well.
LEMMA RowsKept ==
    ASSUME NEW m \in Materials, RowsSound(m),
           \A v \in Versions :
             \/ rows'[m][v] = rows[m][v]
             \/ /\ ~ Visible(rows[m][v])
                /\ rows'[m][v].state # "ready"
                /\ rows'[m][v].state = "preparing" => ~ rows'[m][v].superseded,
           \A v \in Versions :
             rows'[m][v].state = "ready" /\ <<m, v>> \in files => <<m, v>> \in files',
           job'[m].state = "draft_ready" =>
             State(m) = "draft_ready" /\ job'[m].hash = job[m].hash
    PROVE  RowsSound(m)'
<1>1. ASSUME NEW v \in Versions
      PROVE  RowSound(m, v)'
  BY DEF RowsSound, RowSound
<1>2. ASSUME NEW v \in Versions, Visible(rows[m][v])'
      PROVE  rows'[m][v] = rows[m][v]
  BY <1>2 DEF Visible
<1>3. \A v, w \in Versions : (Visible(rows[m][v]) /\ Visible(rows[m][w]))' => v = w
  BY <1>2 DEF RowsSound, Visible
<1>4. ASSUME State(m)' = "draft_ready"
      PROVE  HasProduct(m)'
  <2>1. PICK v \in Versions : Visible(rows[m][v]) /\ rows[m][v].hash = job[m].hash
    BY <1>4 DEF RowsSound, HasProduct, State
  <2>2. rows'[m][v] = rows[m][v] /\ job'[m].hash = job[m].hash
    BY <1>4, <2>1 DEF State
  <2> QED
    BY <2>1, <2>2 DEF HasProduct, Visible
<1> QED
  BY <1>1, <1>3, <1>4 DEF RowsSound

\* Jobs and rows that stay as they are.
LEMMA RowsSame ==
    ASSUME NEW m \in Materials, RowsSound(m), rows'[m] = rows[m], job'[m] = job[m],
           files \subseteq files'
    PROVE  RowsSound(m)'
BY RowsKept DEF State

\* The process: the worker is idle, and rows in preparation are given up.
LEMMA SoundProcess ==
    ASSUME Types, Files, Sound, Recovery \/ Crash
    PROVE  Sound'
<1> USE DEF matVars, dbVars
<1>1. worker'.pc = "idle"
  <2>1. CASE Crash
    BY <2>1, FirstRecords DEF Crash
  <2>2. CASE Recovery
    BY <2>2 DEF Recovery, Boot, Recovered, RollBack, Files, WorkerHolds
  <2> QED
    BY <2>1, <2>2
<1> SUFFICES \A m \in Materials : RowsSound(m)'
  BY <1>1 DEF Sound, WorkerSound
<1>3. ASSUME UNCHANGED <<rows, files>>,
             \A m \in Materials : job'[m].state = "draft_ready" =>
               State(m) = "draft_ready" /\ job'[m].hash = job[m].hash
      PROVE  \A m \in Materials : RowsSound(m)'
  BY <1>3, RowsKept DEF Sound
<1>4. CASE Crash \/ Recovered
  BY <1>3, <1>4 DEF Crash, Recovered, State
<1>5. CASE Boot
  <2>1. ASSUME NEW m \in Materials, job'[m].state = "draft_ready"
        PROVE  State(m) = "draft_ready" /\ job'[m].hash = job[m].hash
    <3>1. PICK j \in JobRecords : j = job[m]
      BY Tables
    <3>2. job'[m] = Paused(j)
      BY <1>5, <3>1 DEF Boot
    <3> QED
      BY <2>1, <3>1, <3>2, PausedJob DEF State
  <2> QED
    BY <1>3, <1>5, <2>1 DEF Boot
<1>6. ASSUME NEW m \in Materials, NEW v \in Versions, RollBack(m, v)
      PROVE  \A n \in Materials : RowsSound(n)'
  <2>1. rows[m][v].state = "preparing" /\ job' = job
    BY <1>6 DEF RollBack, Unfinished
  <2>2. CASE rows' = rows /\ files' = files \ {<<m, v>>}
    <3>1. ASSUME NEW n \in Materials, NEW w \in Versions,
                 rows'[n][w].state = "ready" /\ <<n, w>> \in files
          PROVE  <<n, w>> \in files'
      <4>1. <<n, w>> # <<m, v>>
        BY <2>1, <2>2, <3>1
      <4> QED
        BY <2>2, <3>1, <4>1
    <3> QED
      BY <2>1, <2>2, <3>1, RowsKept DEF Sound, State
  <2>3. CASE rows' = Discarded(m, v) /\ files' = files
    <3>1. ASSUME NEW n \in Materials, NEW w \in Versions
          PROVE  \/ rows'[n][w] = rows[n][w]
                 \/ /\ ~ Visible(rows[n][w])
                    /\ rows'[n][w].state = "discarded"
      BY <2>3, DiscardedRows DEF Visible
    <3> QED
      BY <2>1, <2>3, <3>1, RowsKept DEF Sound, State
  <2> QED
    BY <1>6, <2>2, <2>3 DEF RollBack
<1> QED
  BY <1>4, <1>5, <1>6 DEF Recovery

\* A user's step.
LEMMA SoundUser == ASSUME Types, Files, Sound, UserStep PROVE Sound'
<1>1. UNCHANGED files /\ WorkerKeeps
  BY DEF UserStep
<1>2. ASSUME NEW m \in Materials
      PROVE  \/ job'[m] = job[m] /\ rows'[m] = rows[m]
             \/ /\ job'[m].state \notin {"draft_ready", "processing"}
                /\ \/ rows'[m] = rows[m]
                   \/ \A v \in Versions : rows'[m][v].state = "none"
  BY DEF UserStep, UserDoes, LeavesAlone, Stops, AsksRetry, Queues, Removes
<1>3. ASSUME NEW m \in Materials
      PROVE  RowsSound(m)'
  <2>1. CASE job'[m] = job[m] /\ rows'[m] = rows[m]
    BY <1>1, <2>1, RowsSame DEF Sound
  <2>2. CASE job'[m].state # "draft_ready" /\ rows'[m] = rows[m]
    BY <1>1, <2>2, RowsKept DEF Sound
  <2>3. CASE job'[m].state # "draft_ready" /\ \A v \in Versions : rows'[m][v].state = "none"
    BY <2>3 DEF RowsSound, RowSound, Visible, State
  <2> QED
    BY <1>2, <2>1, <2>2, <2>3
<1>4. ASSUME worker.pc # "idle"
      PROVE  WorkerSound'
  <2>1. PICK m \in Materials : m = worker.m
    BY <1>4, WorkerBusy
  <2>2. CASE job'[m] = job[m] /\ rows'[m] = rows[m]
    BY <1>1, <1>4, <2>1, <2>2 DEF Sound, WorkerSound, WorkerKeeps, State, Used, HasProduct
  <2>3. CASE job'[m].state \notin {"draft_ready", "processing"} /\ rows'[m] = rows[m]
    BY <1>1, <1>4, <2>1, <2>3 DEF Sound, WorkerSound, WorkerKeeps, State, Used
  <2>4. CASE /\ job'[m].state \notin {"draft_ready", "processing"}
             /\ \A v \in Versions : rows'[m][v].state = "none"
    BY <1>1, <1>4, <2>1, <2>4 DEF Sound, WorkerSound, WorkerKeeps, State, Used
  <2> QED
    BY <1>2, <2>2, <2>3, <2>4
<1>5. WorkerSound'
  BY <1>1, <1>4 DEF WorkerSound, WorkerKeeps
<1> QED
  BY <1>3, <1>5 DEF Sound

\* The worker's steps that touch no job and no row.
LEMMA SoundReading ==
    ASSUME Types, Files, Sound,
           Extract \/ CheckHeld \/ Fence \/ WriteFile \/ Derive
    PROVE  Sound'
<1> USE DEF matVars, dbVars
<1>1. PICK m \in Materials : m = worker.m
  BY WorkerBusy DEF Extract, CheckHeld, Fence, WriteFile, Derive
<1>2. UNCHANGED <<job, rows, source>> /\ files \subseteq files'
  BY DEF Extract, CheckHeld, Fence, WriteFile, Derive
<1>3. ASSUME NEW n \in Materials
      PROVE  RowsSound(n)'
  BY <1>2, RowsSame DEF Sound
<1>4. /\ WorkerSound /\ UNCHANGED <<State(m), job[m], rows[m], Used(m)>>
      /\ HasProduct(m)' <=> HasProduct(m)
  BY <1>2 DEF Sound, State, Used, HasProduct
<1> SUFFICES WorkerSound'
  BY <1>3 DEF Sound
<1>6. CASE Extract
  BY <1>1, <1>4, <1>6, ExtractDoes DEF WorkerSound, Before, AtRow, State
<1>7. CASE CheckHeld
  BY <1>1, <1>4, <1>7, CheckHeldDoes DEF WorkerSound, WorkerAt, Before, AtRow, State
<1>8. CASE Fence
  <2>1. worker.hash = source[m] /\ source[m] # 0 => worker.restored \/ worker.text = worker.hash
    BY <1>1, <1>8 DEF Fence, Files, WorkerExact
  <2>2. worker'.pc = "begin" /\ worker'.fenced => worker'.restored \/ worker'.text = worker'.hash
    BY <1>1, <1>8, <2>1, FenceDoes
  <2>3. /\ worker.pc = "fence" /\ worker'.pc \in {"begin", "failed"}
        /\ worker'.m = worker.m /\ worker'.hash = worker.hash
    BY <1>8, FenceDoes
  <2> QED
    BY <1>1, <1>4, <2>2, <2>3 DEF WorkerSound, Before, AtRow, State
<1>9. CASE WriteFile
  <2>1. CASE WorkerAt("commit") /\ files' = files \union {<<worker.m, worker.version>>}
    BY <1>1, <1>4, <1>9, <2>1, WriteFileDoes
    DEF WorkerSound, WorkerAt, Before, AtRow, State, Used
  <2>2. CASE WorkerAt("discard") /\ files' = files
    BY <1>1, <1>4, <1>9, <2>2, WriteFileDoes
    DEF WorkerSound, WorkerAt, Before, AtRow, State, Used
  <2> QED
    BY <1>9, <2>1, <2>2, WriteFileDoes
<1>10. CASE Derive
  BY <1>1, <1>4, <1>10, DeriveDoes DEF WorkerSound, Before, AtRow, State
<1> QED
  BY <1>6, <1>7, <1>8, <1>9, <1>10

\* A job is claimed, and one comes to its end.
LEMMA SoundJobs ==
    ASSUME Types, Files, Sound, (\E m \in Materials : Claim(m)) \/ Finish
    PROVE  Sound'
<1>1. ASSUME NEW m \in Materials, Claim(m)
      PROVE  Sound'
  <2>1. /\ worker'.pc = "extract" /\ worker'.m = m /\ worker'.hash = job[m].hash
        /\ job'[m].state = "processing" /\ job'[m].hash = job[m].hash
        /\ \A n \in Materials \ {m} : job'[n] = job[n]
        /\ UNCHANGED <<rows, files>>
    BY <1>1, ClaimDoes
  <2>2. ASSUME NEW n \in Materials
        PROVE  RowsSound(n)'
    <3>1. CASE n = m
      BY <2>1, <3>1, RowsKept DEF Sound
    <3>2. CASE n # m
      BY <2>1, <3>2, RowsSame DEF Sound
    <3> QED
      BY <3>1, <3>2
  <2>3. WorkerSound'
    BY <2>1 DEF WorkerSound, AtRow, State
  <2> QED
    BY <2>2, <2>3 DEF Sound
<1>2. CASE Finish
  <2>1. PICK m \in Materials : m = worker.m
    BY <1>2, WorkerBusy DEF Finish
  <2>2. /\ worker.pc \in {"ready", "failed"} /\ worker'.pc = "idle"
        /\ job'[m].state = IF State(m) = "processing"
                           THEN IF worker.pc = "ready" THEN "draft_ready" ELSE "failed"
                           ELSE State(m)
        /\ job'[m].hash = job[m].hash
        /\ \A n \in Materials \ {m} : job'[n] = job[n]
        /\ UNCHANGED <<rows, files>>
    BY <1>2, <2>1, FinishDoes
  <2>3. WorkerSound'
    BY <2>2 DEF WorkerSound
  <2>4. RowsSound(m)'
    <3>1. CASE State(m) = "processing" /\ worker.pc = "ready"
      <4>1. HasProduct(m)
        BY <2>1, <3>1 DEF Sound, WorkerSound
      <4>2. HasProduct(m)'
        BY <2>2, <4>1 DEF HasProduct
      <4> QED
        BY <2>2, <4>2 DEF Sound, RowsSound, RowSound
    <3>2. CASE ~ (State(m) = "processing" /\ worker.pc = "ready")
      <4>1. job'[m].state = "draft_ready" => State(m) = "draft_ready"
        BY <2>2, <3>2
      <4> QED
        BY <2>2, <4>1, RowsKept DEF Sound
    <3> QED
      BY <3>1, <3>2
  <2>5. ASSUME NEW n \in Materials \ {m}
        PROVE  RowsSound(n)'
    BY <2>2, RowsSame DEF Sound
  <2> QED
    BY <2>3, <2>4, <2>5 DEF Sound
<1> QED
  BY <1>1, <1>2

\* A row is begun.
LEMMA SoundBegin == ASSUME Types, Files, Counts, Sound, Begin PROVE Sound'
<1> USE DEF matVars
<1>1. PICK m \in Materials : m = worker.m
  BY WorkerBusy DEF Begin
<1>2. WorkerSound /\ UNCHANGED <<job, files>> /\ worker.pc = "begin"
  BY BeginDoes DEF Sound
<1>3. CASE State(m) = "processing"
  <2>1. PICK h \in Contents, b \in BOOLEAN, r \in BOOLEAN, n \in Nat :
          h = worker.hash /\ b = worker.fenced /\ r = worker.restored /\ n = NextVersion(m)
    BY NextVersionNew DEF Types, WorkerRecords
  <2>2. n \in Versions
    BY <1>1, <1>2, <1>3, <2>1, VersionLeft
  <2>3. PICK f \in [Versions -> RowRecords] : f = Begun(m, h, b, r)
    BY <2>1, BegunRows
  <2>4. /\ f[n].state = "preparing" /\ f[n].hash = h /\ f[n].fenced = b /\ f[n].restored = r
        /\ ~ f[n].superseded
        /\ rows[m][n].state \in {"none", "preparing"}
        /\ \A w \in Versions \ {n} : f[w] = rows[m][w] \/ GaveWay(rows[m][w], f[w])
        /\ \A w \in Versions \ {n} : f[w].state # "none" => w < n
    BY <2>1, <2>2, <2>3, BegunRows
  <2>5. /\ rows' = [rows EXCEPT ![m] = f]
        /\ worker'.pc = IF worker.text \in Long THEN "write" ELSE "commit"
        /\ worker'.m = m /\ worker'.text = worker.text /\ worker'.version = n
    BY <1>1, <1>3, <2>1, <2>3, BeginDoes
  <2>6. rows'[m] = f /\ \A w \in Materials \ {m} : rows'[w] = rows[w]
    BY <2>5, Tables
  <2>7. ASSUME NEW v \in Versions
        PROVE  \/ f[v] = rows[m][v]
               \/ /\ ~ Visible(rows[m][v])
                  /\ f[v].state # "ready"
                  /\ f[v].state = "preparing" => ~ f[v].superseded
    BY <2>4, FirstRecords DEF Visible, GaveWay
  <2>8. RowsSound(m)'
    BY <1>2, <2>6, <2>7, RowsKept DEF Sound, State
  <2>9. ASSUME NEW w \in Materials \ {m}
        PROVE  RowsSound(w)'
    BY <1>2, <2>6, RowsSame DEF Sound
  <2>10. \A w \in Used(m)' : w <= n
    BY <2>2, <2>4, <2>6, VersionNumbers DEF Used, Versions
  <2>11. b /\ ~ r => worker.text = h
    BY <1>2, <2>1 DEF WorkerSound
  <2>12. h = job[m].hash
    BY <1>1, <1>2, <1>3, <2>1 DEF WorkerSound, Before
  <2>13. State(m) # "draft_ready"
    BY <1>3
  <2>14. WorkerSound'
    BY <1>2, <2>2, <2>4, <2>5, <2>6, <2>10, <2>11, <2>12, <2>13
    DEF WorkerSound, Before, AtRow, State
  <2> QED
    BY <2>8, <2>9, <2>14 DEF Sound
<1>4. CASE State(m) # "processing"
  <2>1. worker'.pc = "idle" /\ rows' = rows
    BY <1>1, <1>4, BeginDoes
  <2> QED
    BY <1>2, <2>1, RowsSame DEF Sound, WorkerSound
<1> QED
  BY <1>3, <1>4

\* The row becomes ready, or is given up.
LEMMA SoundCommit == ASSUME Types, Files, Sound, Commit PROVE Sound'
<1> USE DEF matVars
<1>1. PICK m \in Materials : m = worker.m
  BY WorkerBusy DEF Commit
<1>2. WorkerSound /\ UNCHANGED <<job, files>> /\ worker.pc = "commit"
  BY CommitDoes DEF Sound
<1>3. PICK v \in Versions : v = worker.version
  BY <1>2 DEF WorkerSound, AtRow
<1>4. PICK t \in Contents : t = worker.text
  BY DEF Types, WorkerRecords
<1>5. /\ State(m) # "draft_ready"
      /\ rows[m][v].state = "preparing" =>
            /\ rows[m][v].fenced /\ ~ rows[m][v].restored => t = rows[m][v].hash
            /\ State(m) = "processing" => rows[m][v].hash = job[m].hash
      /\ t \in Long => <<m, v>> \in files
  BY <1>1, <1>2, <1>3, <1>4 DEF WorkerSound, AtRow
<1>6. CASE /\ rows[m][v].state = "preparing"
           /\ rows' = [rows EXCEPT ![m] = Committed(m, v, t)]
           /\ worker'.pc = "derive" /\ worker'.m = m
  <2>1. PICK f \in [Versions -> RowRecords] : f = Committed(m, v, t)
    BY CommittedRows
  <2>2. rows'[m] = f /\ \A n \in Materials \ {m} : rows'[n] = rows[n]
    BY <1>6, <2>1, Tables
  <2>3. /\ f[v].state = "ready" /\ f[v].text = t /\ (f[v].file <=> t \in Long)
        /\ f[v].hash = rows[m][v].hash /\ f[v].fenced = rows[m][v].fenced
        /\ f[v].restored = rows[m][v].restored
        /\ f[v].superseded = rows[m][v].superseded
    BY <2>1, CommittedRows
  <2>4. ASSUME NEW w \in Versions \ {v}
        PROVE  /\ f[w].state = rows[m][w].state /\ f[w].text = rows[m][w].text
               /\ f[w].file = rows[m][w].file /\ f[w].hash = rows[m][w].hash
               /\ f[w].fenced = rows[m][w].fenced /\ f[w].restored = rows[m][w].restored
               /\ ~ Visible(f[w])
               /\ rows[m][w].state # "ready" => f[w].superseded = rows[m][w].superseded
    BY <2>1, CommittedRows
  <2>5. RowSound(m, v) /\ \A w \in Versions : RowSound(m, w)
    BY DEF Sound, RowsSound
  <2>6. Visible(f[v])
    BY <1>6, <2>3, <2>5 DEF RowSound, Visible
  <2>7. RowSound(m, v)'
    BY <1>2, <1>5, <1>6, <2>2, <2>3 DEF RowSound
  <2>8. ASSUME NEW w \in Versions \ {v}
        PROVE  RowSound(m, w)'
    BY <1>2, <2>2, <2>4, <2>5 DEF RowSound
  <2>9. State(m)' # "draft_ready"
    BY <1>2, <1>5 DEF State
  <2>10. \A w \in Versions : Visible(rows[m][w])' => w = v
    BY <2>2, <2>4 DEF Visible
  <2>11. RowsSound(m)'
    BY <2>7, <2>8, <2>9, <2>10 DEF RowsSound
  <2>12. ASSUME NEW n \in Materials \ {m}
         PROVE  RowsSound(n)'
    BY <1>2, <2>2, RowsSame DEF Sound
  <2>13. State(m) = "processing" => HasProduct(m)'
    BY <1>2, <1>5, <1>6, <2>2, <2>3, <2>6 DEF HasProduct, Visible
  <2>14. WorkerSound'
    BY <1>2, <1>6, <2>9, <2>13 DEF WorkerSound, Before, AtRow, State
  <2> QED
    BY <2>11, <2>12, <2>14 DEF Sound
<1>7. CASE WorkerAt("discard") /\ rows' = rows
  <2>1. ASSUME NEW n \in Materials
        PROVE  RowsSound(n)'
    BY <1>2, <1>7, RowsSame DEF Sound
  <2>2. WorkerSound'
    BY <1>1, <1>2, <1>7 DEF WorkerSound, WorkerAt, Before, AtRow, State, Used
  <2> QED
    BY <2>1, <2>2 DEF Sound
<1> QED
  BY <1>1, <1>3, <1>4, <1>6, <1>7, CommitDoes

\* The row is discarded.
LEMMA SoundDiscard == ASSUME Types, Files, Sound, Discard PROVE Sound'
<1>1. PICK m \in Materials : m = worker.m
  BY WorkerBusy DEF Discard
<1>2. /\ worker.pc = "discard" /\ worker'.pc = "failed" /\ worker'.m = m
      /\ UNCHANGED <<job, files>>
      /\ \A n \in Materials, w \in Versions :
           \/ rows'[n][w] = rows[n][w]
           \/ rows[n][w].state = "preparing" /\ rows'[n][w].state = "discarded"
  BY <1>1, DiscardDoes
<1>3. ASSUME NEW n \in Materials
      PROVE  RowsSound(n)'
  BY <1>2, RowsKept DEF Sound, Visible, State
<1>4. WorkerSound'
  BY <1>1, <1>2 DEF Sound, WorkerSound, Before, AtRow, State
<1> QED
  BY <1>3, <1>4 DEF Sound

\* Every step keeps the layer.
LEMMA SoundNext == ASSUME Types, Files, Counts, Sound, [Next]_vars PROVE Sound'
BY StepKinds, SoundProcess, SoundUser, SoundReading, SoundJobs, SoundBegin, SoundCommit,
   SoundDiscard DEF WorkerStep

----------------------------------------------------------------------------
(* The invariant, and what follows.                                        *)

\* It holds at the start.
LEMMA PipelineInit == Init => PipelineInv
<1> SUFFICES ASSUME Init PROVE PipelineInv
  OBVIOUS
<1>1. PICK j \in JobRecords : j = NoJob /\ j.state = "none" /\ j.hash = 0
  BY FirstRecords
<1>2. PICK r \in RowRecords : r = NoRow /\ r.state = "none"
  BY FirstRecords
<1>3. worker.pc = "idle" /\ worker \in WorkerRecords
  BY FirstRecords DEF Init
<1>4. client \in [Clients -> ClientRecords] /\ \A u \in Clients : client[u].pc = "idle"
  BY FirstRecords DEF Init
<1>5. 0 \in Contents /\ requeues \in 0..MaxRequeues /\ requeues = 0
  BY VersionNumbers DEF Init, Contents
<1>6. Types
  BY <1>1, <1>2, <1>3, <1>4, <1>5, Tables DEF Init
<1>7. Files
  BY <1>1, <1>3, <1>4 DEF Init, Files, FilePlaced, WorkerHolds, WorkerExact, ClientHolds
<1>8. ASSUME NEW m \in Materials
      PROVE  /\ State(m) = "none" /\ \A v \in Versions : rows[m][v].state = "none"
             /\ Retrying(m) = {} /\ Used(m) = {} /\ Pending(m) = 0
  BY <1>1, <1>2, <1>4 DEF Init, State, Retrying, Used, Pending, Owed
<1>9. Asked
  BY <1>8 DEF Asked, AskedFor, Active
<1>10. Counts
  BY <1>5, <1>8, FS_EmptySet DEF Counts, Counted
<1>11. Sound
  BY <1>3, <1>8 DEF Sound, WorkerSound, RowsSound, RowSound, Visible
<1> QED
  BY <1>6, <1>7, <1>9, <1>10, <1>11 DEF PipelineInv

\* Every step keeps it.
LEMMA PipelineNext == PipelineInv /\ [Next]_vars => PipelineInv'
<1> SUFFICES ASSUME PipelineInv, [Next]_vars PROVE PipelineInv'
  OBVIOUS
<1>1. Types /\ Files /\ Asked /\ Counts /\ Sound
  BY DEF PipelineInv
<1>2. AtVersion
  BY <1>1 DEF AtVersion, Sound, WorkerSound, AtRow
<1>3. Types'
  BY <1>1, <1>2, TypesNext
<1> QED
  BY <1>1, <1>2, <1>3, FilesNext, AskedNext, CountsNext, SoundNext DEF PipelineInv

\* It always holds: the tables, the files, the worker and the requests agree
\* with each other, whatever the users, the disk and the crashes do.
THEOREM PipelineSafe == Spec => []PipelineInv
BY PipelineInit, PipelineNext, PTL DEF Spec

\* Every value stays in its type, whatever the steps do.
THEOREM PipelineTyped == Spec => []TypeOK
<1>1. PipelineInv => TypeOK
  BY DEF PipelineInv, Types
<1> QED
  BY <1>1, PipelineSafe, PTL

\* The text of every ready snapshot can be read: its file was in place before
\* the row said so, and nothing takes it away.
THEOREM SnapshotsReadable == Spec => []SnapshotReadable
<1>1. PipelineInv => SnapshotReadable
  BY DEF PipelineInv, Sound, RowsSound, RowSound, SnapshotReadable
<1> QED
  BY <1>1, PipelineSafe, PTL

\* A snapshot whose fingerprint was compared holds the text of that content,
\* unless an edit put that content back between the parsing and the comparison:
\* no other edit, removal or return of the file at any moment gets a text past
\* the fence under the fingerprint of another.
THEOREM ExactUnlessRestored == Spec => []FencedUnlessRestored
<1>1. PipelineInv => FencedUnlessRestored
  BY DEF PipelineInv, Sound, RowsSound, RowSound, FencedUnlessRestored
<1> QED
  BY <1>1, PipelineSafe, PTL

\* Work that was interrupted is not resumed by itself: what is being processed
\* was queued or resumed by a user of this process, and the worker is at it.
THEOREM WorkIsAsked == Spec => []OnlyAskedWork
<1>1. PipelineInv => OnlyAskedWork
  BY DEF PipelineInv, Asked, AskedFor, OnlyAskedWork, Active
<1> QED
  BY <1>1, PipelineSafe, PTL

\* The current snapshot is the visible one.
LEMMA CurrentOf ==
    ASSUME NEW m \in Materials, RowsSound(m), NEW v \in Versions, Visible(rows[m][v])
    PROVE  /\ {w \in Versions : Visible(rows[m][w])} = {v}
           /\ Current(m) = v
<1>1. PICK vs \in SUBSET Versions : vs = {w \in Versions : Visible(rows[m][w])}
  OBVIOUS
<1>2. vs = {v}
  BY <1>1 DEF RowsSound
<1>3. Highest(vs) = v
  <2>1. Highest(vs) \in {0, v} /\ v <= Highest(vs)
    BY <1>2, HighestOf
  <2> QED
    BY <2>1, VersionNumbers DEF Versions
<1> QED
  BY <1>1, <1>2, <1>3 DEF Current

\* A material has at most one visible snapshot, and a job that ended well has
\* produced it, under the fingerprint the job was last queued with.
THEOREM ReadyIsCurrent == Spec => []DraftReadyIsCurrent
<1>1. ASSUME PipelineInv, NEW m \in Materials
      PROVE  /\ Cardinality({v \in Versions : Visible(rows[m][v])}) <= 1
             /\ State(m) = "draft_ready" =>
                   Current(m) # 0 /\ rows[m][Current(m)].hash = job[m].hash
  <2>1. RowsSound(m)
    BY <1>1 DEF PipelineInv, Sound
  <2>2. PICK vs : vs = {v \in Versions : Visible(rows[m][v])}
    OBVIOUS
  <2>3. Cardinality(vs) <= 1
    <3>1. CASE vs = {}
      BY <3>1, FS_EmptySet
    <3>2. CASE vs # {}
      <4>1. PICK v : v \in vs
        BY <3>2
      <4>2. vs = {v}
        BY <2>1, <2>2, <4>1, CurrentOf
      <4> QED
        BY <4>2, FS_Singleton
    <3> QED
      BY <3>1, <3>2
  <2>4. ASSUME State(m) = "draft_ready"
        PROVE  Current(m) # 0 /\ rows[m][Current(m)].hash = job[m].hash
    <3>1. PICK v \in Versions : Visible(rows[m][v]) /\ rows[m][v].hash = job[m].hash
      BY <2>1, <2>4 DEF RowsSound, HasProduct
    <3>2. Current(m) = v
      BY <2>1, <3>1, CurrentOf
    <3>3. v # 0
      BY VersionNumbers DEF Versions
    <3> QED
      BY <3>1, <3>2, <3>3
  <2> QED
    BY <2>2, <2>3, <2>4
<1>2. PipelineInv => DraftReadyIsCurrent
  BY <1>1 DEF DraftReadyIsCurrent
<1> QED
  BY <1>2, PipelineSafe, PTL

\* What is visible stays so, gives way to a newer row, or its material is
\* removed.
LEMMA VisibleStays ==
    ASSUME PipelineInv, [Next]_vars, NEW m \in Materials,
           NEW c \in Versions, Visible(rows[m][c])
    PROVE  \/ State(m)' = "none"
           \/ \E v \in Versions : c <= v /\ Visible(rows[m][v])'
<1> USE DEF matVars, dbVars
<1>1. Types /\ Files /\ Counts /\ Sound /\ c <= c
  BY VersionNumbers DEF PipelineInv, Versions
<1>2. rows[m][c].state = "ready" /\ ~ rows[m][c].superseded
  BY DEF Visible
<1>3. rows'[m][c] = rows[m][c] => Visible(rows[m][c])'
  BY DEF Visible
<1>4. rows' = rows => Visible(rows[m][c])'
  BY <1>3
<1>5. CASE UserStep
  BY <1>1, <1>3, <1>5
  DEF UserStep, UserDoes, LeavesAlone, Stops, AsksRetry, Queues, Removes, State
<1>6. CASE Crash \/ Boot \/ Recovered
  BY <1>1, <1>4, <1>6 DEF Crash, Boot, Recovered
<1>7. ASSUME NEW n \in Materials, NEW v \in Versions, RollBack(n, v)
      PROVE  Visible(rows[m][c])'
  <2>1. CASE rows' = rows
    BY <1>4, <2>1
  <2>2. CASE rows' = Discarded(n, v)
    BY <1>1, <1>2, <1>3, <2>2, DiscardedRows
  <2> QED
    BY <1>7, <2>1, <2>2 DEF RollBack
<1>8. ASSUME Extract \/ CheckHeld \/ Fence \/ WriteFile \/ Derive \/ Finish
             \/ \E n \in Materials : Claim(n)
      PROVE  Visible(rows[m][c])'
  BY <1>4, <1>8 DEF Extract, CheckHeld, Fence, WriteFile, Derive, Finish, Claim
<1>9. ASSUME Discard
      PROVE  Visible(rows[m][c])'
  BY <1>1, <1>2, <1>3, <1>9, DiscardDoes
<1>10. ASSUME Begin
       PROVE  Visible(rows[m][c])'
  <2>1. CASE rows' = rows
    BY <1>4, <2>1
  <2>2. CASE worker.m # m
    <3>1. rows'[m] = rows[m]
      BY <1>1, <1>10, <2>2, Tables DEF Begin
    <3> QED
      BY <1>3, <3>1
  <2>3. CASE worker.m = m /\ State(m) = "processing"
    <3>1. PICK h \in Contents, b \in BOOLEAN, r \in BOOLEAN, n \in Nat :
            h = worker.hash /\ b = worker.fenced /\ r = worker.restored /\ n = NextVersion(m)
      BY <1>1, NextVersionNew DEF Types, WorkerRecords
    <3>2. PICK f \in [Versions -> RowRecords] : f = Begun(m, h, b, r)
      BY <1>1, <3>1, BegunRows
    <3>3. rows' = [rows EXCEPT ![m] = f]
      BY <1>1, <1>10, <2>3, <3>1, <3>2, BeginDoes
    <3>4. rows'[m] = f
      BY <1>1, <3>3, Tables
    <3>5. c # n
      BY <1>1, <1>2, <3>1, BegunRows
    <3>6. f[c] = rows[m][c]
      BY <1>1, <1>2, <3>1, <3>2, <3>5, BegunRows DEF GaveWay
    <3> QED
      BY <1>3, <3>4, <3>6
  <2> QED
    BY <1>1, <1>10, <2>1, <2>2, <2>3, BeginDoes
<1>11. ASSUME Commit
       PROVE  \E v \in Versions : c <= v /\ Visible(rows[m][v])'
  <2>1. CASE rows' = rows
    BY <1>1, <1>4, <2>1
  <2>2. CASE worker.m # m
    <3>1. rows'[m] = rows[m]
      BY <1>1, <1>11, <2>2, Tables DEF Commit
    <3> QED
      BY <1>1, <1>3, <3>1
  <2>3. CASE worker.m = m /\ rows[m][worker.version].state = "preparing"
    <3>1. PICK v \in Versions : v = worker.version
      BY <1>1, <1>11 DEF Commit, Sound, WorkerSound, AtRow
    <3>2. PICK t \in Contents : t = worker.text
      BY <1>1 DEF Types, WorkerRecords
    <3>3. PICK f \in [Versions -> RowRecords] : f = Committed(m, v, t)
      BY <1>1, CommittedRows
    <3>4. rows' = [rows EXCEPT ![m] = f]
      BY <1>11, <2>3, <3>1, <3>2, <3>3 DEF Commit
    <3>5. rows'[m] = f
      BY <1>1, <3>4, Tables
    <3>6. f[v].state = "ready" /\ f[v].superseded = rows[m][v].superseded
      BY <1>1, <3>3, CommittedRows
    <3>7. ~ rows[m][v].superseded
      BY <1>1, <2>3, <3>1 DEF Sound, RowsSound, RowSound
    <3>8. Visible(rows[m][v])'
      BY <3>5, <3>6, <3>7 DEF Visible
    <3>9. c <= v
      BY <1>1, <1>2, <1>11, <2>3, <3>1 DEF Commit, Sound, WorkerSound, AtRow, Used
    <3> QED
      BY <3>8, <3>9
  <2> QED
    BY <1>1, <1>11, <2>1, <2>2, <2>3, CommitDoes
<1> QED
  BY <1>1, <1>5, <1>6, <1>7, <1>8, <1>9, <1>10, <1>11, StepKinds DEF WorkerStep, Recovery

\* What could be read stays readable while it is parsed again: only a newer
\* snapshot or the removal of the material takes its place.
THEOREM CurrentStays == Spec => CurrentKept
<1>1. ASSUME PipelineInv, [Next]_vars, NEW m \in Materials
      PROVE  Current(m)' >= Current(m) \/ State(m)' = "none"
  <2>1. PICK vs \in SUBSET Versions : vs = {v \in Versions : Visible(rows[m][v])}
    OBVIOUS
  <2>2. PICK ws \in SUBSET Versions : ws = {v \in Versions : Visible(rows[m][v])'}
    OBVIOUS
  <2>3. PICK c, d : c = Highest(vs) /\ d = Highest(ws)
    OBVIOUS
  <2>4. Current(m) = c /\ Current(m)' = d
    BY <2>1, <2>2, <2>3 DEF Current
  <2>5. c \in {0} \union vs /\ d \in {0} \union ws /\ \A w \in ws : w <= d
    BY <2>3, HighestOf
  <2>6. c \in Nat /\ d \in Nat
    BY <2>5 DEF Versions
  <2>7. CASE c = 0
    BY <2>4, <2>6, <2>7
  <2>8. CASE c \in vs
    <3>1. CASE State(m)' = "none"
      BY <3>1
    <3>2. ASSUME NEW v \in Versions, c <= v, Visible(rows[m][v])'
          PROVE  d >= c
      <4>1. v \in ws /\ v \in Nat
        BY <2>2, <3>2 DEF Versions
      <4> QED
        BY <2>5, <2>6, <3>2, <4>1
    <3>3. State(m)' = "none" \/ \E v \in Versions : c <= v /\ Visible(rows[m][v])'
      BY <1>1, <2>1, <2>8, VisibleStays
    <3> QED
      BY <2>4, <3>2, <3>3
  <2> QED
    BY <2>5, <2>7, <2>8
<1>2. PipelineInv /\ [Next]_vars =>
        [\A m \in Materials : Current(m)' >= Current(m) \/ State(m)' = "none"]_vars
  BY <1>1
<1> QED
  BY <1>2, PipelineSafe, PTL DEF Spec, CurrentKept
=============================================================================
