------------------------- MODULE Workloads_proofs -------------------------
(***************************************************************************)
(* What the programs around the gateway promise for any number of jobs,    *)
(* pages, requests, agents and models, and that they promise it side by    *)
(* side: every behaviour of Workloads is one of each program.              *)
(***************************************************************************)
EXTENDS Workloads, Billing_proofs, TenantSync_proofs, FiniteSetTheorems, WellFoundedInduction

---------------------------------------------------------------------------
(* The jobs of the scraping server. A job that is under way has told of    *)
(* exactly what it has sent; its last request may leave a batch untold.    *)

JobRecords ==
  [status : {"pending", "running", "done", "failed"}, found : Nat, scraped : Nat,
   embedded : Nat, errors : Nat, summary : Nat]

Tasks ==
  [at : {"none", "queued", "crawl", "ensure", "pages", "store"}, left : Nat, records : Nat]

\* What the record r and the task p of a job may be once s of its records are
\* stored and f were refused.
Truthful(r, p, s, f) ==
  /\ r \in JobRecords /\ p \in Tasks /\ s \in Nat /\ f \in Nat
  /\ p.at # "none" =>
       /\ r.embedded = s + f /\ r.embedded <= p.records
       /\ r.status \in {"pending", "running"}
       /\ p.at \in {"queued", "crawl", "ensure"} => r.embedded = 0
  /\ p.at = "none" =>
       /\ r.status \in {"done", "failed"}
       /\ r.status = "done" => r.embedded = s + f /\ r.summary = s + f
       /\ r.status = "failed" => r.errors > 0
       /\ r.status = "failed" => s + f \in r.embedded .. r.embedded + BatchSize

JobOK(j) ==
  /\ pipelines[j].at # "none" => j \in DOMAIN jobs
  /\ j \in DOMAIN jobs => Truthful(jobs[j], pipelines[j], stored[j], refused[j])

JobTypes ==
  /\ DOMAIN jobs \subseteq JobIds /\ jobs = [j \in DOMAIN jobs |-> jobs[j]]
  /\ pipelines \in [JobIds -> Tasks]
  /\ stored \in [JobIds -> Nat] /\ refused \in [JobIds -> Nat]

JobInv == JobTypes /\ \A j \in JobIds : JobOK(j)

\* A step of job j alone.
JobMoves(j, r, p, s, f) ==
  /\ jobs' = Put(jobs, j, r) /\ pipelines' = [pipelines EXCEPT ![j] = p]
  /\ stored' = [stored EXCEPT ![j] = s] /\ refused' = [refused EXCEPT ![j] = f]

LEMMA MinOfTwo ==
    ASSUME NEW x \in Nat, NEW y \in Nat
    PROVE  /\ Min({x, y}) \in {x, y} /\ Min({x, y}) <= x /\ Min({x, y}) <= y
<1>1. \E m \in {x, y} : \A n \in {x, y} : m <= n
    OBVIOUS
<1> QED BY <1>1 DEF Min

LEMMA JobInvInit == JobInit => JobInv
BY DEF JobInit, JobInv, JobTypes, JobOK, NoTask, Tasks

\* What a batch adds: at least a record, at most BatchSize.
LEMMA BatchSizes ==
    ASSUME JobInv, NEW j \in JobIds, MoreBatches(j)
    PROVE  /\ j \in DOMAIN jobs /\ jobs[j].embedded \in Nat
           /\ NextStored(j) \in Nat /\ BatchOf(j) \in 1 .. BatchSize
           /\ NextStored(j) <= pipelines[j].records
           /\ NextStored(j) = jobs[j].embedded + BatchOf(j)
<1>1. /\ j \in DOMAIN jobs /\ jobs[j].embedded \in Nat /\ pipelines[j].records \in Nat
      /\ jobs[j].embedded < pipelines[j].records /\ BatchSize \in Nat \ {0}
    BY BatchAssumption DEF MoreBatches, JobAt, JobInv, JobOK, JobTypes, JobRecords, Truthful, Tasks
<1>2. /\ NextStored(j) \in {jobs[j].embedded + BatchSize, pipelines[j].records}
      /\ NextStored(j) <= jobs[j].embedded + BatchSize
      /\ NextStored(j) <= pipelines[j].records
    <2>1. jobs[j].embedded + BatchSize \in Nat
        BY <1>1
    <2> QED BY <1>1, <2>1, MinOfTwo DEF NextStored
<1> QED BY <1>1, <1>2 DEF BatchOf

\* A step of one job is judged by that job alone.
LEMMA OneJobMoves ==
    ASSUME JobInv, NEW j \in JobIds, NEW r, NEW p, NEW s, NEW f,
           JobMoves(j, r, p, s, f), Truthful(r, p, s, f)
    PROVE  JobInv'
<1>1. /\ DOMAIN jobs' = DOMAIN jobs \cup {j} /\ jobs'[j] = r
      /\ \A i \in DOMAIN jobs : i # j => jobs'[i] = jobs[i]
      /\ jobs' = [i \in DOMAIN jobs' |-> jobs'[i]]
    BY DEF Put, JobMoves
<1>2. /\ pipelines'[j] = p /\ stored'[j] = s /\ refused'[j] = f
      /\ \A i \in JobIds : i # j => /\ pipelines'[i] = pipelines[i] /\ stored'[i] = stored[i]
                                    /\ refused'[i] = refused[i]
    BY DEF JobInv, JobTypes, JobMoves
<1>3. JobTypes'
    BY <1>1 DEF JobInv, JobTypes, JobMoves, Truthful
<1>4. JobOK(j)'
    BY <1>1, <1>2 DEF JobOK, Truthful
<1>5. ASSUME NEW i \in JobIds, i # j
      PROVE  JobOK(i)'
    <2>1. JobOK(i)
        BY DEF JobInv
    <2> QED BY <1>1, <1>2, <1>5, <2>1 DEF JobOK, Truthful
<1> QED BY <1>3, <1>4, <1>5 DEF JobInv

LEMMA JobFacts ==
    ASSUME JobInv, NEW j \in JobIds
    PROVE  /\ pipelines[j] \in Tasks /\ stored[j] \in Nat /\ refused[j] \in Nat
           /\ stored = [stored EXCEPT ![j] = stored[j]]
           /\ refused = [refused EXCEPT ![j] = refused[j]]
           /\ j \in DOMAIN jobs =>
                /\ jobs[j] \in JobRecords
                /\ jobs = Put(jobs, j, jobs[j])
                /\ \A r : [jobs EXCEPT ![j] = r] = Put(jobs, j, r)
           /\ pipelines[j].at # "none" =>
                /\ j \in DOMAIN jobs
                /\ jobs[j].embedded = stored[j] + refused[j]
                /\ jobs[j].embedded <= pipelines[j].records
                /\ jobs[j].status \in {"pending", "running"}
                /\ pipelines[j].at \in {"queued", "crawl", "ensure"} => jobs[j].embedded = 0
<1>1. JobTypes /\ JobOK(j)
    BY DEF JobInv
<1>2. pipelines[j] \in Tasks /\ stored[j] \in Nat /\ refused[j] \in Nat
    BY <1>1 DEF JobTypes
<1>3. /\ stored = [stored EXCEPT ![j] = stored[j]]
      /\ refused = [refused EXCEPT ![j] = refused[j]]
    BY <1>1 DEF JobTypes
<1>4. ASSUME j \in DOMAIN jobs
      PROVE  jobs[j] \in JobRecords
    BY <1>1, <1>4 DEF JobOK, Truthful
<1>5. ASSUME j \in DOMAIN jobs
      PROVE  jobs = Put(jobs, j, jobs[j])
    BY <1>1, <1>5 DEF JobTypes, Put
<1>6. ASSUME j \in DOMAIN jobs, NEW r
      PROVE  [jobs EXCEPT ![j] = r] = Put(jobs, j, r)
    <2>1. DOMAIN jobs \cup {j} = DOMAIN jobs
        BY <1>6
    <2> QED BY <2>1, <1>6 DEF Put
<1>7. ASSUME pipelines[j].at # "none"
      PROVE  /\ j \in DOMAIN jobs
             /\ jobs[j].embedded = stored[j] + refused[j]
             /\ jobs[j].embedded <= pipelines[j].records
             /\ jobs[j].status \in {"pending", "running"}
             /\ pipelines[j].at \in {"queued", "crawl", "ensure"} => jobs[j].embedded = 0
    BY <1>1, <1>7 DEF JobOK, Truthful
<1> QED BY <1>2, <1>3, <1>4, <1>5, <1>6, <1>7

\* A step of a pipeline that sends nothing and does not end.
LEMMA LiveStep ==
    ASSUME JobInv, NEW j \in JobIds, NEW r \in JobRecords, NEW p \in Tasks,
           pipelines[j].at # "none",
           JobMoves(j, r, p, stored[j], refused[j]),
           r.embedded = jobs[j].embedded, p.at # "none", p.records >= pipelines[j].records,
           r.status \in {"pending", "running"},
           p.at \in {"queued", "crawl", "ensure"} =>
             pipelines[j].at \in {"queued", "crawl", "ensure"}
    PROVE  JobInv'
<1>1. /\ r.embedded \in Nat /\ p.records \in Nat /\ pipelines[j].records \in Nat
      /\ stored[j] \in Nat /\ refused[j] \in Nat
    BY JobFacts DEF JobRecords, Tasks
<1>2. /\ r.embedded = stored[j] + refused[j] /\ jobs[j].embedded <= pipelines[j].records
      /\ p.at \in {"queued", "crawl", "ensure"} => r.embedded = 0
    BY JobFacts
<1>3. Truthful(r, p, stored[j], refused[j])
    BY <1>1, <1>2 DEF Truthful
<1> QED BY <1>3, OneJobMoves

LEMMA StartScrapeKeeps ==
    ASSUME JobInv, NEW j \in JobIds, StartScrape(j)
    PROVE  JobInv'
<1> DEFINE p == [pipelines[j] EXCEPT !.at = "queued"]
<1>1. p \in Tasks /\ p.at = "queued" /\ p.records \in Nat
    BY JobFacts DEF Tasks
<1>2. stored[j] = 0 /\ refused[j] = 0
    BY JobFacts DEF StartScrape
<1>3. JobMoves(j, Pending, p, stored[j], refused[j])
    BY JobFacts DEF StartScrape, JobMoves
<1>4. Truthful(Pending, p, stored[j], refused[j])
    <2>1. Pending \in JobRecords /\ Pending.embedded = 0 /\ Pending.status = "pending"
        BY DEF Pending, JobRecords
    <2> HIDE DEF p
    <2> QED BY <1>1, <1>2, <2>1 DEF Truthful
<1> HIDE DEF p
<1> QED BY <1>3, <1>4, OneJobMoves

LEMMA WalkKeeps ==
    ASSUME JobInv, NEW j \in JobIds,
           \/ RunScrape(j) \/ EnsureCollection(j) \/ PagesDone(j)
           \/ \E pages \in 0 .. PageBound : CrawlReturns(j, pages)
    PROVE  JobInv'
<1>0. pipelines[j] \in Tasks /\ pipelines[j].at # "none" /\ j \in DOMAIN jobs
    BY JobFacts DEF RunScrape, EnsureCollection, PagesDone, CrawlReturns, JobAt
<1>1. CASE RunScrape(j)
    <2> DEFINE r == [jobs[j] EXCEPT !.status = "running"]
               p == [pipelines[j] EXCEPT !.at = "crawl"]
    <2>1. /\ r \in JobRecords /\ r.embedded = jobs[j].embedded /\ r.status = "running"
        BY <1>0, JobFacts DEF JobRecords
    <2>2. /\ p \in Tasks /\ p.at = "crawl" /\ p.records >= pipelines[j].records
          /\ pipelines[j].at = "queued"
        BY <1>0, <1>1 DEF Tasks, RunScrape, JobAt
    <2>3. JobMoves(j, r, p, stored[j], refused[j])
        BY <1>0, <1>1, JobFacts DEF RunScrape, JobMoves
    <2> HIDE DEF r, p
    <2> QED BY <2>1, <2>2, <2>3, LiveStep
<1>2. ASSUME NEW pages \in 0 .. PageBound, CrawlReturns(j, pages)
      PROVE  JobInv'
    <2> DEFINE r == [jobs[j] EXCEPT !.found = pages]
               p == [pipelines[j] EXCEPT !.at = "ensure", !.left = pages]
    <2>1. /\ r \in JobRecords /\ r.embedded = jobs[j].embedded
          /\ r.status \in {"pending", "running"}
        BY <1>0, JobFacts DEF JobRecords
    <2>2. /\ p \in Tasks /\ p.at = "ensure" /\ p.records >= pipelines[j].records
          /\ pipelines[j].at = "crawl"
        <3>1. pages \in Nat /\ pipelines[j].records \in Nat
            BY <1>0 DEF Tasks
        <3>2. p.at = "ensure" /\ p.records = pipelines[j].records
            BY <1>0 DEF Tasks
        <3>3. p \in Tasks
            BY <1>0, <3>1 DEF Tasks
        <3>4. pipelines[j].at = "crawl"
            BY <1>2 DEF CrawlReturns, JobAt
        <3> HIDE DEF p
        <3> QED BY <3>1, <3>2, <3>3, <3>4
    <2>3. JobMoves(j, r, p, stored[j], refused[j])
        <3>1. jobs' = [jobs EXCEPT ![j] = r]
            BY <1>2 DEF CrawlReturns
        <3>2. pipelines' = [pipelines EXCEPT ![j] = p]
            BY <1>2 DEF CrawlReturns
        <3>3. UNCHANGED <<stored, refused>>
            BY <1>2 DEF CrawlReturns
        <3> HIDE DEF r, p
        <3> QED BY <1>0, <3>1, <3>2, <3>3, JobFacts DEF JobMoves
    <2> HIDE DEF r, p
    <2> QED BY <2>1, <2>2, <2>3, LiveStep
<1>3. CASE EnsureCollection(j) \/ PagesDone(j)
    <2>1. PICK l \in {"pages", "store"} : pipelines' = [pipelines EXCEPT ![j].at = l]
        BY <1>3 DEF EnsureCollection, PagesDone
    <2> DEFINE p == [pipelines[j] EXCEPT !.at = l]
    <2>2. p \in Tasks /\ p.at = l /\ p.records >= pipelines[j].records
        BY <1>0 DEF Tasks
    <2>3. JobMoves(j, jobs[j], p, stored[j], refused[j])
        BY <1>0, <1>3, <2>1, JobFacts DEF EnsureCollection, PagesDone, JobMoves
    <2> HIDE DEF p
    <2>4. jobs[j] \in JobRecords /\ jobs[j].status \in {"pending", "running"}
        BY <1>0, JobFacts
    <2> QED BY <1>0, <2>2, <2>3, <2>4, LiveStep
<1> QED BY <1>1, <1>2, <1>3

LEMMA PageKeeps ==
    ASSUME JobInv, NEW j \in JobIds,
           BadPage(j) \/ \E n \in 0 .. ChunkBound : ScrapePage(j, n)
    PROVE  JobInv'
<1>0. /\ pipelines[j] \in Tasks /\ pipelines[j].at = "pages" /\ j \in DOMAIN jobs
      /\ pipelines[j].left > 0
      /\ jobs[j] \in JobRecords /\ jobs[j].status \in {"pending", "running"}
    BY JobFacts DEF BadPage, ScrapePage, JobAt
<1>1. CASE BadPage(j)
    <2> DEFINE p == [pipelines[j] EXCEPT !.left = @ - 1]
    <2>1. p \in Tasks /\ p.at = "pages" /\ p.records >= pipelines[j].records
        BY <1>0 DEF Tasks
    <2>2. PICK r \in {jobs[j], [jobs[j] EXCEPT !.errors = @ + 1]} : jobs' = Put(jobs, j, r)
        BY <1>0, <1>1, JobFacts DEF BadPage
    <2>3. /\ r \in JobRecords /\ r.embedded = jobs[j].embedded /\ r.status = jobs[j].status
        BY <1>0, <2>2 DEF JobRecords
    <2>4. JobMoves(j, r, p, stored[j], refused[j])
        <3>1. pipelines' = [pipelines EXCEPT ![j] = p] /\ UNCHANGED <<stored, refused>>
            BY <1>1 DEF BadPage
        <3> HIDE DEF p
        <3> QED BY <2>2, <3>1, JobFacts DEF JobMoves
    <2> HIDE DEF p
    <2> QED BY <1>0, <2>1, <2>3, <2>4, LiveStep
<1>2. ASSUME NEW n \in 0 .. ChunkBound, ScrapePage(j, n)
      PROVE  JobInv'
    <2> DEFINE r == [jobs[j] EXCEPT !.scraped = @ + 1]
               p == [pipelines[j] EXCEPT !.left = @ - 1, !.records = @ + n]
    <2>1. /\ r \in JobRecords /\ r.embedded = jobs[j].embedded /\ r.status = jobs[j].status
        BY <1>0 DEF JobRecords
    <2>2. p \in Tasks /\ p.at = "pages" /\ p.records >= pipelines[j].records
        <3>1. /\ n \in Nat /\ pipelines[j].records + n \in Nat /\ pipelines[j].left - 1 \in Nat
              /\ pipelines[j].records \in Nat
            BY <1>0 DEF Tasks
        <3>2. p.at = "pages" /\ p.records = pipelines[j].records + n
            BY <1>0 DEF Tasks
        <3>3. p \in Tasks
            BY <1>0, <3>1 DEF Tasks
        <3> HIDE DEF p
        <3> QED BY <3>1, <3>2, <3>3
    <2>3. JobMoves(j, r, p, stored[j], refused[j])
        <3>1. jobs' = [jobs EXCEPT ![j] = r]
            BY <1>2 DEF ScrapePage
        <3>2. pipelines' = [pipelines EXCEPT ![j] = p] /\ UNCHANGED <<stored, refused>>
            BY <1>2 DEF ScrapePage
        <3> HIDE DEF r, p
        <3> QED BY <1>0, <3>1, <3>2, JobFacts DEF JobMoves
    <2> HIDE DEF r, p
    <2> QED BY <1>0, <2>1, <2>2, <2>3, LiveStep
<1> QED BY <1>1, <1>2

LEMMA StoreBatchKeeps ==
    ASSUME JobInv, NEW j \in JobIds, StoreBatch(j)
    PROVE  JobInv'
<1> DEFINE r == [jobs[j] EXCEPT !.embedded = NextStored(j)]
<1>1. /\ MoreBatches(j) /\ pipelines[j] \in Tasks /\ pipelines[j].at = "store"
      /\ stored[j] \in Nat /\ refused[j] \in Nat
    BY JobFacts DEF StoreBatch, MoreBatches, JobAt
<1>2. /\ j \in DOMAIN jobs /\ jobs[j] \in JobRecords
      /\ jobs[j].embedded = stored[j] + refused[j]
      /\ jobs[j].status \in {"pending", "running"}
    BY <1>1, JobFacts
<1>3. /\ NextStored(j) \in Nat /\ BatchOf(j) \in 1 .. BatchSize
      /\ NextStored(j) <= pipelines[j].records /\ BatchSize \in Nat
      /\ NextStored(j) = jobs[j].embedded + BatchOf(j)
    BY <1>1, BatchSizes, BatchAssumption
<1>4. PICK k \in 0 .. BatchOf(j) :
         /\ stored' = [stored EXCEPT ![j] = stored[j] + k]
         /\ refused' = [refused EXCEPT ![j] = refused[j] + BatchOf(j) - k]
    BY <1>1 DEF StoreBatch
<1>5. /\ r \in JobRecords /\ r.embedded = NextStored(j) /\ r.status = jobs[j].status
    BY <1>2, <1>3 DEF JobRecords
<1>6. /\ stored[j] + k \in Nat /\ refused[j] + BatchOf(j) - k \in Nat
      /\ NextStored(j) = (stored[j] + k) + (refused[j] + BatchOf(j) - k)
    BY <1>1, <1>2, <1>3
<1>7. JobMoves(j, r, pipelines[j], stored[j] + k, refused[j] + BatchOf(j) - k)
    <2>1. jobs' = Put(jobs, j, r) /\ pipelines' = pipelines
        BY <1>2, JobFacts DEF StoreBatch
    <2>2. pipelines = [pipelines EXCEPT ![j] = pipelines[j]]
        BY DEF JobInv, JobTypes
    <2> HIDE DEF r
    <2> QED BY <1>4, <2>1, <2>2 DEF JobMoves
<1>8. Truthful(r, pipelines[j], stored[j] + k, refused[j] + BatchOf(j) - k)
    <2> HIDE DEF r
    <2> QED BY <1>1, <1>2, <1>3, <1>5, <1>6 DEF Truthful
<1> HIDE DEF r
<1> QED BY <1>7, <1>8, OneJobMoves

LEMMA PipelineFailsKeeps ==
    ASSUME JobInv, NEW j \in JobIds, PipelineFails(j)
    PROVE  JobInv'
<1> DEFINE r == [jobs[j] EXCEPT !.status = "failed", !.errors = @ + 1]
<1>1. /\ pipelines[j] \in Tasks /\ pipelines[j].at \in {"crawl", "ensure", "store"}
      /\ stored[j] \in Nat /\ refused[j] \in Nat /\ BatchSize \in Nat
    BY JobFacts, BatchAssumption DEF PipelineFails, MayFail, MoreBatches, JobAt
<1>2. /\ j \in DOMAIN jobs /\ jobs[j] \in JobRecords
      /\ jobs[j].embedded = stored[j] + refused[j]
    BY <1>1, JobFacts
<1>3. /\ r \in JobRecords /\ r.embedded = jobs[j].embedded /\ r.status = "failed"
      /\ r.errors > 0
    <2>1. jobs[j].errors + 1 \in Nat /\ jobs[j].errors + 1 > 0
        BY <1>2 DEF JobRecords
    <2>2. r.embedded = jobs[j].embedded /\ r.status = "failed" /\ r.errors = jobs[j].errors + 1
        BY <1>2 DEF JobRecords
    <2>3. r \in JobRecords
        BY <1>2, <2>1 DEF JobRecords
    <2> HIDE DEF r
    <2> QED BY <2>1, <2>2, <2>3
<1>4. NoTask \in Tasks /\ NoTask.at = "none"
    BY DEF NoTask, Tasks
<1>5. PICK k \in 0 .. BatchSize : stored' = [stored EXCEPT ![j] = stored[j] + k]
    <2>1. CASE stored' = stored
        <3>1. stored[j] + 0 = stored[j] /\ 0 \in 0 .. BatchSize
            BY <1>1
        <3>2. stored' = [stored EXCEPT ![j] = stored[j] + 0]
            BY <2>1, <3>1, JobFacts
        <3> QED BY <3>1, <3>2
    <2>2. ASSUME NEW k \in 1 .. BatchOf(j), JobAt(j, "store"),
                 stored' = [stored EXCEPT ![j] = @ + k]
          PROVE  \E n \in 0 .. BatchSize : stored' = [stored EXCEPT ![j] = stored[j] + n]
        <3>1. MoreBatches(j)
            BY <2>2 DEF PipelineFails, MayFail, JobAt, MoreBatches
        <3>2. k \in 0 .. BatchSize
            BY <1>1, <3>1, BatchSizes
        <3> QED BY <2>2, <3>2
    <2> QED BY <2>1, <2>2 DEF PipelineFails, Arrives
<1>6. /\ stored[j] + k \in Nat
      /\ (stored[j] + k) + refused[j] \in r.embedded .. r.embedded + BatchSize
    BY <1>1, <1>2, <1>3
<1>7. JobMoves(j, r, NoTask, stored[j] + k, refused[j])
    <2>1. jobs' = [jobs EXCEPT ![j] = r]
        BY DEF PipelineFails
    <2>2. pipelines' = [pipelines EXCEPT ![j] = NoTask] /\ refused' = refused
        BY DEF PipelineFails, Arrives
    <2> HIDE DEF r
    <2> QED BY <1>2, <1>5, <2>1, <2>2, JobFacts DEF JobMoves
<1>8. Truthful(r, NoTask, stored[j] + k, refused[j])
    <2> HIDE DEF r
    <2> QED BY <1>1, <1>3, <1>4, <1>6 DEF Truthful
<1> HIDE DEF r
<1> QED BY <1>7, <1>8, OneJobMoves

LEMMA FinishScrapeKeeps ==
    ASSUME JobInv, NEW j \in JobIds, FinishScrape(j)
    PROVE  JobInv'
<1> DEFINE r == [jobs[j] EXCEPT !.status = "done", !.summary = pipelines[j].records]
<1>1. /\ pipelines[j] \in Tasks /\ pipelines[j].at = "store"
      /\ stored[j] \in Nat /\ refused[j] \in Nat
    BY JobFacts DEF FinishScrape, JobAt
<1>2. /\ j \in DOMAIN jobs /\ jobs[j] \in JobRecords
      /\ jobs[j].embedded = stored[j] + refused[j] /\ jobs[j].embedded = pipelines[j].records
    BY <1>1, JobFacts DEF FinishScrape
<1>3. /\ r \in JobRecords /\ r.embedded = jobs[j].embedded /\ r.status = "done"
      /\ r.summary = jobs[j].embedded
    BY <1>1, <1>2 DEF JobRecords, Tasks
<1>4. NoTask \in Tasks /\ NoTask.at = "none"
    BY DEF NoTask, Tasks
<1>5. JobMoves(j, r, NoTask, stored[j], refused[j])
    <2>1. jobs' = [jobs EXCEPT ![j] = r]
        BY DEF FinishScrape
    <2>2. pipelines' = [pipelines EXCEPT ![j] = NoTask] /\ UNCHANGED <<stored, refused>>
        BY DEF FinishScrape
    <2> HIDE DEF r
    <2> QED BY <1>2, <2>1, <2>2, JobFacts DEF JobMoves
<1>6. Truthful(r, NoTask, stored[j], refused[j])
    <2> HIDE DEF r
    <2> QED BY <1>1, <1>2, <1>3, <1>4 DEF Truthful
<1> HIDE DEF r
<1> QED BY <1>5, <1>6, OneJobMoves

LEMMA JobInvNext == JobInv /\ [JobNext]_jobVars => JobInv'
<1> SUFFICES ASSUME JobInv, [JobNext]_jobVars PROVE JobInv'
    OBVIOUS
<1>1. CASE RestartServer
    BY <1>1 DEF RestartServer, JobInv, JobTypes, JobOK, NoTask, Tasks
<1>2. CASE UNCHANGED jobVars
    BY <1>2 DEF jobVars, JobInv, JobTypes, JobOK, Truthful
<1>3. ASSUME NEW j \in JobIds, StartScrape(j) \/ Pipeline(j)
      PROVE  JobInv'
    BY <1>3, StartScrapeKeeps, WalkKeeps, PageKeeps, StoreBatchKeeps, PipelineFailsKeeps,
       FinishScrapeKeeps DEF Pipeline
<1> QED BY <1>1, <1>2, <1>3 DEF JobNext

\* What a job tells is what it has sent (run_scrape_job).
THEOREM JobsReportTruth == JobSpec => []ReportedIsStored
<1>1. JobInv => ReportedIsStored
    <2> SUFFICES ASSUME JobInv, NEW j \in DOMAIN jobs
                 PROVE  LET sent == stored[j] + refused[j] IN
                        /\ jobs[j].embedded <= sent
                        /\ sent <= jobs[j].embedded
                                     + (IF jobs[j].status = "failed" THEN BatchSize ELSE 0)
                        /\ jobs[j].status = "done" => jobs[j].summary = sent /\ JobAt(j, "none")
                        /\ jobs[j].status = "failed" => jobs[j].errors > 0
        BY DEF ReportedIsStored
    <2>1. /\ Truthful(jobs[j], pipelines[j], stored[j], refused[j]) /\ BatchSize \in Nat
        BY BatchAssumption DEF JobInv, JobTypes, JobOK
    <2>2. CASE pipelines[j].at = "none"
        BY <2>1, <2>2 DEF Truthful, JobAt, JobRecords
    <2>3. CASE pipelines[j].at # "none"
        BY <2>1, <2>3 DEF Truthful, JobAt, JobRecords
    <2> QED BY <2>2, <2>3
<1> QED BY <1>1, JobInvInit, JobInvNext, PTL DEF JobSpec

---------------------------------------------------------------------------
(* The requests at the gateway. What is sent anywhere was not denied by    *)
(* the policy, whose rules leave one model that its table places in a      *)
(* cloud; the first model that a request is sent to is the one it names.   *)

RequestRecords ==
  [at : {"model", "tenant", "policy", "approved", "served", "failed", "denied"}, agent : GateAgents \cup {"none"},
   tenant : GateTenants \cup {"none"}, model : Models,
   meta : {NoMeta} \cup Metas, large : BOOLEAN, sent : Seq(Models), down : BOOLEAN, granted : BOOLEAN]

Past == {"approved", "served", "failed"}

Judged(q) ==
  /\ q.at \in Past /\ q.agent # "none" => ~Denies(PolicyInput(q.meta, q.model, q.large))
  /\ q.sent # << >> => q.at \in Past /\ Head(q.sent) = q.model
  /\ q.at = "approved" => Len(q.sent) < Len(Route(q.model))

GateInv == \A r \in DOMAIN requests : requests[r] \in RequestRecords /\ Judged(requests[r])

\* The table of models places the model of the exception with Vertex in the
\* United States.
ExceptionIsAmerican ==
  Fact(ExceptionModel, "provider") = "vertex" /\ Fact(ExceptionModel, "region") = "us-central1"

\* A route begins with the model that is asked for.
LEMMA RouteHasOne ==
    ASSUME NEW m \in Models
    PROVE  /\ Route(m) \in Seq(Models) /\ Len(Route(m)) > Len(<< >>)
           /\ Route(m)[1] = m
<1>1. PICK f \in Seq(Models) : Route(m) = <<m>> \o f
    <2>1. CASE m \in DOMAIN Fallbacks
        <3>1. Fallbacks[m] \in Seq(Models)
            BY <2>1, FallbacksAssumption
        <3>2. Route(m) = <<m>> \o Fallbacks[m]
            BY <2>1, Zenon DEF Route
        <3> QED BY <3>1, <3>2, Zenon
    <2>2. CASE m \notin DOMAIN Fallbacks
        <3>1. Route(m) = <<m>> \o << >>
            BY <2>2, Zenon DEF Route
        <3>2. << >> \in Seq(Models)
            OBVIOUS
        <3> QED BY <3>1, <3>2, Zenon
    <2> QED BY <2>1, <2>2
<1> QED BY <1>1

LEMMA ArrivalsAreJudgedLater ==
    ASSUME GateInv, NEW r \in RequestIds,
           NEW q \in RequestRecords, q.at \in Past => q.agent = "none", q.sent = << >>,
           requests' = Put(requests, r, q)
    PROVE  GateInv'
<1>1. Judged(q)
    BY RouteHasOne DEF Judged, RequestRecords
<1> QED BY <1>1 DEF GateInv, Put

LEMMA MovesAreJudged ==
    ASSUME GateInv, NEW r \in DOMAIN requests, requests[r].at \notin Past,
           NEW place \in {"tenant", "policy", "approved", "denied"}, Goes(r, place),
           place = "approved" =>
             ~Denies(PolicyInput(requests[r].meta, requests[r].model, requests[r].large))
    PROVE  GateInv'
<1>1. requests[r] \in RequestRecords
    BY DEF GateInv
<1> DEFINE q == [requests[r] EXCEPT !.at = place]
<1>2. /\ q \in RequestRecords /\ q.at = place /\ q.meta = requests[r].meta
      /\ q.model = requests[r].model /\ q.large = requests[r].large
      /\ q.sent = requests[r].sent /\ q.model \in Models
    BY <1>1 DEF RequestRecords
<1>5. requests[r].sent = << >>
    BY DEF GateInv, Judged
<1>3. requests' = [requests EXCEPT ![r] = q]
    BY DEF Goes
<1> HIDE DEF q
<1>4. Judged(q)
    BY <1>2, <1>5, RouteHasOne DEF Judged, Past
<1> QED BY <1>2, <1>3, <1>4 DEF GateInv

LEMMA SendsAreJudged ==
    ASSUME GateInv, NEW r \in RequestIds, Send(r)
    PROVE  GateInv'
<1> DEFINE old == requests[r]
           route == Route(old.model)
           next == Len(old.sent) + 1
<1>1. /\ r \in DOMAIN requests /\ old \in RequestRecords /\ Judged(old)
      /\ old.at = "approved"
    BY DEF Send, AtGate, GateInv
<1>2. old.model \in Models /\ old.sent \in Seq(Models) /\ Len(old.sent) \in Nat
    BY <1>1 DEF RequestRecords
<1>3. /\ route \in Seq(Models) /\ route[1] = old.model
      /\ next \in 1 .. Len(route) /\ route[next] \in Models
    <2>1. route \in Seq(Models) /\ route[1] = old.model
        BY <1>2, RouteHasOne
    <2>2. Len(old.sent) < Len(route)
        BY <1>1 DEF Judged
    <2> HIDE DEF route, old
    <2>3. Len(route) \in Nat /\ \A i \in 1 .. Len(route) : route[i] \in Models
        BY <2>1
    <2>4. next \in 1 .. Len(route)
        BY <1>2, <2>2, <2>3
    <2> QED BY <2>1, <2>3, <2>4
<1>4. PICK at \in {"served", IF next < Len(route) THEN "approved" ELSE "failed"} :
        requests' = [requests EXCEPT ![r].at = at, ![r].sent = Append(@, route[next])]
    BY DEF Send
<1> DEFINE q == [old EXCEPT !.at = at, !.sent = Append(@, route[next])]
<1>5. at \in Past /\ (at = "approved" => next < Len(route))
    BY <1>4 DEF Past
<1>6. /\ q \in RequestRecords /\ q.at = at /\ q.sent = Append(old.sent, route[next])
      /\ q.model = old.model /\ q.meta = old.meta /\ q.large = old.large /\ q.agent = old.agent
    <2>1. Append(old.sent, route[next]) \in Seq(Models)
        BY <1>2, <1>3
    <2> HIDE DEF route, next
    <2> QED BY <1>1, <1>5, <2>1 DEF RequestRecords, Past
<1>7. requests' = [requests EXCEPT ![r] = q]
    BY <1>1, <1>4
<1>8. Len(q.sent) = next /\ Head(q.sent) = old.model
    <2>1. Len(q.sent) = next
        BY <1>2, <1>6
    <2>2. CASE old.sent = << >>
        BY <1>3, <1>6, <2>2
    <2>3. CASE old.sent # << >>
        BY <1>1, <1>2, <1>6, <2>3 DEF Judged
    <2> QED BY <2>1, <2>2, <2>3
<1>9. Judged(q)
    <2> HIDE DEF q
    <2> QED BY <1>1, <1>5, <1>6, <1>8 DEF Judged, Past
<1> HIDE DEF q
<1> QED BY <1>1, <1>6, <1>7, <1>9 DEF GateInv

LEMMA GateInvInit == GateInit => GateInv
BY DEF GateInit, GateInv

LEMMA GateInvNext == GateInv /\ [GateNext]_gateVars => GateInv'
<1> SUFFICES ASSUME GateInv, [GateNext]_gateVars PROVE GateInv'
    OBVIOUS
<1>1. ASSUME NEW r \in RequestIds, NEW a \in GateAgents, NEW n \in GateTenants \cup {"none"},
             NEW m \in Models, NEW large \in BOOLEAN, NEW meta \in Metas,
             Arrive(r, a, n, m, meta, large)
      PROVE  GateInv'
    <2> DEFINE q == [at |-> "model", agent |-> a, tenant |-> n, model |-> m, meta |-> meta,
                     large |-> large, sent |-> << >>, down |-> FALSE,
                     granted |-> Granted(a, m) \in tuples]
    <2>1. q \in RequestRecords /\ q.at = "model" /\ q.sent = << >>
        BY <1>1 DEF RequestRecords
    <2>2. requests' = Put(requests, r, q)
        BY <1>1 DEF Arrive
    <2> HIDE DEF q
    <2> QED BY <2>1, <2>2, ArrivalsAreJudgedLater DEF Past
<1>2. ASSUME NEW r \in RequestIds, NEW m \in Models, ArriveWithoutAgent(r, m)
      PROVE  GateInv'
    <2> DEFINE q == [at |-> "approved", agent |-> "none", tenant |-> "none", model |-> m,
                     meta |-> NoMeta, large |-> FALSE, sent |-> << >>, down |-> FALSE, granted |-> FALSE]
    <2>1. q \in RequestRecords /\ q.agent = "none" /\ q.sent = << >>
        BY <1>2 DEF RequestRecords
    <2>2. requests' = Put(requests, r, q)
        BY <1>2 DEF ArriveWithoutAgent
    <2> HIDE DEF q
    <2> QED BY <2>1, <2>2, ArrivalsAreJudgedLater
<1>3. ASSUME NEW r \in RequestIds, CheckModel(r) \/ CheckTenant(r)
      PROVE  GateInv'
    <2>1. r \in DOMAIN requests /\ requests[r].at \notin Past
        BY <1>3 DEF CheckModel, CheckTenant, AtGate, Past
    <2>2. PICK place \in {"tenant", "policy", "denied"} : Goes(r, place)
        BY <1>3 DEF CheckModel, CheckTenant, AfterModel
    <2> QED BY <2>1, <2>2, MovesAreJudged
<1>4. ASSUME NEW r \in RequestIds, ServiceDown(r)
      PROVE  GateInv'
    <2>1. /\ r \in DOMAIN requests /\ requests[r] \in RequestRecords
          /\ requests[r].sent = << >>
        BY <1>4 DEF ServiceDown, GateInv, Judged, Past
    <2> DEFINE q == [requests[r] EXCEPT !.at = "denied", !.down = TRUE]
    <2>2. q \in RequestRecords /\ q.at = "denied" /\ q.sent = << >>
        BY <2>1 DEF RequestRecords
    <2>3. requests' = [requests EXCEPT ![r] = q]
        BY <1>4 DEF ServiceDown
    <2> HIDE DEF q
    <2> QED BY <2>2, <2>3 DEF GateInv, Judged, Past
<1>5. ASSUME NEW r \in RequestIds, AskPolicy(r)
      PROVE  GateInv'
    <2>1. r \in DOMAIN requests /\ requests[r].at \notin Past
        BY <1>5 DEF AskPolicy, AtGate, Past
    <2>2. CASE Denies(PolicyInput(requests[r].meta, requests[r].model, requests[r].large))
        <3>1. Goes(r, "denied")
            BY <1>5, <2>2 DEF AskPolicy
        <3> QED BY <2>1, <3>1, MovesAreJudged
    <2>3. CASE ~Denies(PolicyInput(requests[r].meta, requests[r].model, requests[r].large))
        <3>1. Goes(r, "approved")
            BY <1>5, <2>3 DEF AskPolicy
        <3> QED BY <2>1, <2>3, <3>1, MovesAreJudged
    <2> QED BY <2>2, <2>3
<1>6. ASSUME NEW t \in Candidates, RevokeTuple(t)
      PROVE  GateInv'
    <2> SUFFICES ASSUME NEW r \in DOMAIN requests
                 PROVE  requests'[r] \in RequestRecords /\ Judged(requests'[r])
        BY <1>6 DEF RevokeTuple, GateInv
    <2>1. requests[r] \in RequestRecords /\ Judged(requests[r])
        BY DEF GateInv
    <2>2. CASE requests'[r] = requests[r]
        BY <2>1, <2>2
    <2>3. CASE requests'[r] = [requests[r] EXCEPT !.granted = FALSE]
        <3>1. requests'[r] \in RequestRecords
            BY <2>1, <2>3 DEF RequestRecords
        <3>2. /\ requests'[r].at = requests[r].at /\ requests'[r].agent = requests[r].agent
              /\ requests'[r].meta = requests[r].meta /\ requests'[r].model = requests[r].model
              /\ requests'[r].large = requests[r].large /\ requests'[r].sent = requests[r].sent
            BY <2>1, <2>3 DEF RequestRecords
        <3> QED BY <2>1, <3>1, <3>2 DEF Judged
    <2> QED BY <1>6, <2>2, <2>3 DEF RevokeTuple
<1>7. ASSUME UNCHANGED requests
      PROVE  GateInv'
    BY <1>7 DEF GateInv
<1>8. ASSUME NEW r \in RequestIds, Send(r)
      PROVE  GateInv'
    BY <1>8, SendsAreJudged
<1> QED BY <1>1, <1>2, <1>3, <1>4, <1>5, <1>6, <1>7, <1>8 DEF GateNext, gateVars, GrantTuple

\* Of the models that the table places in a cloud only the one of the exception is
\* sent an agent's request that names it, only under the name of the one agent and
\* without what the hook sees flagged as personal data. Models outside the table
\* and the fallbacks of the router are not covered (opa_middleware.py,
\* opa/policy.rego).
THEOREM CloudIsTheException ==
    ASSUME ExceptionIsAmerican
    PROVE  GateSpec => []CloudNeedsException
<1>1. GateInv => CloudNeedsException
    <2> SUFFICES ASSUME GateInv, NEW r \in DOMAIN requests,
                        requests[r].agent # "none", requests[r].sent # << >>
                 PROVE  /\ Head(requests[r].sent) = requests[r].model
                        /\ Cloud(requests[r].model) =>
                             /\ ~requests[r].meta.pii
                             /\ requests[r].model = ExceptionModel
                             /\ requests[r].meta.name = ExceptionAgent
        BY DEF CloudNeedsException
    <2>a. Head(requests[r].sent) = requests[r].model
        BY DEF GateInv, Judged
    <2>b. SUFFICES ASSUME Cloud(requests[r].model)
                   PROVE  /\ ~requests[r].meta.pii
                          /\ requests[r].model = ExceptionModel
                          /\ requests[r].meta.name = ExceptionAgent
        BY <2>a
    <2> DEFINE in == PolicyInput(requests[r].meta, requests[r].model, requests[r].large)
    <2>1. ~Denies(in)
        BY DEF GateInv, Judged
    <2>2. /\ in.pii = requests[r].meta.pii /\ in.model = requests[r].model
          /\ in.name = requests[r].meta.name /\ in.localHealthy = TRUE
        BY DEF PolicyInput
    <2> HIDE DEF in
    <2>3. in.model = ExceptionModel /\ in.name = ExceptionAgent
        BY <2>b, <2>1, <2>2 DEF Denies, CloudException
    <2>4. ~in.pii
        BY <2>1, <2>3 DEF Denies, ExceptionIsAmerican
    <2> QED BY <2>2, <2>3, <2>4
<1> QED BY <1>1, GateInvInit, GateInvNext, PTL DEF GateSpec

---------------------------------------------------------------------------
(* The tasks of the AutoGPT bridge. The counter of a task may be set back, *)
(* but it never runs ahead of the work: what was recorded, and what was    *)
(* counted and is yet to be, only grows, and no counter that was read or   *)
(* written exceeds it.                                                     *)

Worth(o) == tasks[o].recorded + Cardinality(InIteration(o))

TaskCalls ==
  {Idle} \cup [at : {"asked", "checked", "counted", "recorded"},
               obj : DOMAIN tasks, loop : BOOLEAN]
         \cup [at : {"read"}, obj : DOMAIN tasks, loop : BOOLEAN, seen : Nat]

WorkInv ==
  /\ AutoTypeOK
  /\ \A o \in DOMAIN tasks : tasks[o].iterations <= Worth(o)
  /\ \A t \in Threads, o \in DOMAIN tasks :
       At(taskCall, t, "read") /\ Held(t) = o => taskCall[t].seen <= Worth(o)
  /\ \A o \in told : tasks[o].max <= Worth(o)

LEMMA InIterationIsFinite ==
    ASSUME NEW o
    PROVE  IsFiniteSet(InIteration(o)) /\ Cardinality(InIteration(o)) \in Nat
<1>1. InIteration(o) \subseteq Threads
    BY DEF InIteration
<1> QED BY <1>1, ThreadsAssumption, FS_Subset, FS_CardinalityType

LEMMA WorthIsNat ==
    ASSUME AutoTypeOK, NEW o \in DOMAIN tasks
    PROVE  /\ tasks[o].recorded \in Nat /\ tasks[o].iterations \in Nat /\ tasks[o].max \in Nat
           /\ Worth(o) \in Nat
<1>1. /\ tasks[o].recorded \in Nat /\ tasks[o].iterations \in Nat /\ tasks[o].max \in Nat
    BY RoundsAssumption DEF AutoTypeOK
<1> QED BY <1>1, InIterationIsFinite DEF Worth

\* Who is in an iteration when the request of one thread moves.
LEMMA IterationMoves ==
    ASSUME AutoTypeOK, NEW t \in Threads, NEW c, NEW o,
           taskCall' = [taskCall EXCEPT ![t] = c]
    PROVE  InIteration(o)' = IF c.at = "counted" /\ c.obj = o THEN InIteration(o) \cup {t}
                             ELSE InIteration(o) \ {t}
<1>1. /\ taskCall'[t] = c
      /\ \A u \in Threads : u # t => taskCall'[u] = taskCall[u]
    BY DEF AutoTypeOK
<1>2. \A u \in Threads : u \in InIteration(o) <=> taskCall[u].at = "counted" /\ taskCall[u].obj = o
    BY DEF InIteration, At, Held
<1>3. \A u \in Threads :
        u \in InIteration(o)' <=> taskCall'[u].at = "counted" /\ taskCall'[u].obj = o
    BY DEF InIteration, At, Held
<1>4. InIteration(o) \subseteq Threads /\ InIteration(o)' \subseteq Threads
    BY DEF InIteration
<1> QED BY <1>1, <1>2, <1>3, <1>4

LEMMA IterationStays ==
    ASSUME AutoTypeOK, NEW t \in Threads, NEW c, NEW o,
           taskCall' = [taskCall EXCEPT ![t] = c], ~At(taskCall, t, "counted"), c.at # "counted"
    PROVE  InIteration(o)' = InIteration(o)
<1>1. InIteration(o) \ {t} = InIteration(o)
    BY DEF InIteration
<1>2. InIteration(o)' = InIteration(o) \ {t}
    BY IterationMoves
<1> QED BY <1>1, <1>2

LEMMA WorkInvInit == AutoInit => WorkInv
BY DEF AutoInit, WorkInv, AutoTypeOK, AllIdle, Idle, At

\* A step that keeps the counters, and the requests that have read one.
LEMMA CalmStep ==
    ASSUME WorkInv, NEW t \in Threads, NEW c \in TaskCalls,
           taskCall' = [taskCall EXCEPT ![t] = c], ~At(taskCall, t, "counted"), c.at # "counted",
           c.at = "read" => c.seen <= Worth(c.obj),
           UNCHANGED <<taskNamed, tasks>>, calls' \in Nat,
           told' \in {told, told \cup {Held(t)}},
           told' # told => Held(t) \in DOMAIN tasks /\ Exhausted(Held(t))
    PROVE  WorkInv'
<1>0. AutoTypeOK
    BY DEF WorkInv
<1>1. \A o : Worth(o)' = Worth(o)
    BY <1>0, IterationStays DEF Worth
<1>2. AutoTypeOK'
    BY <1>0 DEF AutoTypeOK, TaskCalls
<1>3. ASSUME NEW u \in Threads, NEW o \in DOMAIN tasks, taskCall'[u].at = "read",
             taskCall'[u].obj = o
      PROVE  taskCall'[u].seen <= Worth(o)'
    <2>1. CASE u = t
        BY <1>0, <1>1, <1>3, <2>1 DEF AutoTypeOK
    <2>2. CASE u # t
        BY <1>0, <1>1, <1>3, <2>2 DEF AutoTypeOK, At, WorkInv, Held
    <2> QED BY <2>1, <2>2
<1>4. \A o \in told' : tasks'[o].max <= Worth(o)'
    <2> SUFFICES ASSUME NEW o \in told' PROVE tasks[o].max <= Worth(o)
        BY <1>1
    <2>1. CASE o \in told
        BY <2>1 DEF WorkInv
    <2>2. CASE o \notin told
        <3>1. o = Held(t) /\ o \in DOMAIN tasks /\ tasks[o].iterations >= tasks[o].max
            BY <2>2 DEF Exhausted
        <3>2. tasks[o].iterations <= Worth(o)
            BY <3>1 DEF WorkInv
        <3> QED BY <1>0, <3>1, <3>2, WorthIsNat
    <2> QED BY <2>1, <2>2
<1> QED BY <1>1, <1>2, <1>3, <1>4 DEF WorkInv, At, Held

LEMMA CreateTaskKeeps ==
    ASSUME WorkInv, NEW t \in Threads, NEW k \in TaskNames, NEW m \in Rounds, CreateTask(t, k, m)
    PROVE  WorkInv'
<1>0. AutoTypeOK
    BY DEF WorkInv
<1> DEFINE new == [iterations |-> 0, max |-> m, recorded |-> 0]
<1>1. PICK o \in Objects \ DOMAIN tasks :
         tasks' = Put(tasks, o, new) /\ taskNamed' = Put(taskNamed, k, o)
    BY DEF CreateTask
<1>2. new \in [iterations : Nat, max : Rounds, recorded : Nat] /\ new.iterations = 0
      /\ new.recorded = 0
    OBVIOUS
<1> HIDE DEF new
<1>3. /\ DOMAIN tasks' = DOMAIN tasks \cup {o} /\ tasks'[o] = new
      /\ \A p \in DOMAIN tasks : tasks'[p] = tasks[p]
    BY <1>1 DEF Put
<1>4. /\ DOMAIN taskNamed' = DOMAIN taskNamed \cup {k} /\ taskNamed'[k] = o
      /\ \A n \in DOMAIN taskNamed : n # k => taskNamed'[n] = taskNamed[n]
    BY <1>1 DEF Put
<1>5. UNCHANGED <<taskCall, told, calls>>
    BY DEF CreateTask
<1>6. AutoTypeOK'
    BY <1>0, <1>2, <1>3, <1>4, <1>5 DEF AutoTypeOK
<1>7. \A p : InIteration(p)' = InIteration(p)
    BY <1>5 DEF InIteration, At, Held
<1>8. \A p \in DOMAIN tasks : Worth(p)' = Worth(p) /\ tasks'[p] = tasks[p]
    BY <1>3, <1>7 DEF Worth
<1>9. new.iterations <= Worth(o)'
    BY <1>2, <1>3, <1>6, WorthIsNat, InIterationIsFinite, <1>7 DEF Worth
<1>10. \A u \in Threads : At(taskCall, u, "read") => Held(u) \in DOMAIN tasks
    BY <1>0 DEF AutoTypeOK, At, Held, Idle
<1>11. told \subseteq DOMAIN tasks
    BY <1>0 DEF AutoTypeOK
<1> QED BY <1>3, <1>5, <1>6, <1>8, <1>9, <1>10, <1>11 DEF WorkInv, At, Held

LEMMA WriteCounterKeeps ==
    ASSUME WorkInv, NEW t \in Threads, WriteCounter(t)
    PROVE  WorkInv'
<1>0. AutoTypeOK
    BY DEF WorkInv
<1>a. PICK h \in DOMAIN tasks : h = Held(t)
    BY <1>0 DEF WriteCounter, At, AutoTypeOK, Held, Idle
<1> DEFINE c == [at |-> "counted", obj |-> h, loop |-> taskCall[t].loop]
           r == [tasks[h] EXCEPT !.iterations = taskCall[t].seen + 1]
<1>1. /\ taskCall[t].seen \in Nat /\ taskCall[t].loop \in BOOLEAN
      /\ ~At(taskCall, t, "counted") /\ taskCall[t].seen <= Worth(h)
    BY <1>0, <1>a DEF WriteCounter, At, AutoTypeOK, Held, Idle, WorkInv
<1>2. /\ c \in TaskCalls /\ c.at = "counted" /\ c.obj = h
    BY <1>1 DEF TaskCalls
<1>3. /\ r \in [iterations : Nat, max : Rounds, recorded : Nat]
      /\ r.iterations = taskCall[t].seen + 1 /\ r.max = tasks[h].max
      /\ r.recorded = tasks[h].recorded
    BY <1>0, <1>1 DEF AutoTypeOK
<1>4. /\ taskCall' = [taskCall EXCEPT ![t] = c] /\ tasks' = [tasks EXCEPT ![h] = r]
      /\ UNCHANGED <<taskNamed, told, calls>>
    BY <1>a DEF WriteCounter
<1> HIDE DEF c, r
<1>5. AutoTypeOK'
    BY <1>0, <1>1, <1>2, <1>3, <1>4 DEF AutoTypeOK, TaskCalls
<1>6. Worth(h)' = Worth(h) + 1
    <2>1. t \notin InIteration(h)
        BY <1>1 DEF InIteration
    <2>2. InIteration(h)' = InIteration(h) \cup {t}
        BY <1>0, <1>2, <1>4, IterationMoves
    <2>3. Cardinality(InIteration(h)') = Cardinality(InIteration(h)) + 1
        BY <2>1, <2>2, InIterationIsFinite, FS_AddElement
    <2>4. tasks'[h].recorded = tasks[h].recorded
        BY <1>1, <1>3, <1>4
    <2> QED BY <1>0, <1>1, <2>3, <2>4, WorthIsNat, InIterationIsFinite DEF Worth
<1>7. \A o \in DOMAIN tasks : o # h => Worth(o)' = Worth(o) /\ tasks'[o] = tasks[o]
    <2> SUFFICES ASSUME NEW o \in DOMAIN tasks, o # h
                 PROVE  Worth(o)' = Worth(o) /\ tasks'[o] = tasks[o]
        OBVIOUS
    <2>1. t \notin InIteration(o)
        BY <1>1 DEF InIteration
    <2>2. InIteration(o)' = InIteration(o) \ {t}
        BY <1>0, <1>2, <1>4, IterationMoves
    <2>3. InIteration(o)' = InIteration(o)
        BY <2>1, <2>2
    <2> QED BY <1>4, <2>3 DEF Worth
<1>8. Worth(h) \in Nat /\ tasks[h].max \in Nat
    BY <1>0, <1>1, WorthIsNat
<1>9. \A o \in DOMAIN tasks' : tasks'[o].iterations <= Worth(o)'
    BY <1>1, <1>3, <1>4, <1>6, <1>7, <1>8 DEF WorkInv
<1>10. ASSUME NEW u \in Threads, NEW o \in DOMAIN tasks, taskCall'[u].at = "read",
              taskCall'[u].obj = o
       PROVE  taskCall'[u].seen <= Worth(o)'
    <2>1. u # t /\ taskCall'[u] = taskCall[u]
        BY <1>0, <1>2, <1>4, <1>10 DEF AutoTypeOK
    <2>2. taskCall[u].seen \in Nat /\ taskCall[u].seen <= Worth(o)
        BY <1>0, <1>10, <2>1 DEF At, AutoTypeOK, Idle, WorkInv, Held
    <2>3. CASE o = h
        BY <1>6, <1>8, <2>1, <2>2, <2>3
    <2>4. CASE o # h
        BY <1>7, <2>1, <2>2, <2>4
    <2> QED BY <2>3, <2>4
<1>11. \A o \in told' : tasks'[o].max <= Worth(o)'
    <2> SUFFICES ASSUME NEW o \in told PROVE tasks'[o].max <= Worth(o)'
        BY <1>4
    <2>1. o \in DOMAIN tasks /\ tasks[o].max <= Worth(o)
        BY <1>0 DEF AutoTypeOK, WorkInv
    <2>2. CASE o = h
        BY <1>1, <1>3, <1>4, <1>6, <1>8, <2>1, <2>2
    <2>3. CASE o # h
        BY <1>7, <2>1, <2>3
    <2> QED BY <2>2, <2>3
<1>12. DOMAIN tasks' = DOMAIN tasks
    BY <1>4
<1> QED BY <1>5, <1>9, <1>10, <1>11, <1>12 DEF WorkInv, At, Held

LEMMA RecordResultsKeeps ==
    ASSUME WorkInv, NEW t \in Threads, RecordResults(t)
    PROVE  WorkInv'
<1>0. AutoTypeOK
    BY DEF WorkInv
<1>a. PICK h \in DOMAIN tasks : h = Held(t)
    BY <1>0 DEF RecordResults, At, AutoTypeOK, Held, Idle
<1> DEFINE c == [taskCall[t] EXCEPT !.at = IF taskCall[t].loop THEN "asked" ELSE "recorded"]
           r == [tasks[h] EXCEPT !.recorded = @ + 1]
<1>1. /\ taskCall[t].at = "counted" /\ taskCall[t].obj = h
      /\ taskCall[t] \in [at : {"asked", "checked", "counted", "recorded"},
                          obj : DOMAIN tasks, loop : BOOLEAN]
    BY <1>0, <1>a DEF RecordResults, At, AutoTypeOK, Held, Idle
<1>2. /\ c \in TaskCalls /\ c.at \in {"asked", "recorded"}
    BY <1>1 DEF TaskCalls
<1>3. /\ r \in [iterations : Nat, max : Rounds, recorded : Nat]
      /\ r.iterations = tasks[h].iterations /\ r.max = tasks[h].max
      /\ r.recorded = tasks[h].recorded + 1
    BY <1>0, <1>1 DEF AutoTypeOK
<1>4. /\ taskCall' = [taskCall EXCEPT ![t] = c] /\ tasks' = [tasks EXCEPT ![h] = r]
      /\ UNCHANGED <<taskNamed, told, calls>>
    BY <1>a DEF RecordResults, Goto
<1> HIDE DEF c, r
<1>5. AutoTypeOK'
    BY <1>0, <1>1, <1>2, <1>3, <1>4 DEF AutoTypeOK, TaskCalls
<1>6. t \in InIteration(h) /\ \A o : o # h => t \notin InIteration(o)
    BY <1>1 DEF InIteration, At, Held
<1>7. Worth(h)' = Worth(h)
    <2>1. InIteration(h)' = InIteration(h) \ {t}
        BY <1>0, <1>2, <1>4, IterationMoves
    <2>2. Cardinality(InIteration(h)') = Cardinality(InIteration(h)) - 1
        BY <1>6, <2>1, InIterationIsFinite, FS_RemoveElement
    <2>3. tasks'[h].recorded = tasks[h].recorded + 1
        BY <1>1, <1>3, <1>4
    <2>4. tasks[h].recorded \in Nat
        BY <1>0, <1>1, WorthIsNat
    <2> QED BY <2>2, <2>3, <2>4, InIterationIsFinite DEF Worth
<1>8. \A o \in DOMAIN tasks : o # h => Worth(o)' = Worth(o) /\ tasks'[o] = tasks[o]
    <2> SUFFICES ASSUME NEW o \in DOMAIN tasks, o # h
                 PROVE  Worth(o)' = Worth(o) /\ tasks'[o] = tasks[o]
        OBVIOUS
    <2>1. InIteration(o)' = InIteration(o) \ {t}
        BY <1>0, <1>2, <1>4, IterationMoves
    <2>2. InIteration(o)' = InIteration(o)
        BY <1>6, <2>1
    <2> QED BY <1>4, <2>2 DEF Worth
<1>9. \A o \in DOMAIN tasks : /\ Worth(o)' = Worth(o) /\ tasks'[o].iterations = tasks[o].iterations
                              /\ tasks'[o].max = tasks[o].max
    BY <1>1, <1>3, <1>4, <1>7, <1>8
<1>10. ASSUME NEW u \in Threads, NEW o \in DOMAIN tasks, taskCall'[u].at = "read",
              taskCall'[u].obj = o
       PROVE  taskCall'[u].seen <= Worth(o)'
    <2>1. u # t /\ taskCall'[u] = taskCall[u]
        BY <1>0, <1>2, <1>4, <1>10 DEF AutoTypeOK
    <2>2. taskCall[u].seen <= Worth(o)
        BY <1>10, <2>1 DEF At, WorkInv, Held
    <2> QED BY <1>9, <2>1, <2>2
<1>11. DOMAIN tasks' = DOMAIN tasks /\ told \subseteq DOMAIN tasks
    BY <1>0, <1>4 DEF AutoTypeOK
<1> QED BY <1>4, <1>5, <1>9, <1>10, <1>11 DEF WorkInv, At, Held

LEMMA WorkInvNext == WorkInv /\ [AutoNext]_autoVars => WorkInv'
<1> SUFFICES ASSUME WorkInv, [AutoNext]_autoVars PROVE WorkInv'
    OBVIOUS
<1>0. AutoTypeOK
    BY DEF WorkInv
<1>1. ASSUME NEW t \in Threads, NEW k \in TaskNames, NEW loop \in BOOLEAN, StartWork(t, k, loop)
      PROVE  WorkInv'
    <2> DEFINE c == [at |-> "asked", obj |-> taskNamed[k], loop |-> loop]
    <2>1. c \in TaskCalls /\ c.at = "asked"
        BY <1>0, <1>1 DEF StartWork, TaskCalls, AutoTypeOK
    <2>2. /\ taskCall' = [taskCall EXCEPT ![t] = c] /\ ~At(taskCall, t, "counted")
          /\ UNCHANGED <<taskNamed, tasks>> /\ calls' \in Nat /\ told' = told
        BY <1>0, <1>1 DEF StartWork, At, AutoTypeOK
    <2> HIDE DEF c
    <2> QED BY <2>1, <2>2, CalmStep
<1>2. ASSUME NEW t \in Threads, Enough(t) \/ AnswerRound(t)
      PROVE  WorkInv'
    <2>1. /\ taskCall' = [taskCall EXCEPT ![t] = Idle] /\ ~At(taskCall, t, "counted")
          /\ UNCHANGED <<taskNamed, tasks>> /\ calls' \in Nat
          /\ told' \in {told, told \cup {Held(t)}}
        BY <1>0, <1>2 DEF Enough, AnswerRound, Answer, At, AutoTypeOK
    <2>2. Held(t) \in DOMAIN tasks
        BY <1>0, <1>2 DEF Enough, AnswerRound, At, AutoTypeOK, Held, Idle
    <2>3. told' # told => Exhausted(Held(t))
        BY <1>2 DEF Enough, AnswerRound
    <2>4. Idle \in TaskCalls /\ Idle.at = "idle"
        BY DEF TaskCalls, Idle
    <2> QED BY <2>1, <2>2, <2>3, <2>4, CalmStep
<1>3. ASSUME NEW t \in Threads, GoAhead(t)
      PROVE  WorkInv'
    <2> DEFINE c == [taskCall[t] EXCEPT !.at = "checked"]
    <2>1. c \in TaskCalls /\ c.at = "checked"
        BY <1>0, <1>3 DEF GoAhead, At, AutoTypeOK, TaskCalls, Idle
    <2>2. /\ taskCall' = [taskCall EXCEPT ![t] = c] /\ ~At(taskCall, t, "counted")
          /\ UNCHANGED <<taskNamed, tasks>> /\ calls' \in Nat /\ told' = told
        BY <1>0, <1>3 DEF GoAhead, Goto, At, AutoTypeOK
    <2> HIDE DEF c
    <2> QED BY <2>1, <2>2, CalmStep
<1>4. ASSUME NEW t \in Threads, ReadCounter(t)
      PROVE  WorkInv'
    <2> DEFINE c == [at |-> "read", obj |-> Held(t), loop |-> taskCall[t].loop,
                     seen |-> tasks[Held(t)].iterations]
    <2>1. Held(t) \in DOMAIN tasks /\ taskCall[t].loop \in BOOLEAN
        BY <1>0, <1>4 DEF ReadCounter, At, AutoTypeOK, Held, Idle
    <2>2. c \in TaskCalls /\ c.at = "read" /\ c.seen <= Worth(c.obj)
        BY <1>0, <2>1, WorthIsNat DEF TaskCalls, WorkInv
    <2>3. /\ taskCall' = [taskCall EXCEPT ![t] = c] /\ ~At(taskCall, t, "counted")
          /\ UNCHANGED <<taskNamed, tasks>> /\ calls' \in Nat /\ told' = told
        BY <1>0, <1>4 DEF ReadCounter, At, AutoTypeOK
    <2> HIDE DEF c
    <2> QED BY <2>2, <2>3, CalmStep
<1>5. CASE CloseTasks
    BY <1>0, <1>5 DEF CloseTasks, WorkInv, AutoTypeOK, AllIdle, Idle, At
<1>6. CASE UNCHANGED autoVars
    BY <1>6 DEF autoVars, WorkInv, AutoTypeOK, Worth, InIteration, At, Held
<1> QED BY <1>1, <1>2, <1>3, <1>4, <1>5, <1>6, CreateTaskKeeps, WriteCounterKeeps,
           RecordResultsKeeps DEF AutoNext, WorkNext

\* Whoever is told that a task is completed, it was worked on as often as it was
\* to be (autogpt_bridge.py, task_execute and task_run).
THEOREM CompletedTasksWereWorked == AutoSpec => []CompletedMeansWorked
<1>1. WorkInv => CompletedMeansWorked
    <2> SUFFICES ASSUME WorkInv, NEW o \in told
                 PROVE  tasks[o].recorded + Cardinality(InIteration(o)) >= tasks[o].max
        BY DEF CompletedMeansWorked
    <2>1. AutoTypeOK /\ o \in DOMAIN tasks /\ tasks[o].max <= Worth(o)
        BY DEF WorkInv, AutoTypeOK
    <2> QED BY <2>1, WorthIsNat DEF Worth
<1> QED BY <1>1, WorkInvInit, WorkInvNext, PTL DEF AutoSpec

---------------------------------------------------------------------------
(* The collections of the scraping sidecar. The id of what a job has       *)
(* embedded is in its collection or still to be stored, and it has never   *)
(* embedded more than it counted. Nothing is assumed of the ids.           *)

Chunks == SitePages \X Nat

Tables == [exists : BOOLEAN, indexed : BOOLEAN, chunks : SUBSET Chunks]

IndexRecords ==
  [status : {"queued", "crawling", "extracting", "embedding", "storing", "failed", "complete"},
   collection : Collections, rag_ready : BOOLEAN, total_chunks : Nat]

IndexTaskRecords ==
  [at : {"none", "queued", "crawl", "setup", "pages", "embed", "store"},
   left : SUBSET SitePages, page : SitePages \cup {"none"}, total : Nat, todo : SUBSET Chunks]

Unstored(p) == IF p.at = "store" THEN p.todo ELSE {}
Counting(p) == IF p.at = "embed" THEN Cardinality(p.todo) ELSE 0

\* A job j with record r and task p that has embedded e into the table c, when the
\* jobs s set their collections up and nobody deleted them since.
Shows(j, r, p, e, s, c) ==
  /\ r \in IndexRecords /\ p \in IndexTaskRecords
  /\ e \subseteq Chunks /\ IsFiniteSet(e)
  /\ p.at \in {"queued", "crawl", "setup"} => e = {} /\ j \notin s /\ p.total = 0
  /\ p.at = "embed" => IsFiniteSet(p.todo)
  /\ p.at \in {"pages", "embed", "store"} => Cardinality(e) + Counting(p) <= p.total
  /\ r.rag_ready => p.at = "none" /\ Cardinality(e) <= r.total_chunks
  /\ j \in s /\ (p.at # "none" \/ r.rag_ready) =>
       c.indexed /\ \A k \in e \ Unstored(p) : RecordId[k] \in IdsOf(c.chunks)

IndexInv ==
  /\ collections \in [Collections -> Tables]
  /\ DOMAIN indexJobs \subseteq IndexJobs /\ intact \subseteq DOMAIN indexJobs
  /\ indexJobs = [j \in DOMAIN indexJobs |-> indexJobs[j]]
  /\ indexTasks = [j \in IndexJobs |-> indexTasks[j]]
  /\ embeddedBy = [j \in IndexJobs |-> embeddedBy[j]]
  /\ \A j \in IndexJobs \ DOMAIN indexJobs : indexTasks[j] = NoIndexTask /\ embeddedBy[j] = {}
  /\ \A j \in DOMAIN indexJobs :
       /\ Shows(j, indexJobs[j], indexTasks[j], embeddedBy[j], intact, collections[Into(j)])

\* Tables that are only added to.
Grown == \A c \in Collections : /\ collections[c].indexed => collections'[c].indexed
                                /\ IdsOf(collections[c].chunks) \subseteq IdsOf(collections'[c].chunks)

\* To store a chunk adds its id and takes none away.
LEMMA UpsertIds ==
    ASSUME NEW S, NEW k, NEW T,
           \A m : m \in T <=> m = k \/ (m \in S /\ RecordId[m] # RecordId[k])
    PROVE  IdsOf(S) \subseteq IdsOf(T) /\ RecordId[k] \in IdsOf(T)
BY DEF IdsOf

LEMMA ShowsGrown ==
    ASSUME NEW r, NEW p, NEW e, NEW j, NEW s, NEW c, NEW d, Shows(j, r, p, e, s, c),
           c.indexed => d.indexed, IdsOf(c.chunks) \subseteq IdsOf(d.chunks)
    PROVE  Shows(j, r, p, e, s, d)
BY DEF Shows

LEMMA IndexInvInit == IndexInit => IndexInv
BY DEF IndexInit, IndexInv, Tables, NoTable

\* A step of job j alone.
LEMMA OneIndexMoves ==
    ASSUME IndexInv, NEW j \in IndexJobs, NEW r, NEW p, NEW e, NEW s, NEW c,
           indexJobs' = [k \in DOMAIN indexJobs' |-> indexJobs'[k]],
           DOMAIN indexJobs' = DOMAIN indexJobs \cup {j}, indexJobs'[j] = r,
           \A k \in DOMAIN indexJobs : k # j => indexJobs'[k] = indexJobs[k],
           indexTasks' = [indexTasks EXCEPT ![j] = p],
           embeddedBy' = [embeddedBy EXCEPT ![j] = e],
           \A k \in IndexJobs : k # j => (k \in intact' <=> k \in intact),
           s = intact', intact' \subseteq IndexJobs,
           collections' \in [Collections -> Tables], Grown,
           c = collections'[r.collection], Shows(j, r, p, e, s, c)
    PROVE  IndexInv'
<1>1. intact' \subseteq DOMAIN indexJobs' /\ DOMAIN indexJobs' \subseteq IndexJobs
    BY DEF IndexInv
<1>2. /\ indexTasks' = [k \in IndexJobs |-> indexTasks'[k]] /\ indexTasks'[j] = p
      /\ embeddedBy' = [k \in IndexJobs |-> embeddedBy'[k]] /\ embeddedBy'[j] = e
      /\ \A k \in IndexJobs : k # j => /\ indexTasks'[k] = indexTasks[k]
                                       /\ embeddedBy'[k] = embeddedBy[k]
    BY DEF IndexInv
<1>3. \A k \in IndexJobs \ DOMAIN indexJobs' : indexTasks'[k] = NoIndexTask /\ embeddedBy'[k] = {}
    BY <1>2 DEF IndexInv
<1>4. Shows(j, indexJobs'[j], indexTasks'[j], embeddedBy'[j], intact', collections'[indexJobs'[j].collection])
    BY <1>2
<1>5. ASSUME NEW k \in DOMAIN indexJobs, k # j
      PROVE  Shows(k, indexJobs'[k], indexTasks'[k], embeddedBy'[k], intact',
                   collections'[indexJobs'[k].collection])
    <2>1. Shows(k, indexJobs[k], indexTasks[k], embeddedBy[k], intact,
                collections[indexJobs[k].collection])
        BY DEF IndexInv, Into
    <2>2. indexJobs[k].collection \in Collections
        BY <2>1 DEF Shows, IndexRecords
    <2>3. Shows(k, indexJobs[k], indexTasks[k], embeddedBy[k], intact,
                collections'[indexJobs[k].collection])
        BY <2>1, <2>2, ShowsGrown DEF Grown
    <2>4. /\ indexJobs'[k] = indexJobs[k] /\ indexTasks'[k] = indexTasks[k]
          /\ embeddedBy'[k] = embeddedBy[k] /\ (k \in intact' <=> k \in intact)
        BY <1>2, <1>5 DEF IndexInv
    <2> QED BY <2>3, <2>4 DEF Shows
<1>6. \A k \in DOMAIN indexJobs' :
        Shows(k, indexJobs'[k], indexTasks'[k], embeddedBy'[k], intact',
              collections'[indexJobs'[k].collection])
    BY <1>4, <1>5
<1> QED BY <1>1, <1>2, <1>3, <1>6 DEF IndexInv, Into

\* What is known of a job that is under way.
LEMMA IndexFacts ==
    ASSUME IndexInv, NEW j \in IndexJobs, indexTasks[j].at # "none"
    PROVE  /\ j \in DOMAIN indexJobs /\ indexJobs[j] \in IndexRecords
           /\ indexTasks[j] \in IndexTaskRecords /\ Into(j) \in Collections
           /\ embeddedBy[j] \subseteq Chunks /\ collections[Into(j)] \in Tables
           /\ Shows(j, indexJobs[j], indexTasks[j], embeddedBy[j], intact, collections[Into(j)])
<1>1. j \in DOMAIN indexJobs
    BY DEF IndexInv, NoIndexTask
<1>2. Shows(j, indexJobs[j], indexTasks[j], embeddedBy[j], intact, collections[Into(j)])
    BY <1>1 DEF IndexInv
<1>3. indexJobs[j] \in IndexRecords /\ indexTasks[j] \in IndexTaskRecords /\ embeddedBy[j] \subseteq Chunks
    BY <1>2 DEF Shows
<1>4. Into(j) \in Collections
    BY <1>3 DEF IndexRecords, Into
<1> QED BY <1>1, <1>2, <1>3, <1>4 DEF IndexInv

\* Its next step, when the collections stay as they are.
LEMMA QuietIndexStep ==
    ASSUME IndexInv, NEW j \in IndexJobs, indexTasks[j].at # "none", NEW r, NEW p, NEW e,
           indexJobs' = [indexJobs EXCEPT ![j] = r], indexTasks' = [indexTasks EXCEPT ![j] = p],
           embeddedBy' = [embeddedBy EXCEPT ![j] = e], UNCHANGED <<collections, intact>>,
           r.collection = Into(j),
           Shows(j, r, p, e, intact, collections[Into(j)])
    PROVE  IndexInv'
<1>1. j \in DOMAIN indexJobs
    BY IndexFacts
<1>2. PICK c : c = collections[Into(j)]
    OBVIOUS
<1>3. PICK s : s = intact
    OBVIOUS
<1>4. Shows(j, r, p, e, s, c)
    BY <1>2, <1>3 DEF Shows
<1>5. indexJobs' = [k \in DOMAIN indexJobs' |-> indexJobs'[k]]
    BY <1>1
<1>6. DOMAIN indexJobs' = DOMAIN indexJobs \cup {j}
    BY <1>1
<1>7. indexJobs'[j] = r
    BY <1>1
<1>8. \A k \in DOMAIN indexJobs : k # j => indexJobs'[k] = indexJobs[k]
    BY <1>1
<1>9. s = intact'
    BY <1>3
<1>10. \A k \in IndexJobs : k # j => (k \in intact' <=> k \in intact)
    OBVIOUS
<1>11. c = collections'[r.collection]
    BY <1>2
<1>12. Grown
    BY DEF Grown
<1>13. collections' \in [Collections -> Tables]
    BY DEF IndexInv
<1>14. intact' \subseteq IndexJobs
    BY DEF IndexInv
<1> QED BY <1>4, <1>5, <1>6, <1>7, <1>8, <1>9, <1>10, <1>11, <1>12, <1>13, <1>14, OneIndexMoves

LEMMA RequestIndexKeeps ==
    ASSUME IndexInv, NEW j \in IndexJobs, NEW n \in Collections, RequestIndex(j, n)
    PROVE  IndexInv'
<1> DEFINE r == [status |-> "queued", collection |-> n, rag_ready |-> FALSE, total_chunks |-> 0]
           p == [NoIndexTask EXCEPT !.at = "queued"]
<1>1. /\ indexJobs' = Put(indexJobs, j, r) /\ j \notin DOMAIN indexJobs
      /\ UNCHANGED <<collections, intact, embeddedBy>>
    BY DEF RequestIndex
<1>2. indexTasks[j] = NoIndexTask /\ embeddedBy[j] = {} /\ j \notin intact
    BY <1>1 DEF IndexInv
<1>3. indexTasks' = [indexTasks EXCEPT ![j] = p] /\ embeddedBy' = [embeddedBy EXCEPT ![j] = {}]
    BY <1>1, <1>2 DEF RequestIndex, IndexInv
<1>4. r \in IndexRecords /\ r.rag_ready = FALSE /\ r.collection = n
    BY DEF IndexRecords
<1>5. p \in IndexTaskRecords /\ p.at = "queued" /\ p.total = 0
    BY DEF IndexTaskRecords, NoIndexTask
<1> HIDE DEF r, p
<1>6. /\ indexJobs' = [k \in DOMAIN indexJobs' |-> indexJobs'[k]]
      /\ DOMAIN indexJobs' = DOMAIN indexJobs \cup {j} /\ indexJobs'[j] = r
      /\ \A k \in DOMAIN indexJobs : k # j => indexJobs'[k] = indexJobs[k]
    BY <1>1 DEF Put
<1>7. PICK c : c = collections[n]
    OBVIOUS
<1>9. Grown /\ collections' \in [Collections -> Tables] /\ intact' \subseteq IndexJobs
    BY <1>1 DEF Grown, IndexInv
<1>i. PICK s : s = intact
    OBVIOUS
<1>8. Shows(j, r, p, {}, s, c)
    BY <1>2, <1>4, <1>5, <1>i, FS_EmptySet DEF Shows
<1>10. /\ c = collections'[r.collection] /\ s = intact'
       /\ \A k \in IndexJobs : k # j => (k \in intact' <=> k \in intact)
    BY <1>1, <1>2, <1>4, <1>7, <1>i
<1> QED BY <1>3, <1>6, <1>8, <1>9, <1>10, OneIndexMoves

\* The steps that neither store nor embed.
LEMMA IndexWalkKeeps ==
    ASSUME IndexInv, NEW j \in IndexJobs,
           \/ RunPipeline(j) \/ PassPage(j) \/ PageStored(j) \/ IndexCompletes(j)
           \/ \E pages \in Sites[j] : CrawledSite(j, pages)
    PROVE  IndexInv'
<1>0. indexTasks[j].at # "none"
    BY DEF RunPipeline, PassPage, PageStored, IndexCompletes, CrawledSite, IndexAt
<1>f. /\ j \in DOMAIN indexJobs /\ indexJobs[j] \in IndexRecords
      /\ indexTasks[j] \in IndexTaskRecords
      /\ Shows(j, indexJobs[j], indexTasks[j], embeddedBy[j], intact, collections[Into(j)])
    BY <1>0, IndexFacts
<1>e. embeddedBy' = [embeddedBy EXCEPT ![j] = embeddedBy[j]] /\ UNCHANGED <<collections, intact>>
    BY DEF RunPipeline, PassPage, PageStored, IndexCompletes, CrawledSite, IndexInv
<1>i. indexJobs = [indexJobs EXCEPT ![j] = indexJobs[j]] /\ indexJobs[j].collection = Into(j)
    BY DEF Into, IndexInv
<1>1. CASE RunPipeline(j)
    <2> DEFINE r == [indexJobs[j] EXCEPT !.status = "crawling"]
               p == [indexTasks[j] EXCEPT !.at = "crawl"]
    <2>1. indexJobs' = [indexJobs EXCEPT ![j] = r] /\ indexTasks' = [indexTasks EXCEPT ![j] = p]
        BY <1>1 DEF RunPipeline
    <2>2. /\ r \in IndexRecords /\ r.collection = Into(j) /\ r.rag_ready = indexJobs[j].rag_ready
          /\ p \in IndexTaskRecords /\ p.at = "crawl" /\ p.total = indexTasks[j].total
        BY <1>f DEF IndexRecords, IndexTaskRecords, Into
    <2> HIDE DEF r, p
    <2>3. Shows(j, r, p, embeddedBy[j], intact, collections[Into(j)])
        BY <1>1, <1>f, <2>2 DEF RunPipeline, IndexAt, Shows
    <2> QED BY <1>0, <1>e, <2>1, <2>2, <2>3, QuietIndexStep
<1>2. ASSUME NEW pages \in Sites[j], CrawledSite(j, pages)
      PROVE  IndexInv'
    <2>0. pages \in SUBSET SitePages
        BY SitesAssumption
    <2> DEFINE r == [indexJobs[j] EXCEPT !.status = "extracting"]
               p == [indexTasks[j] EXCEPT !.at = "setup", !.left = pages]
    <2>1. indexJobs' = [indexJobs EXCEPT ![j] = r] /\ indexTasks' = [indexTasks EXCEPT ![j] = p]
        BY <1>2 DEF CrawledSite
    <2>2. /\ r \in IndexRecords /\ r.collection = Into(j) /\ r.rag_ready = indexJobs[j].rag_ready
          /\ p \in IndexTaskRecords /\ p.at = "setup" /\ p.total = indexTasks[j].total
        BY <1>f, <2>0 DEF IndexRecords, IndexTaskRecords, Into
    <2> HIDE DEF r, p
    <2>3. Shows(j, r, p, embeddedBy[j], intact, collections[Into(j)])
        BY <1>2, <1>f, <2>2 DEF CrawledSite, IndexAt, Shows
    <2> QED BY <1>0, <1>e, <2>1, <2>2, <2>3, QuietIndexStep
<1>3. CASE PassPage(j)
    <2>1. PICK q \in indexTasks[j].left : indexTasks' = [indexTasks EXCEPT ![j].left = @ \ {q}]
        BY <1>3 DEF PassPage
    <2> DEFINE p == [indexTasks[j] EXCEPT !.left = @ \ {q}]
    <2>2. indexTasks' = [indexTasks EXCEPT ![j] = p] /\ indexJobs' = [indexJobs EXCEPT ![j] = indexJobs[j]]
        BY <1>3, <1>i, <2>1 DEF PassPage
    <2>3. /\ p \in IndexTaskRecords /\ p.at = indexTasks[j].at /\ p.total = indexTasks[j].total
          /\ p.todo = indexTasks[j].todo
        BY <1>f DEF IndexTaskRecords
    <2> HIDE DEF p
    <2>4. Shows(j, indexJobs[j], p, embeddedBy[j], intact, collections[Into(j)])
        BY <1>f, <2>3 DEF Shows, Unstored, Counting
    <2> QED BY <1>0, <1>e, <1>i, <2>2, <2>4, QuietIndexStep
<1>4. CASE PageStored(j)
    <2> DEFINE p == [indexTasks[j] EXCEPT !.at = "pages", !.page = "none"]
    <2>1. indexTasks' = [indexTasks EXCEPT ![j] = p] /\ indexJobs' = [indexJobs EXCEPT ![j] = indexJobs[j]]
        BY <1>4, <1>i DEF PageStored
    <2>2. /\ p \in IndexTaskRecords /\ p.at = "pages" /\ p.total = indexTasks[j].total
          /\ indexTasks[j].at = "store" /\ indexTasks[j].todo = {}
        BY <1>4, <1>f DEF IndexTaskRecords, PageStored, IndexAt
    <2> HIDE DEF p
    <2>3. Shows(j, indexJobs[j], p, embeddedBy[j], intact, collections[Into(j)])
        BY <1>f, <2>2 DEF Shows, Unstored, Counting
    <2> QED BY <1>0, <1>e, <1>i, <2>1, <2>3, QuietIndexStep
<1>5. CASE IndexCompletes(j)
    <2> DEFINE r == [indexJobs[j] EXCEPT !.status = "complete", !.rag_ready = TRUE,
                                         !.total_chunks = indexTasks[j].total]
    <2>1. indexJobs' = [indexJobs EXCEPT ![j] = r]
          /\ indexTasks' = [indexTasks EXCEPT ![j] = NoIndexTask]
        BY <1>5 DEF IndexCompletes
    <2>2. /\ r \in IndexRecords /\ r.collection = Into(j) /\ r.total_chunks = indexTasks[j].total
          /\ indexTasks[j].at = "pages"
        BY <1>5, <1>f DEF IndexRecords, IndexTaskRecords, Into, IndexCompletes, IndexAt
    <2>3. NoIndexTask \in IndexTaskRecords /\ NoIndexTask.at = "none"
        BY DEF NoIndexTask, IndexTaskRecords
    <2> HIDE DEF r
    <2>4. Cardinality(embeddedBy[j]) <= r.total_chunks
        BY <1>f, <2>2, FS_CardinalityType DEF Shows, Counting
    <2>5. j \in intact => /\ collections[Into(j)].indexed
                          /\ \A k \in embeddedBy[j] : RecordId[k] \in IdsOf(collections[Into(j)].chunks)
        BY <1>f, <2>2 DEF Shows, Unstored
    <2>6. Shows(j, r, NoIndexTask, embeddedBy[j], intact, collections[Into(j)])
        BY <1>f, <2>2, <2>3, <2>4, <2>5 DEF Shows, Unstored
    <2> QED BY <1>0, <1>e, <2>1, <2>2, <2>6, QuietIndexStep
<1> QED BY <1>1, <1>2, <1>3, <1>4, <1>5

\* A step of a job that adds to its collection.
LEMMA StoringStep ==
    ASSUME IndexInv, NEW j \in IndexJobs, indexTasks[j].at # "none", NEW r, NEW p, NEW e, NEW w,
           indexJobs' = [indexJobs EXCEPT ![j] = r], indexTasks' = [indexTasks EXCEPT ![j] = p],
           embeddedBy' = [embeddedBy EXCEPT ![j] = e],
           intact' \in {intact, intact \cup {j}},
           collections' = [collections EXCEPT ![Into(j)] = w], w \in Tables,
           collections[Into(j)].indexed => w.indexed,
           IdsOf(collections[Into(j)].chunks) \subseteq IdsOf(w.chunks),
           r.collection = Into(j),
           Shows(j, r, p, e, intact', w)
    PROVE  IndexInv'
<1>1. j \in DOMAIN indexJobs /\ Into(j) \in Collections
    BY IndexFacts
<1>2. PICK s : s = intact'
    OBVIOUS
<1>3. Shows(j, r, p, e, s, w)
    BY <1>2
<1>4. indexJobs' = [k \in DOMAIN indexJobs' |-> indexJobs'[k]]
    BY <1>1
<1>5. DOMAIN indexJobs' = DOMAIN indexJobs \cup {j}
    BY <1>1
<1>6. indexJobs'[j] = r
    BY <1>1
<1>7. \A k \in DOMAIN indexJobs : k # j => indexJobs'[k] = indexJobs[k]
    BY <1>1
<1>8. \A k \in IndexJobs : k # j => (k \in intact' <=> k \in intact)
    OBVIOUS
<1>9. w = collections'[r.collection]
    BY <1>1 DEF IndexInv
<1>10. Grown
    BY <1>1 DEF Grown, IndexInv
<1>11. collections' \in [Collections -> Tables]
    BY DEF IndexInv
<1>12. intact' \subseteq IndexJobs
    BY DEF IndexInv
<1> QED BY <1>2, <1>3, <1>4, <1>5, <1>6, <1>7, <1>8, <1>9, <1>10, <1>11, <1>12, OneIndexMoves

LEMMA SetupKeeps ==
    ASSUME IndexInv, NEW j \in IndexJobs, SetupCollection(j)
    PROVE  IndexInv'
<1>0. indexTasks[j].at # "none" /\ indexTasks[j].at = "setup"
    BY DEF SetupCollection, IndexAt
<1>f. /\ j \in DOMAIN indexJobs /\ indexJobs[j] \in IndexRecords /\ Into(j) \in Collections
      /\ indexTasks[j] \in IndexTaskRecords /\ collections[Into(j)] \in Tables
      /\ Shows(j, indexJobs[j], indexTasks[j], embeddedBy[j], intact, collections[Into(j)])
    BY <1>0, IndexFacts
<1> DEFINE p == [indexTasks[j] EXCEPT !.at = "pages"]
           w == [collections[Into(j)] EXCEPT !.exists = TRUE, !.indexed = TRUE]
<1>1. /\ indexTasks' = [indexTasks EXCEPT ![j] = p]
      /\ indexJobs' = [indexJobs EXCEPT ![j] = indexJobs[j]] /\ indexJobs[j].collection = Into(j)
      /\ embeddedBy' = [embeddedBy EXCEPT ![j] = embeddedBy[j]]
    BY DEF SetupCollection, IndexInv, Into
<1>2. /\ p \in IndexTaskRecords /\ p.at = "pages" /\ p.total = indexTasks[j].total
      /\ w \in Tables /\ w.indexed = TRUE /\ w.chunks = collections[Into(j)].chunks
    BY <1>f DEF IndexTaskRecords, Tables
<1>3. embeddedBy[j] = {} /\ p.total = 0 /\ j \notin intact
    BY <1>0, <1>f, <1>2 DEF Shows
<1>4. Cardinality(embeddedBy[j]) = 0
    BY <1>3, FS_EmptySet
<1>5. CASE DefineIn(Into(j)) /\ intact' = intact \cup {j}
    <2>1. collections' = [collections EXCEPT ![Into(j)] = w]
        BY <1>f, <1>5 DEF DefineIn
    <2> HIDE DEF p, w
    <2>2. Shows(j, indexJobs[j], p, embeddedBy[j], intact', w)
        BY <1>0, <1>f, <1>2, <1>3, <1>4 DEF Shows, Unstored, Counting
    <2>3. /\ collections[Into(j)].indexed => w.indexed
          /\ IdsOf(collections[Into(j)].chunks) \subseteq IdsOf(w.chunks)
        BY <1>2
    <2> QED BY <1>0, <1>1, <1>2, <1>5, <2>1, <2>2, <2>3, StoringStep
<1>6. CASE UNCHANGED <<collections, intact>>
    <2> HIDE DEF p, w
    <2>1. Shows(j, indexJobs[j], p, embeddedBy[j], intact, collections[Into(j)])
        BY <1>0, <1>f, <1>2, <1>3, <1>4 DEF Shows, Unstored, Counting
    <2> QED BY <1>0, <1>1, <1>6, <2>1, QuietIndexStep
<1> QED BY <1>5, <1>6 DEF SetupCollection

\* A page has no more chunks than it is cut into.
LEMMA ChunksOfPage ==
    ASSUME NEW p \in SitePages, NEW n \in Nat
    PROVE  LET todo == {<<p, i>> : i \in 0 .. n - 1}
           IN  todo \subseteq Chunks /\ IsFiniteSet(todo) /\ Cardinality(todo) <= n
<1> DEFINE todo == {<<p, i>> : i \in 0 .. n - 1}
           f == [i \in 0 .. n - 1 |-> <<p, i>>]
<1>1. IsFiniteSet(0 .. n - 1) /\ Cardinality(0 .. n - 1) = n
    BY FS_Interval
<1>2. f \in Surjection(0 .. n - 1, todo)
    BY DEF Surjection
<1> HIDE DEF f, todo
<1>3. IsFiniteSet(todo) /\ Cardinality(todo) <= n
    BY <1>1, <1>2, FS_Surjection
<1>4. todo \subseteq Chunks
    BY DEF todo, Chunks
<1> QED BY <1>3, <1>4 DEF todo

LEMMA TakePageKeeps ==
    ASSUME IndexInv, NEW j \in IndexJobs, NEW q \in SitePages, NEW n \in ChunkCounts[q],
           TakePage(j, q, n)
    PROVE  IndexInv'
<1>0. indexTasks[j].at # "none" /\ indexTasks[j].at = "pages"
    BY DEF TakePage, IndexAt
<1>f. /\ j \in DOMAIN indexJobs /\ indexJobs[j] \in IndexRecords
      /\ indexTasks[j] \in IndexTaskRecords
      /\ Shows(j, indexJobs[j], indexTasks[j], embeddedBy[j], intact, collections[Into(j)])
    BY <1>0, IndexFacts
<1>n. n \in Nat
    BY ChunkCountsAssumption
<1> DEFINE todo == {<<q, i>> : i \in 0 .. n - 1}
           r == [indexJobs[j] EXCEPT !.status = "embedding"]
           p == [indexTasks[j] EXCEPT !.at = "embed", !.left = @ \ {q}, !.page = q,
                                      !.total = @ + n, !.todo = todo]
<1>1. todo \subseteq Chunks /\ IsFiniteSet(todo) /\ Cardinality(todo) <= n
    BY <1>n, ChunksOfPage
<1>2. /\ indexJobs' = [indexJobs EXCEPT ![j] = r] /\ indexTasks' = [indexTasks EXCEPT ![j] = p]
      /\ embeddedBy' = [embeddedBy EXCEPT ![j] = embeddedBy[j]] /\ UNCHANGED <<collections, intact>>
    BY DEF TakePage, IndexInv
<1> HIDE DEF todo
<1>a. r \in IndexRecords /\ r.collection = Into(j) /\ r.rag_ready = indexJobs[j].rag_ready
    BY <1>f DEF IndexRecords, Into
<1>b. p \in IndexTaskRecords
    <2>1. /\ indexTasks[j].left \ {q} \in SUBSET SitePages /\ indexTasks[j].total + n \in Nat
          /\ todo \in SUBSET Chunks
        BY <1>f, <1>n, <1>1 DEF IndexTaskRecords
    <2> DEFINE u == [indexTasks[j] EXCEPT !.at = "embed", !.left = @ \ {q}, !.page = q]
               v == [u EXCEPT !.total = @ + n, !.todo = todo]
    <2>2. u \in IndexTaskRecords /\ u.total = indexTasks[j].total
        BY <1>f, <2>1 DEF IndexTaskRecords
    <2> HIDE DEF u
    <2>3. v \in IndexTaskRecords
        BY <2>1, <2>2 DEF IndexTaskRecords
    <2>4. p = v
        BY <1>f DEF IndexTaskRecords, u
    <2> QED BY <2>3, <2>4
<1>c. p.at = "embed" /\ p.total = indexTasks[j].total + n /\ p.todo = todo
    BY <1>f DEF IndexTaskRecords
<1>3. /\ r \in IndexRecords /\ r.collection = Into(j) /\ r.rag_ready = indexJobs[j].rag_ready
      /\ p \in IndexTaskRecords /\ p.at = "embed" /\ p.total = indexTasks[j].total + n
      /\ p.todo = todo
    BY <1>a, <1>b, <1>c
<1> HIDE DEF r, p
<1>4. Cardinality(embeddedBy[j]) + Cardinality(todo) <= p.total
    <2>1. Cardinality(embeddedBy[j]) <= indexTasks[j].total /\ Cardinality(embeddedBy[j]) \in Nat
        BY <1>0, <1>f, FS_CardinalityType DEF Shows, Counting
    <2>2. Cardinality(todo) \in Nat /\ indexTasks[j].total \in Nat
        BY <1>1, <1>f, FS_CardinalityType DEF IndexTaskRecords
    <2> QED BY <1>1, <1>3, <1>n, <2>1, <2>2
<1>5. Shows(j, r, p, embeddedBy[j], intact, collections[Into(j)])
    BY <1>0, <1>1, <1>f, <1>3, <1>4 DEF Shows, Unstored, Counting
<1> QED BY <1>0, <1>2, <1>3, <1>5, QuietIndexStep

LEMMA EmbedPageKeeps ==
    ASSUME IndexInv, NEW j \in IndexJobs, EmbedPage(j)
    PROVE  IndexInv'
<1>0. indexTasks[j].at # "none" /\ indexTasks[j].at = "embed"
    BY DEF EmbedPage, IndexAt
<1>f. /\ j \in DOMAIN indexJobs /\ indexJobs[j] \in IndexRecords
      /\ indexTasks[j] \in IndexTaskRecords /\ embeddedBy[j] \subseteq Chunks
      /\ Shows(j, indexJobs[j], indexTasks[j], embeddedBy[j], intact, collections[Into(j)])
    BY <1>0, IndexFacts
<1> DEFINE r == [indexJobs[j] EXCEPT !.status = "storing"]
           todo == indexTasks[j].todo
<1>1. /\ indexJobs' = [indexJobs EXCEPT ![j] = r] /\ UNCHANGED <<collections, intact>>
      /\ r \in IndexRecords /\ r.collection = Into(j) /\ r.rag_ready = indexJobs[j].rag_ready
    BY <1>f DEF EmbedPage, IndexRecords, Into
<1>2. /\ IsFiniteSet(todo) /\ IsFiniteSet(embeddedBy[j])
      /\ Cardinality(embeddedBy[j]) + Cardinality(todo) <= indexTasks[j].total
    BY <1>0, <1>f DEF Shows, Counting
<1>3. Cardinality(embeddedBy[j]) \in Nat /\ Cardinality(todo) \in Nat /\ indexTasks[j].total \in Nat
    BY <1>2, <1>f, FS_CardinalityType DEF IndexTaskRecords
<1> HIDE DEF r
<1>4. CASE /\ indexTasks' = [indexTasks EXCEPT ![j].at = "store"]
           /\ embeddedBy' = [embeddedBy EXCEPT ![j] = @ \cup indexTasks[j].todo]
    <2> DEFINE p == [indexTasks[j] EXCEPT !.at = "store"]
               e == embeddedBy[j] \cup todo
    <2>1. indexTasks' = [indexTasks EXCEPT ![j] = p] /\ embeddedBy' = [embeddedBy EXCEPT ![j] = e]
        BY <1>4 DEF IndexInv
    <2>2. /\ p \in IndexTaskRecords /\ p.at = "store" /\ p.total = indexTasks[j].total
          /\ p.todo = todo
        BY <1>f DEF IndexTaskRecords
    <2>3. /\ e \subseteq Chunks /\ IsFiniteSet(e)
          /\ Cardinality(e) = Cardinality(embeddedBy[j]) + Cardinality(todo)
                              - Cardinality(embeddedBy[j] \cap todo)
        BY <1>2, <1>f, FS_Union DEF IndexTaskRecords
    <2>4. Cardinality(embeddedBy[j] \cap todo) \in Nat
        BY <1>2, FS_Intersection, FS_CardinalityType
    <2>5. Cardinality(e) <= p.total
        BY <1>2, <1>3, <2>2, <2>3, <2>4
    <2>6. Cardinality(e) \in Nat
        BY <2>3, FS_CardinalityType
    <2> HIDE DEF p
    <2>7. Shows(j, r, p, e, intact, collections[Into(j)])
        BY <1>0, <1>f, <1>1, <2>2, <2>3, <2>5, <2>6 DEF Shows, Unstored, Counting
    <2> HIDE DEF e
    <2> QED BY <1>0, <1>1, <2>1, <2>7, QuietIndexStep
<1>5. CASE /\ indexTasks' = [indexTasks EXCEPT ![j].at = "store", ![j].todo = {}]
           /\ UNCHANGED embeddedBy
    <2> DEFINE p == [indexTasks[j] EXCEPT !.at = "store", !.todo = {}]
    <2>1. /\ indexTasks' = [indexTasks EXCEPT ![j] = p]
          /\ embeddedBy' = [embeddedBy EXCEPT ![j] = embeddedBy[j]]
        BY <1>5 DEF IndexInv
    <2>2. p \in IndexTaskRecords /\ p.at = "store" /\ p.total = indexTasks[j].total /\ p.todo = {}
        BY <1>f DEF IndexTaskRecords
    <2>3. Cardinality(embeddedBy[j]) <= p.total
        BY <1>2, <1>3, <2>2
    <2> HIDE DEF p
    <2>4. Shows(j, r, p, embeddedBy[j], intact, collections[Into(j)])
        BY <1>0, <1>f, <1>1, <1>3, <2>2, <2>3 DEF Shows, Unstored, Counting
    <2> QED BY <1>0, <1>1, <2>1, <2>4, QuietIndexStep
<1> QED BY <1>4, <1>5 DEF EmbedPage

Less == {ss \in Nat \X Nat : ss[1] < ss[2]}

LEMMA LeastOf ==
    ASSUME NEW T \in SUBSET Nat, T # {}
    PROVE  \E x \in T : \A y \in T : x <= y
<1>1. IsWellFoundedOn(Less, Nat)
    BY NatLessThanWellFounded DEF OpToRel, Less
<1>2. PICK x \in T : \A y \in T : ~ (<<y, x>> \in Less)
    BY <1>1, WFMin
<1>3. \A y \in T : <<y, x>> \in Less \/ x <= y
    BY DEF Less
<1> QED BY <1>2, <1>3

\* The chunk that is stored next is one of those to be stored.
LEMMA NextChunkIsLeft ==
    ASSUME NEW j, indexTasks[j].todo \subseteq Chunks, indexTasks[j].todo # {}
    PROVE  NextChunk(j) \in indexTasks[j].todo
<1> DEFINE todo == indexTasks[j].todo
           numbers == {k[2] : k \in todo}
<1>1. numbers \in SUBSET Nat /\ numbers # {}
    BY DEF Chunks
<1>2. PICK x \in numbers : \A y \in numbers : x <= y
    BY <1>1, LeastOf
<1>3. \E k \in todo : \A m \in todo : k[2] <= m[2]
    BY <1>2
<1> QED BY <1>3 DEF NextChunk

LEMMA StoreChunkKeeps ==
    ASSUME IndexInv, NEW j \in IndexJobs, StoreChunk(j)
    PROVE  IndexInv'
<1>0. indexTasks[j].at # "none" /\ indexTasks[j].at = "store" /\ indexTasks[j].todo # {}
    BY DEF StoreChunk, IndexAt
<1>f. /\ j \in DOMAIN indexJobs /\ indexJobs[j] \in IndexRecords /\ Into(j) \in Collections
      /\ indexTasks[j] \in IndexTaskRecords /\ embeddedBy[j] \subseteq Chunks
      /\ collections[Into(j)] \in Tables
      /\ Shows(j, indexJobs[j], indexTasks[j], embeddedBy[j], intact, collections[Into(j)])
    BY <1>0, IndexFacts
<1>k. PICK k : k = NextChunk(j)
    OBVIOUS
<1>c. k \in indexTasks[j].todo /\ k \in Chunks
    BY <1>0, <1>f, <1>k, NextChunkIsLeft DEF IndexTaskRecords
<1>s. PICK kept : kept = {m \in collections[Into(j)].chunks : RecordId[m] # RecordId[k]} \cup {k}
    OBVIOUS
<1>t. kept \subseteq Chunks
    BY <1>c, <1>f, <1>s DEF Tables
<1> DEFINE p == [indexTasks[j] EXCEPT !.todo = @ \ {k}]
           w == [collections[Into(j)] EXCEPT !.exists = TRUE, !.chunks = kept]
           e == embeddedBy[j] \ {k}
<1>1. /\ indexTasks' = [indexTasks EXCEPT ![j] = p]
      /\ indexJobs' = [indexJobs EXCEPT ![j] = indexJobs[j]] /\ indexJobs[j].collection = Into(j)
      /\ UNCHANGED intact
    BY <1>k DEF StoreChunk, IndexInv, Into
<1>2. /\ p \in IndexTaskRecords /\ p.at = "store" /\ p.total = indexTasks[j].total
      /\ p.todo = indexTasks[j].todo \ {k}
    BY <1>0, <1>f DEF IndexTaskRecords
<1>3. /\ w \in Tables /\ w.indexed = collections[Into(j)].indexed
      /\ w.chunks = kept
    BY <1>f, <1>t DEF Tables
<1>i. /\ IdsOf(collections[Into(j)].chunks) \subseteq IdsOf(kept)
      /\ RecordId[k] \in IdsOf(kept)
    <2>1. \A m : m \in kept <=>
               m = k \/ (m \in collections[Into(j)].chunks /\ RecordId[m] # RecordId[k])
        BY <1>s
    <2> QED BY <2>1, UpsertIds
<1> HIDE DEF p, w
<1>4. CASE Upsert(Into(j), k) /\ UNCHANGED embeddedBy
    <2>1. /\ collections' = [collections EXCEPT ![Into(j)] = w]
          /\ embeddedBy' = [embeddedBy EXCEPT ![j] = embeddedBy[j]]
        BY <1>4, <1>s DEF Upsert, IndexInv, w
    <2>2. Shows(j, indexJobs[j], p, embeddedBy[j], intact', w)
        BY <1>0, <1>1, <1>f, <1>2, <1>3, <1>i DEF Shows, Unstored, Counting
    <2>3. /\ collections[Into(j)].indexed => w.indexed
          /\ IdsOf(collections[Into(j)].chunks) \subseteq IdsOf(w.chunks)
        BY <1>3, <1>i
    <2> QED BY <1>0, <1>1, <1>3, <2>1, <2>2, <2>3, StoringStep
<1>5. CASE embeddedBy' = [embeddedBy EXCEPT ![j] = @ \ {k}] /\ UNCHANGED collections
    <2>1. embeddedBy' = [embeddedBy EXCEPT ![j] = e]
        BY <1>5
    <2>2. IsFiniteSet(embeddedBy[j]) /\ Cardinality(embeddedBy[j]) + 0 <= indexTasks[j].total
        BY <1>0, <1>f DEF Shows, Counting
    <2>3. /\ e \subseteq Chunks /\ IsFiniteSet(e) /\ Cardinality(e) <= Cardinality(embeddedBy[j])
        BY <1>f, <2>2, FS_Subset
    <2>4. Cardinality(e) \in Nat /\ Cardinality(embeddedBy[j]) \in Nat /\ indexTasks[j].total \in Nat
        BY <1>f, <2>2, <2>3, FS_CardinalityType DEF IndexTaskRecords
    <2>5. Cardinality(e) + 0 <= p.total
        BY <1>2, <2>2, <2>3, <2>4
    <2>6. Shows(j, indexJobs[j], p, e, intact, collections[Into(j)])
        BY <1>0, <1>f, <1>2, <2>3, <2>5 DEF Shows, Unstored, Counting
    <2> HIDE DEF e
    <2> QED BY <1>0, <1>1, <1>5, <2>1, <2>6, QuietIndexStep
<1> QED BY <1>k, <1>4, <1>5 DEF StoreChunk

LEMMA IndexFailsKeeps ==
    ASSUME IndexInv, NEW j \in IndexJobs, IndexFails(j)
    PROVE  IndexInv'
<1>0. /\ indexTasks[j].at # "none" /\ indexTasks[j].at \in {"crawl", "setup", "store"}
      /\ indexTasks[j].at = "store" => indexTasks[j].todo # {}
    BY DEF IndexFails, IndexAt
<1>f. /\ j \in DOMAIN indexJobs /\ indexJobs[j] \in IndexRecords /\ Into(j) \in Collections
      /\ indexTasks[j] \in IndexTaskRecords /\ collections[Into(j)] \in Tables
      /\ Shows(j, indexJobs[j], indexTasks[j], embeddedBy[j], intact, collections[Into(j)])
    BY <1>0, IndexFacts
<1> DEFINE r == [indexJobs[j] EXCEPT !.status = "failed"]
<1>1. /\ indexJobs' = [indexJobs EXCEPT ![j] = r]
      /\ indexTasks' = [indexTasks EXCEPT ![j] = NoIndexTask]
      /\ embeddedBy' = [embeddedBy EXCEPT ![j] = embeddedBy[j]] /\ UNCHANGED intact
    BY DEF IndexFails, IndexInv
<1>2. /\ r \in IndexRecords /\ r.collection = Into(j) /\ r.rag_ready = indexJobs[j].rag_ready
    BY <1>f DEF IndexRecords, Into
<1>3. NoIndexTask \in IndexTaskRecords /\ NoIndexTask.at = "none"
    BY DEF NoIndexTask, IndexTaskRecords
<1> HIDE DEF r
<1>4. r.rag_ready = FALSE
    BY <1>0, <1>f, <1>2 DEF Shows, IndexRecords
<1>5. \A c : Shows(j, r, NoIndexTask, embeddedBy[j], intact, c)
    BY <1>f, <1>2, <1>3, <1>4 DEF Shows
<1>6. CASE UNCHANGED collections
    BY <1>0, <1>1, <1>2, <1>5, <1>6, QuietIndexStep
<1>7. CASE IndexAt(j, "store") /\ Upsert(Into(j), NextChunk(j))
    <2>s. PICK kept : kept = {m \in collections[Into(j)].chunks : RecordId[m] # RecordId[NextChunk(j)]}
                                 \cup {NextChunk(j)}
        OBVIOUS
    <2> DEFINE w == [collections[Into(j)] EXCEPT !.exists = TRUE, !.chunks = kept]
    <2>1. NextChunk(j) \in Chunks
        BY <1>0, <1>7, <1>f, NextChunkIsLeft DEF IndexTaskRecords, IndexAt
    <2>t. kept \subseteq Chunks
        BY <1>f, <2>1, <2>s DEF Tables
    <2>a. w \in Tables /\ w.indexed = collections[Into(j)].indexed /\ w.chunks = kept
        BY <1>f, <2>t DEF Tables
    <2>b. IdsOf(collections[Into(j)].chunks) \subseteq IdsOf(kept)
        <3>1. \A m : m \in kept <=> m = NextChunk(j) \/
                       (m \in collections[Into(j)].chunks /\ RecordId[m] # RecordId[NextChunk(j)])
            BY <2>s
        <3> QED BY <3>1, UpsertIds
    <2>2. /\ w \in Tables /\ w.indexed = collections[Into(j)].indexed
          /\ IdsOf(collections[Into(j)].chunks) \subseteq IdsOf(w.chunks)
        BY <2>a, <2>b
    <2>3. collections' = [collections EXCEPT ![Into(j)] = w]
        BY <1>7, <2>s DEF Upsert
    <2> HIDE DEF w
    <2>4. Shows(j, r, NoIndexTask, embeddedBy[j], intact', w)
        BY <1>1, <1>5
    <2> QED BY <1>0, <1>1, <1>2, <2>2, <2>3, <2>4, StoringStep
<1>8. CASE DefineIn(Into(j))
    <2> DEFINE w == [collections[Into(j)] EXCEPT !.exists = TRUE, !.indexed = TRUE]
    <2>1. /\ w \in Tables /\ w.indexed = TRUE
          /\ IdsOf(collections[Into(j)].chunks) \subseteq IdsOf(w.chunks)
        BY <1>f DEF Tables
    <2>2. collections' = [collections EXCEPT ![Into(j)] = w]
        BY <1>f, <1>8 DEF DefineIn
    <2> HIDE DEF w
    <2>3. Shows(j, r, NoIndexTask, embeddedBy[j], intact', w)
        BY <1>1, <1>5
    <2> QED BY <1>0, <1>1, <1>2, <2>1, <2>2, <2>3, StoringStep
<1> QED BY <1>6, <1>7, <1>8 DEF IndexFails

LEMMA DeleteCollectionKeeps ==
    ASSUME IndexInv, NEW n \in Collections, DeleteCollection(n)
    PROVE  IndexInv'
<1>1. /\ UNCHANGED <<indexJobs, indexTasks, embeddedBy>>
      /\ collections' = [collections EXCEPT ![n] = NoTable]
      /\ intact' = {j \in intact : Into(j) # n}
    BY DEF DeleteCollection
<1>2. collections' \in [Collections -> Tables] /\ intact' \subseteq DOMAIN indexJobs
    BY <1>1 DEF IndexInv, Tables, NoTable
<1>3. ASSUME NEW j \in DOMAIN indexJobs
      PROVE  Shows(j, indexJobs[j], indexTasks[j], embeddedBy[j], intact', collections'[indexJobs[j].collection])
    <2>1. /\ Shows(j, indexJobs[j], indexTasks[j], embeddedBy[j], intact, collections[indexJobs[j].collection])
          /\ indexJobs[j].collection \in Collections
        BY DEF IndexInv, Into, Shows, IndexRecords
    <2>2. j \in intact' => j \in intact /\ indexJobs[j].collection # n
        BY <1>1 DEF Into
    <2>3. j \in intact' => collections'[indexJobs[j].collection] = collections[indexJobs[j].collection]
        BY <1>1, <2>2
    <2> QED BY <2>1, <2>2, <2>3 DEF Shows
<1> QED BY <1>1, <1>2, <1>3 DEF IndexInv, Into

LEMMA IndexInvNext == IndexInv /\ [IndexNext]_indexVars => IndexInv'
<1> SUFFICES ASSUME IndexInv, [IndexNext]_indexVars
             PROVE  IndexInv'
    OBVIOUS
<1>1. ASSUME NEW j \in IndexJobs, NEW n \in Collections, RequestIndex(j, n)
      PROVE  IndexInv'
    BY <1>1, RequestIndexKeeps
<1>2. ASSUME NEW j \in IndexJobs, IndexStep(j)
      PROVE  IndexInv'
    <2>1. CASE \/ RunPipeline(j) \/ PassPage(j) \/ PageStored(j) \/ IndexCompletes(j)
               \/ \E pages \in Sites[j] : CrawledSite(j, pages)
        BY <2>1, IndexWalkKeeps
    <2>2. CASE \E p \in SitePages : \E n \in ChunkCounts[p] : TakePage(j, p, n)
        BY <2>2, TakePageKeeps
    <2>3. CASE SetupCollection(j) \/ EmbedPage(j) \/ StoreChunk(j) \/ IndexFails(j)
        BY <2>3, SetupKeeps, EmbedPageKeeps, StoreChunkKeeps, IndexFailsKeeps
    <2> QED BY <1>2, <2>1, <2>2, <2>3 DEF IndexStep
<1>3. ASSUME NEW n \in Collections, DeleteCollection(n)
      PROVE  IndexInv'
    BY <1>3, DeleteCollectionKeeps
<1>4. CASE RestartSidecar
    BY <1>4 DEF RestartSidecar, IndexInv
<1>5. CASE UNCHANGED indexVars
    <2>1. /\ indexJobs' = indexJobs /\ indexTasks' = indexTasks /\ collections' = collections
          /\ intact' = intact /\ embeddedBy' = embeddedBy
        BY <1>5 DEF indexVars
    <2> QED BY <2>1 DEF IndexInv, Into
<1> QED BY <1>1, <1>2, <1>3, <1>4, <1>5 DEF IndexNext

LEMMA IndexInvShows == IndexInv => ReadyIsSearchable
<1> SUFFICES ASSUME IndexInv, NEW j \in DOMAIN indexJobs, indexJobs[j].rag_ready, j \in intact
             PROVE  /\ collections[Into(j)].indexed
                    /\ IdsOf(embeddedBy[j]) \subseteq IdsOf(collections[Into(j)].chunks)
                    /\ Cardinality(embeddedBy[j]) <= indexJobs[j].total_chunks
    BY DEF ReadyIsSearchable
<1>1. Shows(j, indexJobs[j], indexTasks[j], embeddedBy[j], intact, collections[Into(j)])
    BY DEF IndexInv
<1>2. /\ collections[Into(j)].indexed /\ Cardinality(embeddedBy[j]) <= indexJobs[j].total_chunks
      /\ \A k \in embeddedBy[j] : RecordId[k] \in IdsOf(collections[Into(j)].chunks)
    BY <1>1 DEF Shows, Unstored
<1>3. IdsOf(embeddedBy[j]) \subseteq IdsOf(collections[Into(j)].chunks)
    BY <1>2 DEF IdsOf
<1> QED BY <1>2, <1>3

\* A job of the sidecar that is ready for retrieval, whose collection nobody has
\* deleted since and whose set-up and chunks SurrealDB took, has its collection
\* indexed, and there is a record for the id of every chunk it embedded.  What that
\* record holds may be another chunk of the same id (run_pipeline, store_page,
\* delete_collection).
THEOREM ReadyJobsAreSearchable == IndexSpec => []ReadyIsSearchable
<1>1. IndexInit => IndexInv
    BY IndexInvInit
<1>2. IndexInv /\ [IndexNext]_indexVars => IndexInv'
    BY IndexInvNext
<1>3. IndexInv => ReadyIsSearchable
    BY IndexInvShows
<1> QED BY <1>1, <1>2, <1>3, PTL DEF IndexSpec

---------------------------------------------------------------------------
(* The crawls of the two scraping services. The queue is in the order of   *)
(* the depths and what was visited is not deeper than what waits there; as *)
(* long as no link was left out, every link that is followed leads to a    *)
(* page that was visited or waits, so that whatever is nearer than all of  *)
(* the queue has been visited. First, what it takes to reason about Near   *)
(* and QueueAfter, which are functions defined from one number to the next.*)

LEMMA SetInduction ==
    ASSUME NEW T, 0 \in T, \A n \in Nat : n \in T => n + 1 \in T
    PROVE  Nat \subseteq T
<1> SUFFICES ASSUME ~ Nat \subseteq T PROVE FALSE
    OBVIOUS
<1>1. PICK x \in Nat \ T : \A y \in Nat \ T : x <= y
    BY LeastOf
<1>2. x # 0 /\ x - 1 \in Nat
    BY <1>1
<1>3. x - 1 \in T
    BY <1>1, <1>2
<1> QED BY <1>1, <1>2, <1>3

\* A function on the naturals may be defined from each value to the next.
FirstValues(n, S, s0, step, g) ==
  /\ g \in [0 .. n -> S] /\ g[0] = s0
  /\ \A i \in 0 .. n - 1 : g[i + 1] = step[<<i, g[i]>>]

LEMMA FirstValuesAgree ==
    ASSUME NEW S, NEW s0, NEW step, NEW m \in Nat, NEW n \in Nat, m <= n, NEW g, NEW h,
           FirstValues(m, S, s0, step, g), FirstValues(n, S, s0, step, h)
    PROVE  \A i \in 0 .. m : g[i] = h[i]
<1> DEFINE T == {i \in Nat : i <= m => g[i] = h[i]}
<1>1. 0 \in T  BY DEF FirstValues
<1>2. ASSUME NEW i \in Nat, i \in T PROVE i + 1 \in T
    <2> SUFFICES ASSUME i + 1 <= m PROVE g[i + 1] = h[i + 1]
        OBVIOUS
    <2>1. g[i] = h[i]  BY <1>2
    <2>2. i \in 0 .. m - 1 /\ i \in 0 .. n - 1  OBVIOUS
    <2> QED BY <2>1, <2>2 DEF FirstValues
<1>3. Nat \subseteq T  BY <1>1, <1>2, SetInduction
<1> QED BY <1>3

StepsIn(S, step) == step \in [Nat \X S -> S]

Recurs(f, S, s0, step) ==
  f \in [Nat -> S] /\ f[0] = s0 /\ \A n \in Nat : f[n + 1] = step[<<n, f[n]>>]

LEMMA RecursionExists ==
    ASSUME NEW S, NEW s0 \in S, NEW step, StepsIn(S, step)
    PROVE  \E f : Recurs(f, S, s0, step)
<1> USE DEF StepsIn
<1> DEFINE Has(n, g) == FirstValues(n, S, s0, step, g)
           T == {n \in Nat : \E g : Has(n, g)}
           G(n) == CHOOSE g : Has(n, g)
           f == [n \in Nat |-> G(n)[n]]
<1>1. 0 \in T
    <2> DEFINE g == [i \in 0 .. 0 |-> s0]
    <2>1. Has(0, g)  BY DEF FirstValues
    <2> QED BY <2>1
<1>2. ASSUME NEW n \in Nat, n \in T PROVE n + 1 \in T
    <2>1. PICK g : Has(n, g)  BY <1>2
    <2> DEFINE h == [i \in 0 .. n + 1 |-> IF i = n + 1 THEN step[<<n, g[n]>>] ELSE g[i]]
    <2>2. g \in [0 .. n -> S] /\ g[0] = s0 /\ \A i \in 0 .. n - 1 : g[i + 1] = step[<<i, g[i]>>]
        BY <2>1 DEF FirstValues
    <2>3. g[n] \in S /\ step[<<n, g[n]>>] \in S  BY <2>2
    <2>4. h \in [0 .. n + 1 -> S] /\ h[0] = s0
        BY <2>2, <2>3
    <2>5. ASSUME NEW i \in 0 .. (n + 1) - 1 PROVE h[i + 1] = step[<<i, h[i]>>]
        <3>1. CASE i = n
            <4>1. h[n + 1] = step[<<n, g[n]>>] /\ h[n] = g[n]  OBVIOUS
            <4> QED BY <3>1, <4>1
        <3>2. CASE i # n
            <4>1. i \in 0 .. n - 1 /\ i + 1 # n + 1 /\ i # n + 1 /\ i + 1 \in 0 .. n + 1 /\ i \in 0 .. n + 1
                BY <3>2
            <4> QED BY <2>2, <4>1
        <3> QED BY <3>1, <3>2
    <2> HIDE DEF h
    <2>6. Has(n + 1, h)  BY <2>4, <2>5 DEF FirstValues
    <2> QED BY <2>6
<1>3. \A n \in Nat : n \in T  BY <1>1, <1>2, SetInduction
<1>4. \A n \in Nat : Has(n, G(n))  BY <1>3
<1> HIDE DEF G
<1>5. \A n \in Nat : G(n) \in [0 .. n -> S]  BY <1>4 DEF FirstValues
<1>6. f \in [Nat -> S]  BY <1>5
<1>7. f[0] = s0  BY <1>4 DEF FirstValues
<1>8. ASSUME NEW n \in Nat PROVE f[n + 1] = step[<<n, f[n]>>]
    <2>1. G(n + 1)[n] = G(n)[n]
        <3>1. Has(n, G(n)) /\ Has(n + 1, G(n + 1))  BY <1>4
        <3> QED BY <3>1, FirstValuesAgree
    <2>2. G(n + 1)[n + 1] = step[<<n, G(n + 1)[n]>>]
        <3>1. Has(n + 1, G(n + 1)) /\ n \in 0 .. (n + 1) - 1  BY <1>4
        <3> QED BY <3>1 DEF FirstValues
    <2> QED BY <2>1, <2>2
<1> QED BY <1>6, <1>7, <1>8 DEF Recurs

\* Near is what its definition says.

LEMMA LinksArePages ==
    ASSUME input \in Inputs, NEW p \in Pages
    PROVE  LinksOf(p) \subseteq Pages
<1>1. input.links[p] \in Seq(Pages)
    BY CrawlAssumption DEF Inputs
<1> QED BY <1>1 DEF LinksOf

NearStart == IF ~Server /\ StartPage \in input.excluded THEN {} ELSE {StartPage}
Nearer(near) == near \cup UNION {LinksOf(p) : p \in {q \in near : Open(q)}}

LEMMA NearIsDefined ==
    ASSUME input \in Inputs
    PROVE  /\ Near \in [Nat -> SUBSET Pages]
           /\ Near[0] = NearStart
           /\ \A k \in Nat : Near[k + 1] = Nearer(Near[k])
<1> DEFINE S == SUBSET Pages
           step == [x \in Nat \X S |-> Nearer(x[2])]
<1>1. NearStart \in S
    BY CrawlAssumption DEF NearStart
<1>2. \A X \in S : Nearer(X) \in S
    <2> SUFFICES ASSUME NEW X \in S PROVE Nearer(X) \subseteq Pages
        OBVIOUS
    <2>1. \A p \in X : LinksOf(p) \subseteq Pages
        BY LinksArePages
    <2> QED BY <2>1 DEF Nearer
<1>3. step \in [Nat \X S -> S]
    BY <1>2
<1>4. \A n \in Nat : \A X \in S : step[<<n, X>>] = Nearer(X)
    OBVIOUS
<1> HIDE DEF step
<1>5. PICK f : Recurs(f, S, NearStart, step)
    <2>1. StepsIn(S, step)  BY <1>3 DEF StepsIn
    <2> HIDE DEF S
    <2> QED BY <1>1, <2>1, RecursionExists
<1> USE DEF Recurs
<1>6. f = [k \in Nat |-> IF k = 0 THEN NearStart ELSE Nearer(f[k - 1])]
    <2> SUFFICES ASSUME NEW k \in Nat
                 PROVE  f[k] = IF k = 0 THEN NearStart ELSE Nearer(f[k - 1])
        BY <1>5
    <2>1. CASE k = 0  BY <1>5, <2>1
    <2>2. CASE k # 0
        <3>1. k - 1 \in Nat /\ (k - 1) + 1 = k  BY <2>2
        <3>2. f[k] = step[<<k - 1, f[k - 1]>>]  BY <1>5, <3>1
        <3> QED BY <1>4, <1>5, <2>2, <3>1, <3>2
    <2> QED BY <2>1, <2>2
<1>7. Near = [k \in Nat |-> IF k = 0 THEN NearStart ELSE Nearer(Near[k - 1])]
    BY <1>6 DEF Near, NearStart, Nearer
<1>8. Near[0] = NearStart
    BY <1>7
<1>9. ASSUME NEW k \in Nat PROVE Near[k + 1] = Nearer(Near[k])
    <2>1. k + 1 # 0 /\ (k + 1) - 1 = k /\ k + 1 \in Nat  OBVIOUS
    <2> QED BY <1>7, <2>1
<1>10. ASSUME NEW k \in Nat PROVE Near[k] \in S
    <2> DEFINE T == {n \in Nat : Near[n] \in S}
    <2>1. 0 \in T  BY <1>1, <1>8
    <2>2. \A n \in Nat : n \in T => n + 1 \in T  BY <1>2, <1>9
    <2> HIDE DEF T
    <2>3. k \in T  BY <2>1, <2>2, SetInduction
    <2> QED BY <2>3 DEF T
<1> QED BY <1>7, <1>8, <1>9, <1>10

LEMMA NearGrows ==
    ASSUME input \in Inputs, NEW m \in Nat, NEW n \in Nat, m <= n
    PROVE  Near[m] \subseteq Near[n]
<1> DEFINE T == {k \in Nat : Near[m] \subseteq Near[m + k]}
<1>1. 0 \in T  OBVIOUS
<1>2. ASSUME NEW k \in Nat, k \in T PROVE k + 1 \in T
    <2>1. m + k \in Nat /\ m + (k + 1) = (m + k) + 1  OBVIOUS
    <2>2. Near[m + (k + 1)] = Nearer(Near[m + k])  BY <2>1, NearIsDefined
    <2>3. Near[m + k] \subseteq Near[m + (k + 1)]  BY <2>2 DEF Nearer
    <2> QED BY <1>2, <2>3
<1> HIDE DEF T
<1>3. n - m \in T  BY <1>1, <1>2, SetInduction
<1> QED BY <1>3 DEF T

LEMMA NearSettles ==
    ASSUME input \in Inputs, NEW m \in Nat, Near[m + 1] = Near[m], NEW n \in Nat
    PROVE  Near[n] \subseteq Near[m]
<1> DEFINE T == {k \in Nat : Near[m + k] = Near[m]}
<1>1. 0 \in T  OBVIOUS
<1>2. ASSUME NEW k \in Nat, k \in T PROVE k + 1 \in T
    <2>1. m + k \in Nat /\ m + (k + 1) = (m + k) + 1  OBVIOUS
    <2>2. Near[m + (k + 1)] = Nearer(Near[m + k])  BY <2>1, NearIsDefined
    <2>3. Near[m + 1] = Nearer(Near[m])  BY NearIsDefined
    <2> QED BY <1>2, <2>2, <2>3
<1> HIDE DEF T
<1>3. CASE n <= m  BY <1>3, NearGrows
<1>4. CASE n > m
    <2>1. n - m \in T  BY <1>1, <1>2, <1>4, SetInduction
    <2> QED BY <2>1 DEF T
<1> QED BY <1>3, <1>4

\* No page is further away than there are pages.
LEMMA NearIsBounded ==
    ASSUME input \in Inputs, NEW n \in Nat
    PROVE  Near[n] \subseteq Near[Cardinality(Pages)]
<1> DEFINE N == Cardinality(Pages)
           Still(j) == \E i \in 0 .. j : Near[i + 1] = Near[i]
           T == {j \in Nat : Still(j) \/ Cardinality(Near[j]) >= j}
<1>0. N \in Nat  BY CrawlAssumption, FS_CardinalityType
<1>1. \A j \in Nat : IsFiniteSet(Near[j]) /\ Near[j] \subseteq Pages /\ Cardinality(Near[j]) \in Nat
    BY NearIsDefined, CrawlAssumption, FS_Subset, FS_CardinalityType
<1>2. 0 \in T  BY <1>1
<1>3. ASSUME NEW j \in Nat, j \in T PROVE j + 1 \in T
    <2>1. CASE Still(j)  BY <2>1
    <2>2. CASE ~Still(j)
        <3>1. Near[j + 1] # Near[j] /\ Near[j] \subseteq Near[j + 1]
            BY <2>2, NearGrows
        <3>2. Cardinality(Near[j]) < Cardinality(Near[j + 1])
            BY <1>1, <3>1, FS_Subset
        <3>3. Cardinality(Near[j]) >= j  BY <1>3, <2>2
        <3>4. Cardinality(Near[j + 1]) >= j + 1  BY <1>1, <3>2, <3>3
        <3> QED BY <3>4
    <2> QED BY <2>1, <2>2
<1>4. N \in T
    <2> HIDE DEF T
    <2> QED BY <1>0, <1>2, <1>3, SetInduction
<1>5. CASE Still(N)
    <2>1. PICK i \in 0 .. N : Near[i + 1] = Near[i]  BY <1>5
    <2>2. Near[n] \subseteq Near[i]  BY <1>0, <2>1, NearSettles
    <2>3. Near[i] \subseteq Near[N]  BY <1>0, <2>1, NearGrows
    <2> QED BY <2>2, <2>3
<1>6. CASE Cardinality(Near[N]) >= N
    <2>1. Near[N] = Pages
        BY <1>0, <1>1, <1>6, CrawlAssumption, FS_Subset
    <2> QED BY <1>1, <2>1
<1> QED BY <1>4, <1>5, <1>6

\* The queue, link by link.

Entries == Pages \X Nat

Crawling == input \in Inputs /\ queue \in Seq(Entries) /\ queue # << >>

PageLinks == input.links[Current]

OneLink(q, link) == IF Server THEN ServerQueues(q, link) ELSE SidecarQueues(q, link)

LEMMA CrawlingFacts ==
    ASSUME Crawling
    PROVE  /\ Current \in Pages /\ CurrentDepth \in Nat
           /\ PageLinks \in Seq(Pages)
           /\ Tail(queue) \in Seq(Entries) /\ Len(Tail(queue)) = Len(queue) - 1
           /\ \A k \in 1 .. Len(queue) - 1 : Tail(queue)[k] = queue[k + 1]
<1>1. Head(queue) \in Entries
    BY DEF Crawling
<1>2. Current \in Pages /\ CurrentDepth \in Nat
    BY <1>1 DEF Current, CurrentDepth, Entries
<1>3. PageLinks \in Seq(Pages)
    BY <1>2, CrawlAssumption DEF Crawling, Inputs, PageLinks
<1>4. /\ Tail(queue) \in Seq(Entries) /\ Len(Tail(queue)) = Len(queue) - 1
      /\ \A k \in 1 .. Len(queue) - 1 : Tail(queue)[k] = queue[k + 1]
    <2> SUFFICES ASSUME NEW S, NEW s \in Seq(S), s # << >>
                 PROVE  /\ Tail(s) \in Seq(S) /\ Len(Tail(s)) = Len(s) - 1
                        /\ \A k \in 1 .. Len(s) - 1 : Tail(s)[k] = s[k + 1]
        BY DEF Crawling
    <2> QED OBVIOUS
<1> QED BY <1>2, <1>3, <1>4

LEMMA OneLinkQueues ==
    ASSUME Crawling, NEW q \in Seq(Entries), NEW link \in Pages
    PROVE  /\ OneLink(q, link) \in Seq(Entries)
           /\ \/ OneLink(q, link) = q
              \/ /\ OneLink(q, link) = Append(q, <<link, CurrentDepth + 1>>)
                 /\ Server => link \notin input.excluded
           /\ Server => \/ link \in Seen \cup input.excluded
                        \/ \E k \in 1 .. Len(OneLink(q, link)) : OneLink(q, link)[k][1] = link
<1> DEFINE e == <<link, CurrentDepth + 1>>
<1>1. CurrentDepth \in Nat  BY CrawlingFacts
<1>2. e \in Entries  BY <1>1 DEF Entries
<1>3. OneLink(q, link) \in {q, Append(q, e)}
    BY DEF OneLink, ServerQueues, SidecarQueues
<1>4. Append(q, e) \in Seq(Entries)
    BY <1>2
<1>5. Server /\ OneLink(q, link) # q =>
        OneLink(q, link) = Append(q, e) /\ link \notin input.excluded
    BY DEF OneLink, ServerQueues
<1>6. ASSUME Server, link \notin Seen \cup input.excluded
      PROVE  \E k \in 1 .. Len(OneLink(q, link)) : OneLink(q, link)[k][1] = link
    <2>1. CASE \A k \in 1 .. Len(q) : q[k][1] # link
        <3>1. OneLink(q, link) = Append(q, e)
            BY <1>6, <2>1 DEF OneLink, ServerQueues
        <3>2. /\ Len(Append(q, e)) = Len(q) + 1 /\ Len(q) + 1 \in 1 .. Len(q) + 1
              /\ Append(q, e)[Len(q) + 1] = e
            <4> HIDE DEF e
            <4> QED BY <1>2
        <3>3. e[1] = link  OBVIOUS
        <3> HIDE DEF e
        <3> QED BY <3>1, <3>2, <3>3
    <2>2. CASE ~\A k \in 1 .. Len(q) : q[k][1] # link
        <3>1. OneLink(q, link) = q
            BY <1>6, <2>2 DEF OneLink, ServerQueues
        <3> QED BY <2>2, <3>1
    <2> QED BY <2>1, <2>2
<1> QED BY <1>3, <1>4, <1>5, <1>6

\* What the queue is when the first i links have been looked at.
Queued(i, q) ==
  /\ q \in Seq(Entries)
  /\ Len(q) >= Len(queue) - 1
  /\ \A k \in 1 .. Len(queue) - 1 : q[k] = queue[k + 1]
  /\ \A k \in Len(queue) .. Len(q) :
       /\ q[k][2] = CurrentDepth + 1
       /\ \E m \in 1 .. Len(PageLinks) : q[k][1] = PageLinks[m]
       /\ Server => q[k][1] \notin input.excluded
  /\ Server => \A m \in 1 .. i : \/ PageLinks[m] \in Seen \cup input.excluded
                                 \/ \E k \in 1 .. Len(q) : q[k][1] = PageLinks[m]

LEMMA QueuedNext ==
    ASSUME Crawling, NEW i \in Nat, i < Len(PageLinks), NEW q, Queued(i, q)
    PROVE  Queued(i + 1, OneLink(q, PageLinks[i + 1]))
<1> DEFINE n == i + 1
<1>1. n \in 1 .. Len(PageLinks) /\ PageLinks[n] \in Pages /\ q \in Seq(Entries) /\ CurrentDepth \in Nat
    BY CrawlingFacts DEF Queued
<1> DEFINE link == PageLinks[n]
           e == <<link, CurrentDepth + 1>>
<1>2. PICK r : r = OneLink(q, link)  OBVIOUS
<1>3. /\ r \in Seq(Entries)
      /\ r = q \/ (r = Append(q, e) /\ (Server => link \notin input.excluded))
      /\ Server => link \in Seen \cup input.excluded \/ \E k \in 1 .. Len(r) : r[k][1] = link
    BY <1>1, <1>2, OneLinkQueues
<1>4. Len(queue) \in Nat /\ Len(queue) >= 1 /\ Len(q) \in Nat /\ Len(q) >= Len(queue) - 1
    <2>1. queue \in Seq(Entries) /\ queue # << >>  BY DEF Crawling
    <2> QED BY <1>1, <2>1 DEF Queued
<1>5. /\ Len(r) = Len(q) \/ Len(r) = Len(q) + 1
      /\ \A k \in 1 .. Len(q) : r[k] = q[k]
      /\ \A k \in 1 .. Len(r) : k > Len(q) => r[k] = e /\ (Server => link \notin input.excluded)
    <2>0. e \in Entries  BY <1>1 DEF Entries
    <2>1. CASE r = q  BY <1>1, <2>1
    <2>2. CASE r = Append(q, e) /\ (Server => link \notin input.excluded)
        <3> HIDE DEF e
        <3>1. Len(r) = Len(q) + 1 /\ \A k \in 1 .. Len(q) + 1 : r[k] = IF k <= Len(q) THEN q[k] ELSE e
            BY <1>1, <2>0, <2>2
        <3> QED BY <1>4, <2>2, <3>1
    <2> QED BY <1>3, <2>1, <2>2
<1>6. Len(r) >= Len(queue) - 1
    BY <1>4, <1>5
<1>7. \A k \in 1 .. Len(queue) - 1 : r[k] = queue[k + 1]
    BY <1>4, <1>5 DEF Queued
<1>8. ASSUME NEW k \in Len(queue) .. Len(r)
      PROVE  /\ r[k][2] = CurrentDepth + 1
             /\ \E m \in 1 .. Len(PageLinks) : r[k][1] = PageLinks[m]
             /\ Server => r[k][1] \notin input.excluded
    <2>1. CASE k <= Len(q)
        <3>1. k \in Len(queue) .. Len(q) /\ k \in 1 .. Len(q)
            BY <1>4, <1>8, <2>1
        <3> QED BY <1>5, <3>1 DEF Queued
    <2>2. CASE k > Len(q)
        <3>1. r[k] = e /\ (Server => link \notin input.excluded)
            BY <1>4, <1>5, <1>8, <2>2
        <3> QED BY <1>1, <3>1
    <2>3. k \in Int /\ Len(q) \in Int  BY <1>4, <1>8
    <2> QED BY <2>1, <2>2, <2>3
<1>9. ASSUME Server, NEW m \in 1 .. n
      PROVE  \/ PageLinks[m] \in Seen \cup input.excluded
             \/ \E k \in 1 .. Len(r) : r[k][1] = PageLinks[m]
    <2>1. CASE m = n  BY <1>3, <1>9, <2>1
    <2>2. CASE m # n
        <3>1. m \in 1 .. i  BY <2>2
        <3>2. ASSUME NEW k \in 1 .. Len(q) PROVE k \in 1 .. Len(r) /\ r[k] = q[k]
            BY <1>4, <1>5
        <3> QED BY <1>9, <3>1, <3>2 DEF Queued
    <2> QED BY <2>1, <2>2
<1>10. Queued(n, r)
    BY <1>3, <1>6, <1>7, <1>8, <1>9 DEF Queued
<1> QED BY <1>2, <1>10

LEMMA QueueAfterIsDefined ==
    ASSUME Crawling
    PROVE  /\ QueueAfter[0] = Tail(queue)
           /\ \A i \in 0 .. Len(PageLinks) - 1 :
                QueueAfter[i + 1] = OneLink(QueueAfter[i], PageLinks[i + 1])
<1> DEFINE S == Seq(Entries)
           n == Len(PageLinks)
           step == [x \in Nat \X S |-> IF x[1] < n THEN OneLink(x[2], PageLinks[x[1] + 1]) ELSE x[2]]
<1>1. Tail(queue) \in S /\ n \in Nat
    BY CrawlingFacts
<1>2. ASSUME NEW i \in Nat, NEW q \in S
      PROVE  (IF i < n THEN OneLink(q, PageLinks[i + 1]) ELSE q) \in S
    <2>1. CASE i < n
        <3>1. PageLinks[i + 1] \in Pages
            BY <2>1, CrawlingFacts
        <3> QED BY <2>1, <3>1, OneLinkQueues
    <2>2. CASE ~(i < n)  BY <2>2
    <2> QED BY <2>1, <2>2
<1>3. step \in [Nat \X S -> S]
    BY <1>2
<1>4. \A i \in Nat : \A q \in S :
        step[<<i, q>>] = IF i < n THEN OneLink(q, PageLinks[i + 1]) ELSE q
    OBVIOUS
<1> HIDE DEF step
<1>5. PICK f : Recurs(f, S, Tail(queue), step)
    <2>1. StepsIn(S, step)  BY <1>3 DEF StepsIn
    <2> HIDE DEF S
    <2> QED BY <1>1, <2>1, RecursionExists
<1> DEFINE g == [i \in 0 .. n |-> f[i]]
           Body(h, i) == IF i = 0 THEN Tail(queue) ELSE OneLink(h[i - 1], PageLinks[i])
<1>6. f \in [Nat -> S] /\ f[0] = Tail(queue) /\ \A i \in Nat : f[i + 1] = step[<<i, f[i]>>]
    BY <1>5 DEF Recurs
<1> HIDE DEF S, n
<1>7. g = [i \in 0 .. n |-> Body(g, i)]
    <2> SUFFICES ASSUME NEW i \in 0 .. n PROVE g[i] = Body(g, i)
        OBVIOUS
    <2>1. CASE i = 0  BY <1>1, <1>6, <2>1
    <2>2. CASE i # 0
        <3>1. i - 1 \in Nat /\ (i - 1) + 1 = i /\ i - 1 < n /\ i - 1 \in 0 .. n
            BY <1>1, <2>2
        <3>2. f[i] = step[<<i - 1, f[i - 1]>>] /\ f[i - 1] \in S  BY <1>6, <3>1
        <3>3. f[i] = OneLink(f[i - 1], PageLinks[i])  BY <1>4, <3>1, <3>2
        <3> QED BY <2>2, <3>1, <3>3
    <2> QED BY <2>1, <2>2
<1> HIDE DEF g
<1>8. QueueAfter = [i \in 0 .. n |-> Body(QueueAfter, i)]
    BY <1>7 DEF QueueAfter, OneLink, PageLinks, n
<1>9. QueueAfter[0] = Tail(queue)
    BY <1>1, <1>8
<1>10. ASSUME NEW i \in 0 .. n - 1
       PROVE  QueueAfter[i + 1] = OneLink(QueueAfter[i], PageLinks[i + 1])
    <2>1. i + 1 \in 0 .. n /\ i + 1 # 0 /\ (i + 1) - 1 = i  BY <1>1
    <2> QED BY <1>8, <2>1
<1> QED BY <1>9, <1>10 DEF n

LEMMA QueueAfterQueued ==
    ASSUME Crawling
    PROVE  Queued(Len(PageLinks), QueueAfter[Len(PageLinks)])
<1> DEFINE n == Len(PageLinks)
           T == {i \in Nat : i <= n => Queued(i, QueueAfter[i])}
<1>1. n \in Nat  BY CrawlingFacts
<1>2. 0 \in T
    <2>1. PICK q : q = Tail(queue)  OBVIOUS
    <2>2. /\ q \in Seq(Entries) /\ Len(q) = Len(queue) - 1
          /\ \A k \in 1 .. Len(queue) - 1 : q[k] = queue[k + 1]
        BY <2>1, CrawlingFacts
    <2>3. Len(queue) \in Nat  BY DEF Crawling
    <2>4. Queued(0, q)  BY <2>2, <2>3 DEF Queued
    <2> QED BY <2>1, <2>4, QueueAfterIsDefined
<1>3. ASSUME NEW i \in Nat, i \in T PROVE i + 1 \in T
    <2> SUFFICES ASSUME i + 1 <= n PROVE Queued(i + 1, QueueAfter[i + 1])
        OBVIOUS
    <2>1. i < n /\ i \in 0 .. n - 1  BY <1>1
    <2>2. Queued(i, QueueAfter[i])  BY <1>3, <1>1, <2>1
    <2>3. Queued(i + 1, OneLink(QueueAfter[i], PageLinks[i + 1]))  BY <2>1, <2>2, QueuedNext
    <2> QED BY <2>1, <2>3, QueueAfterIsDefined
<1> HIDE DEF T
<1>4. n \in T  BY <1>1, <1>2, <1>3, SetInduction
<1> QED BY <1>4, <1>1 DEF T

\* What has been walked, v being the pages visited and q the queue.

\* The queue is in the order of the depths, at most two of them.
Sorted(q) ==
  \A i, j \in 1 .. Len(q) : i <= j => q[i][2] <= q[j][2] /\ q[j][2] <= q[i][2] + 1

\* What was visited is not further away than what is still to be.
Behind(v, q) == \A p \in DOMAIN v : \A i \in 1 .. Len(q) : v[p] <= q[i][2]

Within(d) == d = 0 \/ input.depth = WholeSite \/ d <= input.depth
FollowsFrom(d) == input.depth = WholeSite \/ d < input.depth
PassedOver(p) == ~Server /\ p \in input.excluded

InReach(v, q) ==
  /\ \A i \in 1 .. Len(q) :
       Within(q[i][2]) /\ (q[i][1] \in Near[q[i][2]] \/ PassedOver(q[i][1]))
  /\ \A p \in DOMAIN v : Within(v[p]) /\ p \in Near[v[p]]

\* Page l has been or will be visited at depth d or nearer.
Covers(v, q, l, d) ==
  \/ l \in DOMAIN v /\ v[l] <= d
  \/ \E i \in 1 .. Len(q) : q[i][1] = l /\ q[i][2] <= d

\* Nothing has been left out.
Covered(v, q) ==
  /\ ~PassedOver(StartPage) => Covers(v, q, StartPage, 0)
  /\ \A p \in DOMAIN v : Open(p) /\ FollowsFrom(v[p]) =>
       \A l \in LinksOf(p) : Covers(v, q, l, v[p] + 1)

\* No page was visited too late.
Exact(v) ==
  \A p \in DOMAIN v : v[p] > 0 => p \notin Near[v[p] - 1] /\ Near[v[p] - 1] \subseteq DOMAIN v

Visits(v) == DOMAIN v \subseteq Pages /\ \A p \in DOMAIN v : v[p] \in Nat

\* The head of the queue has been taken, visited unless it was before or is
\* passed over, and its links queued.
Taken(v) ==
  /\ DOMAIN visited \subseteq DOMAIN v /\ DOMAIN v \subseteq DOMAIN visited \cup {Current}
  /\ \A p \in DOMAIN visited : v[p] = visited[p]
  /\ Current \in DOMAIN v \/ PassedOver(Current)
  /\ Current \in DOMAIN v \ DOMAIN visited => v[Current] = CurrentDepth /\ ~PassedOver(Current)

Lengthened(q) ==
  /\ q \in Seq(Entries) /\ Len(q) >= Len(queue) - 1
  /\ \A k \in 1 .. Len(queue) - 1 : q[k] = queue[k + 1]
  /\ \A k \in Len(queue) .. Len(q) :
       /\ q[k][2] = CurrentDepth + 1
       /\ Open(Current) /\ FollowsFrom(CurrentDepth)
       /\ q[k][1] \in LinksOf(Current) \/ PassedOver(q[k][1])

Followed(q) ==
  Current \notin DOMAIN visited /\ Open(Current) /\ FollowsFrom(CurrentDepth) =>
    \A l \in LinksOf(Current) : l \in Seen \/ \E k \in 1 .. Len(q) : q[k][1] = l

LEMMA WalkedTypes ==
    ASSUME Crawling
    PROVE  /\ Len(queue) \in Nat /\ Len(queue) >= 1
           /\ CurrentDepth \in Nat /\ CurrentDepth = queue[1][2] /\ Current = queue[1][1]
           /\ \A i \in 1 .. Len(queue) : queue[i][1] \in Pages /\ queue[i][2] \in Nat
<1>1. queue \in Seq(Entries) /\ queue # << >>
    BY DEF Crawling
<1>2. Head(queue) = queue[1] /\ Len(queue) \in Nat /\ Len(queue) >= 1
    BY <1>1
<1>3. \A i \in 1 .. Len(queue) : queue[i] \in Entries
    BY <1>1
<1>4. \A i \in 1 .. Len(queue) : queue[i][1] \in Pages /\ queue[i][2] \in Nat
    BY <1>3 DEF Entries
<1> QED BY <1>2, <1>4, CrawlingFacts DEF Current, CurrentDepth

\* Where the entries of the new queue come from.
LEMMA EntriesOf ==
    ASSUME Crawling, NEW q, Lengthened(q), NEW k \in 1 .. Len(q)
    PROVE  /\ q[k][1] \in Pages /\ q[k][2] \in Nat
           /\ \/ k < Len(queue) /\ k + 1 \in 1 .. Len(queue) /\ q[k] = queue[k + 1]
              \/ k >= Len(queue) /\ k \in Len(queue) .. Len(q)
<1>1. q \in Seq(Entries) /\ Len(q) \in Nat  BY DEF Lengthened
<1>2. q[k] \in Entries  BY <1>1
<1>3. q[k][1] \in Pages /\ q[k][2] \in Nat  BY <1>2 DEF Entries
<1>4. Len(queue) \in Nat  BY WalkedTypes
<1>5. CASE k < Len(queue)
    <2>1. k \in 1 .. Len(queue) - 1 /\ k + 1 \in 1 .. Len(queue)  BY <1>4, <1>5
    <2> QED BY <1>3, <1>5, <2>1 DEF Lengthened
<1>6. CASE k >= Len(queue)
    BY <1>1, <1>3, <1>4, <1>6
<1> QED BY <1>4, <1>5, <1>6

LEMMA StaysSorted ==
    ASSUME Crawling, Sorted(queue), NEW q, Lengthened(q)
    PROVE  /\ Sorted(q)
           /\ \A k \in 1 .. Len(q) : CurrentDepth <= q[k][2] /\ q[k][2] <= CurrentDepth + 1
<1>1. \A i \in 1 .. Len(queue) : CurrentDepth <= queue[i][2] /\ queue[i][2] <= CurrentDepth + 1
    BY WalkedTypes DEF Sorted
<1>2. ASSUME NEW k \in 1 .. Len(q)
      PROVE  CurrentDepth <= q[k][2] /\ q[k][2] <= CurrentDepth + 1
    BY <1>1, <1>2, EntriesOf, WalkedTypes DEF Lengthened
<1>3. ASSUME NEW i \in 1 .. Len(q), NEW j \in 1 .. Len(q), i <= j
      PROVE  q[i][2] <= q[j][2] /\ q[j][2] <= q[i][2] + 1
    <2>1. q[i][2] \in Nat /\ q[j][2] \in Nat /\ CurrentDepth \in Nat
        BY EntriesOf, WalkedTypes
    <2>2. CASE j >= Len(queue)
        <3>1. j \in Len(queue) .. Len(q)  BY <2>2, EntriesOf
        <3>2. q[j][2] = CurrentDepth + 1  BY <3>1 DEF Lengthened
        <3> QED BY <1>2, <2>1, <3>2
    <2>3. CASE j < Len(queue)
        <3>1. i < Len(queue)  BY <1>3, <2>3, WalkedTypes
        <3>2. /\ q[i] = queue[i + 1] /\ q[j] = queue[j + 1]
              /\ i + 1 \in 1 .. Len(queue) /\ j + 1 \in 1 .. Len(queue) /\ i + 1 <= j + 1
            BY <1>3, <2>3, <3>1, EntriesOf, WalkedTypes
        <3> QED BY <3>2 DEF Sorted
    <2> QED BY <2>2, <2>3, WalkedTypes
<1> QED BY <1>2, <1>3 DEF Sorted

LEMMA StaysBehind ==
    ASSUME Crawling, Sorted(queue), Behind(visited, queue), Visits(visited),
           NEW v, Taken(v), NEW q, Lengthened(q)
    PROVE  Visits(v) /\ Behind(v, q)
<1>1. Visits(v)
    BY CrawlingFacts DEF Visits, Taken
<1>2. ASSUME NEW p \in DOMAIN v, NEW k \in 1 .. Len(q) PROVE v[p] <= q[k][2]
    <2>1. v[p] \in Nat /\ CurrentDepth \in Nat /\ q[k][2] \in Nat /\ CurrentDepth <= q[k][2]
        BY <1>1, EntriesOf, StaysSorted, WalkedTypes DEF Visits
    <2>2. v[p] <= CurrentDepth
        <3>1. CASE p \in DOMAIN visited
            BY <3>1, WalkedTypes DEF Behind, Taken
        <3>2. CASE p \notin DOMAIN visited
            BY <2>1, <3>2 DEF Taken
        <3> QED BY <3>1, <3>2
    <2> QED BY <2>1, <2>2
<1> QED BY <1>1, <1>2 DEF Behind

\* Of the excluded pages only the first one of the server is near.
LEMMA NearIsWanted ==
    ASSUME input \in Inputs, NEW n \in Nat, NEW p \in Near[n], p \in input.excluded
    PROVE  Server /\ p = StartPage
<1> DEFINE T == {k \in Nat : p \in Near[k] => Server /\ p = StartPage}
<1>1. 0 \in T
    BY NearIsDefined DEF NearStart
<1>2. ASSUME NEW k \in Nat, k \in T PROVE k + 1 \in T
    <2>1. Near[k + 1] = Nearer(Near[k])  BY NearIsDefined
    <2>2. p \in Near[k + 1] => p \in Near[k]  BY <2>1 DEF Nearer, LinksOf
    <2> QED BY <1>2, <2>2
<1> HIDE DEF T
<1>3. n \in T  BY <1>1, <1>2, SetInduction
<1> QED BY <1>3 DEF T

LEMMA StaysInReach ==
    ASSUME Crawling, InReach(visited, queue), Visits(visited),
           NEW v, Taken(v), NEW q, Lengthened(q)
    PROVE  InReach(v, q)
<1>0. input \in Inputs  BY DEF Crawling
<1>1. /\ Within(CurrentDepth) /\ CurrentDepth \in Nat
      /\ Current \in Near[CurrentDepth] \/ PassedOver(Current)
    BY WalkedTypes DEF InReach
<1>2. ASSUME NEW p \in DOMAIN v PROVE Within(v[p]) /\ p \in Near[v[p]]
    <2>1. CASE p \in DOMAIN visited  BY <2>1 DEF InReach, Taken
    <2>2. CASE p \notin DOMAIN visited  BY <1>1, <2>2 DEF Taken
    <2> QED BY <2>1, <2>2
<1>3. ASSUME NEW k \in 1 .. Len(q)
      PROVE  Within(q[k][2]) /\ (q[k][1] \in Near[q[k][2]] \/ PassedOver(q[k][1]))
    <2>1. CASE k < Len(queue)
        <3>1. k + 1 \in 1 .. Len(queue) /\ q[k] = queue[k + 1]
            BY <2>1, EntriesOf, WalkedTypes
        <3> QED BY <3>1 DEF InReach
    <2>2. CASE k >= Len(queue)
        <3>1. /\ q[k][2] = CurrentDepth + 1 /\ Open(Current) /\ FollowsFrom(CurrentDepth)
              /\ q[k][1] \in LinksOf(Current) \/ PassedOver(q[k][1])
            BY <2>2, EntriesOf DEF Lengthened
        <3>2. Within(CurrentDepth + 1)
            <4>1. input.depth \in Int  BY <1>0, CrawlAssumption DEF Inputs
            <4> QED BY <1>1, <3>1, <4>1 DEF FollowsFrom, Within
        <3>3. Current \in Near[CurrentDepth]
            BY <1>1, <3>1 DEF Open, PassedOver
        <3>4. LinksOf(Current) \subseteq Near[CurrentDepth + 1]
            <4>1. Near[CurrentDepth + 1] = Nearer(Near[CurrentDepth])
                BY <1>0, <1>1, NearIsDefined
            <4> QED BY <3>1, <3>3, <4>1 DEF Nearer
        <3> QED BY <3>1, <3>2, <3>4
    <2> QED BY <2>1, <2>2, WalkedTypes
<1> QED BY <1>2, <1>3 DEF InReach

LEMMA StaysCovered ==
    ASSUME Crawling, Sorted(queue), Behind(visited, queue), Visits(visited),
           Covered(visited, queue), NEW v, Taken(v), NEW q, Lengthened(q), Followed(q)
    PROVE  Covered(v, q)
<1>0. Visits(v)  BY StaysBehind
<1>1. ASSUME NEW l, ~PassedOver(l), NEW d \in Nat, Covers(visited, queue, l, d)
      PROVE  Covers(v, q, l, d)
    <2>1. CASE l \in DOMAIN visited /\ visited[l] <= d
        BY <2>1 DEF Taken, Covers
    <2>2. ASSUME NEW i \in 1 .. Len(queue), queue[i][1] = l, queue[i][2] <= d
          PROVE  Covers(v, q, l, d)
        <3>1. CASE i = 1
            <4>1. l = Current /\ CurrentDepth <= d /\ Current \in DOMAIN v
                BY <1>1, <2>2, <3>1, WalkedTypes DEF Taken
            <4>2. v[l] <= CurrentDepth
                <5>1. CASE l \in DOMAIN visited
                    BY <5>1, WalkedTypes DEF Behind, Taken
                <5>2. CASE l \notin DOMAIN visited
                    BY <4>1, <5>2, WalkedTypes DEF Taken
                <5> QED BY <5>1, <5>2
            <4>3. v[l] \in Nat /\ CurrentDepth \in Nat  BY <1>0, <4>1, WalkedTypes DEF Visits
            <4> QED BY <4>1, <4>2, <4>3 DEF Covers
        <3>2. CASE i # 1
            <4>0. PICK k : k = i - 1  OBVIOUS
            <4>1. k \in 1 .. Len(queue) - 1 /\ k + 1 = i /\ k \in 1 .. Len(q)
                <5>1. Len(q) \in Nat /\ Len(q) >= Len(queue) - 1  BY DEF Lengthened
                <5>2. Len(queue) \in Nat  BY WalkedTypes
                <5>3. k \in Nat /\ k >= 1 /\ k <= Len(queue) - 1 /\ k + 1 = i
                    BY <3>2, <4>0, <5>2
                <5> QED BY <5>1, <5>2, <5>3
            <4>2. q[k] = queue[i]  BY <4>1 DEF Lengthened
            <4> QED BY <2>2, <4>1, <4>2 DEF Covers
        <3> QED BY <3>1, <3>2
    <2> QED BY <1>1, <2>1, <2>2 DEF Covers
<1>2. ~PassedOver(StartPage) => Covers(v, q, StartPage, 0)
    BY <1>1 DEF Covered
<1>3. ASSUME NEW p \in DOMAIN v, Open(p), FollowsFrom(v[p]), NEW l \in LinksOf(p)
      PROVE  Covers(v, q, l, v[p] + 1)
    <2>0. ~PassedOver(l) /\ v[p] \in Nat /\ v[p] + 1 \in Nat
        BY <1>0, <1>3 DEF PassedOver, LinksOf, Visits
    <2>1. CASE p \in DOMAIN visited
        <3>1. v[p] = visited[p]  BY <2>1 DEF Taken
        <3>2. Covers(visited, queue, l, v[p] + 1)  BY <1>3, <2>1, <3>1 DEF Covered
        <3> QED BY <1>1, <2>0, <3>2
    <2>2. CASE p \notin DOMAIN visited
        <3>1. p = Current /\ v[p] = CurrentDepth  BY <1>3, <2>2 DEF Taken
        <3>2. CASE l \in Seen
            <4>1. l \in DOMAIN v /\ v[l] \in Nat /\ v[l] <= CurrentDepth
                <5>1. CASE l \in DOMAIN visited
                    BY <1>0, <5>1, WalkedTypes DEF Behind, Taken, Visits
                <5>2. CASE l = Current
                    BY <1>3, <2>0, <3>1, <5>2
                <5> QED BY <3>2, <5>1, <5>2 DEF Seen
            <4> QED BY <2>0, <3>1, <4>1 DEF Covers
        <3>3. ASSUME NEW k \in 1 .. Len(q), q[k][1] = l
              PROVE  Covers(v, q, l, v[p] + 1)
            BY <3>1, <3>3, StaysSorted DEF Covers
        <3>4. l \in Seen \/ \E k \in 1 .. Len(q) : q[k][1] = l
            BY <1>3, <2>2, <3>1 DEF Followed
        <3> QED BY <3>2, <3>3, <3>4
    <2> QED BY <2>1, <2>2
<1> QED BY <1>2, <1>3 DEF Covered

\* Whatever is nearer than all of the queue has been visited.
LEMMA NearerIsVisited ==
    ASSUME input \in Inputs, NEW v, Visits(v), NEW q \in Seq(Entries), Covered(v, q), NEW k \in Nat,
           \A i \in 1 .. Len(q) : k <= q[i][2],
           \A d \in Nat : d + 1 < k => FollowsFrom(d),
           NEW n \in Nat, n < k
    PROVE  \A p \in Near[n] : p \in DOMAIN v /\ v[p] <= n
<1> DEFINE T == {j \in Nat : j < k => \A p \in Near[j] : p \in DOMAIN v /\ v[p] <= j}
<1>0. ASSUME NEW l, NEW j \in Nat, j < k, Covers(v, q, l, j)
      PROVE  l \in DOMAIN v /\ v[l] <= j
    <2>1. \A i \in 1 .. Len(q) : q[i] \in Entries  OBVIOUS
    <2>2. \A i \in 1 .. Len(q) : q[i][2] \in Nat  BY <2>1 DEF Entries
    <2>3. \A i \in 1 .. Len(q) : ~(q[i][2] <= j)  BY <1>0, <2>2
    <2> QED BY <1>0, <2>3 DEF Covers
<1>1. 0 \in T
    <2> SUFFICES ASSUME 0 < k, NEW p \in Near[0] PROVE p \in DOMAIN v /\ v[p] <= 0
        OBVIOUS
    <2>1. p = StartPage /\ ~PassedOver(StartPage)
        BY NearIsDefined DEF NearStart, PassedOver
    <2>2. Covers(v, q, p, 0)  BY <2>1 DEF Covered
    <2> QED BY <1>0, <2>2
<1>2. ASSUME NEW j \in Nat, j \in T PROVE j + 1 \in T
    <2> SUFFICES ASSUME j + 1 < k, NEW p \in Near[j + 1] PROVE p \in DOMAIN v /\ v[p] <= j + 1
        OBVIOUS
    <2>1. \A x \in Near[j] : x \in DOMAIN v /\ v[x] <= j  BY <1>2
    <2>2. Near[j + 1] = Nearer(Near[j])  BY NearIsDefined
    <2>3. CASE p \in Near[j]
        <3>1. p \in DOMAIN v /\ v[p] <= j /\ v[p] \in Nat  BY <2>1, <2>3 DEF Visits
        <3> QED BY <3>1
    <2>4. ASSUME NEW x \in Near[j], Open(x), p \in LinksOf(x)
          PROVE  p \in DOMAIN v /\ v[p] <= j + 1
        <3>1. x \in DOMAIN v /\ v[x] <= j /\ v[x] \in Nat  BY <2>1 DEF Visits
        <3>2. FollowsFrom(v[x])  BY <3>1
        <3>3. Covers(v, q, p, v[x] + 1)  BY <2>4, <3>1, <3>2 DEF Covered
        <3>4. p \in DOMAIN v /\ v[p] <= v[x] + 1  BY <1>0, <3>1, <3>3
        <3>5. v[p] \in Nat  BY <3>4 DEF Visits
        <3> QED BY <3>1, <3>4, <3>5
    <2> QED BY <2>2, <2>3, <2>4 DEF Nearer
<1> HIDE DEF T
<1>3. n \in T  BY <1>1, <1>2, SetInduction
<1> QED BY <1>3 DEF T

LEMMA StaysExact ==
    ASSUME Crawling, Sorted(queue), Behind(visited, queue), Visits(visited), InReach(visited, queue),
           Covered(visited, queue), Exact(visited), NEW v, Taken(v)
    PROVE  Exact(v)
<1>1. ASSUME NEW p \in DOMAIN v, v[p] > 0
      PROVE  p \notin Near[v[p] - 1] /\ Near[v[p] - 1] \subseteq DOMAIN v
    <2>1. CASE p \in DOMAIN visited
        BY <1>1, <2>1 DEF Exact, Taken
    <2>2. CASE p \notin DOMAIN visited
        <3>1. p = Current /\ v[p] = CurrentDepth /\ CurrentDepth \in Nat
            BY <1>1, <2>2, WalkedTypes DEF Taken
        <3>2. \A i \in 1 .. Len(queue) : CurrentDepth <= queue[i][2]
            BY WalkedTypes DEF Sorted
        <3>3. ASSUME NEW d \in Nat, d + 1 < CurrentDepth PROVE FollowsFrom(d)
            <4>1. Within(CurrentDepth)  BY WalkedTypes DEF InReach
            <4>2. input.depth \in Int  BY CrawlAssumption DEF Inputs, Crawling
            <4> QED BY <3>1, <3>3, <4>1, <4>2 DEF Within, FollowsFrom
        <3>4. CurrentDepth - 1 \in Nat /\ CurrentDepth - 1 < CurrentDepth  BY <1>1, <3>1
        <3>5. input \in Inputs /\ queue \in Seq(Entries)  BY DEF Crawling
        <3>6. \A x \in Near[CurrentDepth - 1] : x \in DOMAIN visited
            BY <3>1, <3>2, <3>3, <3>4, <3>5, NearerIsVisited
        <3> QED BY <2>2, <3>1, <3>6 DEF Taken
    <2> QED BY <2>1, <2>2
<1> QED BY <1>1 DEF Exact

CrawlTypes ==
  /\ input \in Inputs \cup {NoInput}
  /\ Visits(visited) /\ queue \in Seq(Entries)
  /\ results \in Seq([page : Pages, ok : BOOLEAN]) /\ dropped \in BOOLEAN

BeforeCrawl == DOMAIN visited = {} /\ queue = << >> /\ results = << >> /\ ~dropped

Walked ==
  /\ Sorted(queue) /\ Behind(visited, queue) /\ InReach(visited, queue)
  /\ ~dropped => Covered(visited, queue) /\ Exact(visited)

Limited == results = << >> \/ Len(results) <= input.max + 1

CrawlInv ==
  /\ CrawlTypes
  /\ input = NoInput => BeforeCrawl
  /\ input # NoInput => Walked /\ Limited

LEMMA CrawlInvInit == CrawlInit => CrawlInv
<1> SUFFICES ASSUME CrawlInit PROVE CrawlInv
    OBVIOUS
<1>1. DOMAIN visited = {} /\ queue = << >> /\ results = << >> /\ dropped = FALSE /\ input = NoInput
    BY DEF CrawlInit
<1>2. /\ << >> \in Seq(Entries) /\ << >> \in Seq([page : Pages, ok : BOOLEAN])
    OBVIOUS
<1> QED BY <1>1, <1>2 DEF CrawlInv, CrawlTypes, BeforeCrawl, Visits

LEMMA NearStarts == input \in Inputs => Near[0] = NearStart
BY NearIsDefined

LEMMA NearStartsNext == (input \in Inputs => Near[0] = NearStart)'
BY NearStarts, PTL

LEMMA StartKeeps == ASSUME CrawlInv, StartCrawl PROVE CrawlInv'
<1>1. /\ input = NoInput /\ input' \in Inputs
      /\ queue' = <<<<StartPage, 0>>>> /\ UNCHANGED <<visited, results, dropped>>
    BY DEF StartCrawl
<1>2. BeforeCrawl  BY <1>1 DEF CrawlInv
<1>3. input' # NoInput
    <2>1. input'.program \in Programs  BY <1>1 DEF Inputs
    <2>2. NoInput.program = "none"  BY DEF NoInput
    <2> QED BY <2>1, <2>2 DEF Programs
<1>4. /\ queue' \in Seq(Entries) /\ Len(queue') = 1
      /\ queue'[1][1] = StartPage /\ queue'[1][2] = 0
    BY <1>1, CrawlAssumption DEF Entries
<1>5. CrawlTypes'
    BY <1>1, <1>4 DEF CrawlInv, CrawlTypes, Visits
<1>6. (Near[0] = NearStart)'
    BY <1>1, NearStartsNext
<1>7. Walked'
    BY <1>1, <1>2, <1>4, <1>6, CrawlAssumption
       DEF Walked, BeforeCrawl, Sorted, Behind, InReach, Within, Covered, Covers, Exact,
           NearStart, PassedOver, Server
<1>8. Limited'
    BY <1>1, <1>2 DEF BeforeCrawl, Limited
<1> QED BY <1>3, <1>5, <1>7, <1>8 DEF CrawlInv

LEMMA SiteStays ==
    ASSUME input' = input
    PROVE  /\ Near' = Near
           /\ \A p : LinksOf(p)' = LinksOf(p) /\ (Open(p)' <=> Open(p))
<1>1. Near' = Near
    BY DEF Near, Open, LinksOf, Server
<1>2. ASSUME NEW p PROVE LinksOf(p)' = LinksOf(p) /\ (Open(p)' <=> Open(p))
    BY DEF LinksOf, Open, Server
<1> QED BY <1>1, <1>2

LEMMA TakeKeeps ==
    ASSUME CrawlInv, queue # << >>, input' = input, Taken(visited'), Lengthened(queue'),
           dropped' \in BOOLEAN, dropped => dropped', ~dropped' => Followed(queue'),
           results' \in Seq([page : Pages, ok : BOOLEAN]), Limited'
    PROVE  CrawlInv'
<1>1. /\ input # NoInput /\ Crawling /\ Visits(visited) /\ Walked /\ CrawlTypes
    BY DEF CrawlInv, CrawlTypes, BeforeCrawl, Crawling
<1>2. PICK v, q : v = visited' /\ q = queue'
    OBVIOUS
<1>3. Taken(v) /\ Lengthened(q) /\ (~dropped' => Followed(q))
    BY <1>2
<1>4. /\ Sorted(q) /\ Behind(v, q) /\ Visits(v) /\ InReach(v, q)
      /\ ~dropped' => Covered(v, q) /\ Exact(v)
    <2>1. Sorted(queue) /\ Behind(visited, queue) /\ InReach(visited, queue)
        BY <1>1 DEF Walked
    <2>2. Sorted(q) /\ Behind(v, q) /\ Visits(v) /\ InReach(v, q)
        BY <1>1, <1>3, <2>1, StaysSorted, StaysBehind, StaysInReach
    <2>3. ASSUME ~dropped' PROVE Covered(v, q) /\ Exact(v)
        <3>1. Covered(visited, queue) /\ Exact(visited)
            BY <1>1, <2>3 DEF Walked, CrawlTypes
        <3> QED BY <1>1, <1>3, <2>1, <2>3, <3>1, StaysCovered, StaysExact
    <2> QED BY <2>2, <2>3
<1>5. Sorted(queue)' /\ Behind(visited, queue)'
    BY <1>2, <1>4 DEF Sorted, Behind
<1>6. InReach(visited, queue)'
    BY <1>2, <1>4, SiteStays DEF InReach, Within, PassedOver, Server
<1>7. ~dropped' => Covered(visited, queue)'
    BY <1>2, <1>4, SiteStays DEF Covered, Covers, PassedOver, Server, FollowsFrom
<1>8. ~dropped' => Exact(visited)'
    BY <1>2, <1>4, SiteStays DEF Exact
<1>9. Walked'
    BY <1>5, <1>6, <1>7, <1>8 DEF Walked
<1>10. CrawlTypes'
    <2>1. queue' \in Seq(Entries)  BY <1>2, <1>3 DEF Lengthened
    <2>2. Visits(visited)'  BY <1>2, <1>4 DEF Visits
    <2>3. (input \in Inputs \cup {NoInput})'
        BY <1>1 DEF CrawlTypes, Inputs, NoInput
    <2> QED BY <2>1, <2>2, <2>3 DEF CrawlTypes
<1> QED BY <1>1, <1>9, <1>10 DEF CrawlInv, NoInput

LEMMA MarkTakes ==
    ASSUME Current \notin DOMAIN visited, ~Excluded, Mark
    PROVE  Taken(visited')
BY DEF Mark, Put, Taken, Excluded, PassedOver

LEMMA TailLengthens ==
    ASSUME Crawling PROVE Lengthened(Tail(queue))
<1>1. PICK q : q = Tail(queue)  OBVIOUS
<1>2. /\ q \in Seq(Entries) /\ Len(q) = Len(queue) - 1
      /\ \A k \in 1 .. Len(queue) - 1 : q[k] = queue[k + 1]
    BY <1>1, CrawlingFacts
<1>3. \A k \in Len(queue) .. Len(q) : FALSE
    BY <1>2, WalkedTypes
<1>4. Len(queue) - 1 \in Nat /\ Len(q) >= Len(queue) - 1
    BY <1>2, WalkedTypes
<1> HIDE <1>1
<1>5. Lengthened(q)
    BY <1>2, <1>3, <1>4 DEF Lengthened
<1> QED BY <1>1, <1>5

LEMMA LinksLengthen ==
    ASSUME Crawling, Open(Current)
    PROVE  /\ Lengthened(QueueLinks)
           /\ Server \/ ~(Follows /\ LeavesOut(QueueLinks)) => Followed(QueueLinks)
<1>0. Follows <=> FollowsFrom(CurrentDepth)
    BY DEF Follows, FollowsFrom
<1>1. CASE ~Follows
    <2>1. QueueLinks = Tail(queue)  BY <1>1 DEF QueueLinks
    <2> QED BY <1>0, <1>1, <2>1, TailLengthens DEF Followed
<1>2. CASE Follows
    <2>1. PICK q : q = QueueLinks  OBVIOUS
    <2>2. Queued(Len(PageLinks), q)
        BY <1>2, <2>1, QueueAfterQueued DEF QueueLinks, PageLinks
    <2>3. \A m \in 1 .. Len(PageLinks) :
            PageLinks[m] \notin input.excluded => PageLinks[m] \in LinksOf(Current)
        BY DEF LinksOf, PageLinks
    <2>4. Lengthened(q)
        BY <1>0, <1>2, <2>2, <2>3 DEF Queued, Lengthened, PassedOver
    <2>5. ASSUME Server \/ ~LeavesOut(q), NEW l \in LinksOf(Current)
          PROVE  l \in Seen \/ \E k \in 1 .. Len(q) : q[k][1] = l
        <3>1. PICK m \in 1 .. Len(PageLinks) : l = PageLinks[m] /\ l \notin input.excluded
            BY DEF LinksOf, PageLinks
        <3>2. CASE Server
            BY <2>2, <3>1, <3>2 DEF Queued
        <3>3. CASE ~LeavesOut(q)
            BY <3>1, <3>3 DEF LeavesOut, PageLinks
        <3> QED BY <2>5, <3>2, <3>3
    <2>6. Server \/ ~(Follows /\ LeavesOut(q)) => Followed(q)
        BY <1>2, <2>5 DEF Followed
    <2> QED BY <2>1, <2>4, <2>6
<1> QED BY <1>1, <1>2

LEMMA RecordingKeepsTypes ==
    ASSUME results \in Seq([page : Pages, ok : BOOLEAN]), NEW a \in [page : Pages, ok : BOOLEAN],
           NEW b \in [page : Pages, ok : BOOLEAN]
    PROVE  /\ Append(results, a) \in Seq([page : Pages, ok : BOOLEAN])
           /\ Len(Append(results, a)) = Len(results) + 1
           /\ results \o <<a, b>> \in Seq([page : Pages, ok : BOOLEAN])
           /\ Len(results \o <<a, b>>) = Len(results) + 2
           /\ Len(results) \in Nat
<1> SUFFICES ASSUME NEW R, results \in Seq(R), a \in R, b \in R
             PROVE  /\ Append(results, a) \in Seq(R) /\ Len(Append(results, a)) = Len(results) + 1
                    /\ results \o <<a, b>> \in Seq(R) /\ Len(results \o <<a, b>>) = Len(results) + 2
                    /\ Len(results) \in Nat
    OBVIOUS
<1> QED OBVIOUS

\* What a step that takes the head of the queue relies on.
LEMMA GoingOn ==
    ASSUME CrawlInv, CrawlGoesOn
    PROVE  /\ Crawling /\ queue # << >> /\ input # NoInput /\ Limited /\ dropped \in BOOLEAN
           /\ results \in Seq([page : Pages, ok : BOOLEAN]) /\ Len(results) \in Nat
           /\ input.max \in Int /\ Len(results) < input.max
           /\ \A ok \in BOOLEAN : Entry(ok) \in [page : Pages, ok : BOOLEAN]
<1>1. Crawling /\ queue # << >> /\ input # NoInput /\ Limited /\ dropped \in BOOLEAN
    BY DEF CrawlInv, CrawlTypes, CrawlGoesOn, BeforeCrawl, Crawling
<1>2. results \in Seq([page : Pages, ok : BOOLEAN])
    BY DEF CrawlInv, CrawlTypes
<1>3. Len(results) \in Nat
    BY <1>2
<1>4. input.max \in Int /\ Len(results) < input.max
    BY <1>1, CrawlAssumption DEF Crawling, Inputs, CrawlGoesOn
<1>5. \A ok \in BOOLEAN : Entry(ok) \in [page : Pages, ok : BOOLEAN]
    BY <1>1, CrawlingFacts DEF Entry
<1> QED BY <1>1, <1>2, <1>3, <1>4, <1>5

LEMMA RecordsFew ==
    ASSUME CrawlInv, CrawlGoesOn, input' = input, Len(results') \in Nat,
           Len(results') <= Len(results) + 2
    PROVE  Limited'
<1>1. Len(results) \in Nat /\ input.max \in Int /\ Len(results) < input.max
    BY GoingOn
<1>2. PICK n : n = Len(results')  OBVIOUS
<1>3. n <= input.max + 1  BY <1>1, <1>2
<1> QED BY <1>2, <1>3 DEF Limited

LEMMA SkipKeeps == ASSUME CrawlInv, SkipEntry PROVE CrawlInv'
<1>1. /\ CrawlGoesOn /\ queue' = Tail(queue) /\ UNCHANGED <<input, visited, results, dropped>>
      /\ Current \in DOMAIN visited \/ Excluded
    BY DEF SkipEntry
<1>2. Taken(visited')
    BY <1>1 DEF Taken, Excluded, PassedOver
<1>3. Lengthened(queue') /\ Followed(queue')
    <2>1. Crawling  BY <1>1, GoingOn
    <2>2. Followed(Tail(queue))
        BY <1>1 DEF Followed, Excluded, Open
    <2> QED BY <1>1, <2>1, <2>2, TailLengthens
<1>4. Limited'
    BY <1>1, GoingOn DEF Limited
<1> QED BY <1>1, <1>2, <1>3, <1>4, GoingOn, TakeKeeps

LEMMA VisitKeeps == ASSUME CrawlInv, VisitPage PROVE CrawlInv'
<1>1. /\ CrawlGoesOn /\ Current \notin DOMAIN visited /\ ~Excluded /\ Mark
      /\ input.mishap[Current] \in {"none", "link"} /\ results' = Append(results, Entry(Records))
      /\ queue' = QueueLinks /\ input' = input
      /\ dropped' = (dropped \/ (~Server /\ Follows /\ LeavesOut(QueueLinks)))
    BY DEF VisitPage, MayVisit
<1>2. Taken(visited')
    BY <1>1, MarkTakes
<1>3. results' \in Seq([page : Pages, ok : BOOLEAN]) /\ Limited'
    <2>1. /\ results' \in Seq([page : Pages, ok : BOOLEAN]) /\ Len(results') = Len(results) + 1
        <3>1. Records \in BOOLEAN
            BY DEF Records
        <3> QED BY <1>1, <3>1, GoingOn, RecordingKeepsTypes
    <2>2. Len(results) \in Nat  BY <1>1, GoingOn
    <2>3. Len(results') \in Nat /\ Len(results') <= Len(results) + 2
        BY <2>1, <2>2
    <2>4. Limited'
        BY <1>1, <2>3, RecordsFew
    <2> QED BY <2>1, <2>4
<1>4. CASE Open(Current)
    BY <1>1, <1>2, <1>3, <1>4, GoingOn, LinksLengthen, TakeKeeps
<1>5. CASE ~Open(Current)
    <2>1. Crawling /\ CrawlTypes /\ Walked
        BY <1>1, GoingOn DEF CrawlInv
    <2>2. input \in Inputs /\ CurrentDepth \in Nat /\ Current \in Near[CurrentDepth]
        BY <1>1, <2>1, WalkedTypes DEF Walked, InReach, Excluded, PassedOver, Crawling
    <2>3. Current \in input.excluded => Server /\ Current = StartPage
        BY <2>2, NearIsWanted
    <2> QED BY <1>1, <1>5, <2>3 DEF Open
<1> QED BY <1>4, <1>5

LEMMA FailureKeeps == ASSUME CrawlInv, PageDoesNotLoad PROVE CrawlInv'
<1>1. /\ CrawlGoesOn /\ Current \notin DOMAIN visited /\ ~Excluded /\ Mark
      /\ input.mishap[Current] = "load" /\ queue' = Tail(queue) /\ UNCHANGED <<input, dropped>>
      /\ results' = IF Server THEN Append(results, Entry(FALSE)) ELSE results
    BY DEF PageDoesNotLoad, MayVisit
<1>2. Taken(visited')
    BY <1>1, MarkTakes
<1>3. results' \in Seq([page : Pages, ok : BOOLEAN]) /\ Limited'
    <2>1. \/ results' = results /\ results \in Seq([page : Pages, ok : BOOLEAN])
          \/ results' \in Seq([page : Pages, ok : BOOLEAN]) /\ Len(results') = Len(results) + 1
        BY <1>1, GoingOn, RecordingKeepsTypes
    <2>2. Len(results) \in Nat  BY <1>1, GoingOn
    <2>3. Len(results') \in Nat /\ Len(results') <= Len(results) + 2
        BY <2>1, <2>2
    <2>4. Limited'
        BY <1>1, <2>3, RecordsFew
    <2> QED BY <2>1, <2>4
<1>4. Lengthened(queue') /\ Followed(queue')
    BY <1>1, GoingOn, TailLengthens DEF Followed, Open
<1> QED BY <1>1, <1>2, <1>3, <1>4, GoingOn, TakeKeeps

LEMMA LateFailureKeeps == ASSUME CrawlInv, PageFailsLate PROVE CrawlInv'
<1>1. /\ CrawlGoesOn /\ Current \notin DOMAIN visited /\ ~Excluded /\ Mark
      /\ input.mishap[Current] = "late" /\ UNCHANGED <<input, dropped>>
      /\ results' = IF Server THEN results \o <<Entry(TRUE), Entry(FALSE)>>
                    ELSE Append(results, Entry(TRUE))
      /\ queue' = IF Server THEN QueueLinks ELSE Tail(queue)
    BY DEF PageFailsLate, MayVisit
<1>2. Taken(visited')
    BY <1>1, MarkTakes
<1>3. results' \in Seq([page : Pages, ok : BOOLEAN]) /\ Limited'
    <2>1. /\ results' \in Seq([page : Pages, ok : BOOLEAN])
          /\ Len(results') = Len(results) + 1 \/ Len(results') = Len(results) + 2
        BY <1>1, GoingOn, RecordingKeepsTypes
    <2>2. Len(results) \in Nat  BY <1>1, GoingOn
    <2>3. Len(results') \in Nat /\ Len(results') <= Len(results) + 2
        BY <2>1, <2>2
    <2>4. Limited'
        BY <1>1, <2>3, RecordsFew
    <2> QED BY <2>1, <2>4
<1>4. Lengthened(queue') /\ Followed(queue')
    <2>1. CASE ~Server
        BY <1>1, <2>1, GoingOn, TailLengthens DEF Followed, Open
    <2>2. CASE Server
        <3>1. Crawling /\ CrawlTypes /\ Walked
            BY <1>1, GoingOn DEF CrawlInv
        <3>2. input \in Inputs /\ CurrentDepth \in Nat /\ Current \in Near[CurrentDepth]
            BY <1>1, <3>1, WalkedTypes DEF Walked, InReach, Excluded, PassedOver, Crawling
        <3>3. Current \in input.excluded => Server /\ Current = StartPage
            BY <3>2, NearIsWanted
        <3>4. Open(Current)
            BY <1>1, <2>2, <3>3 DEF Open
        <3> QED BY <1>1, <2>2, <3>1, <3>4, LinksLengthen
    <2> QED BY <2>1, <2>2
<1> QED BY <1>1, <1>2, <1>3, <1>4, GoingOn, TakeKeeps

LEMMA CrawlInvNext == CrawlInv /\ [CrawlNext]_crawlVars => CrawlInv'
<1> SUFFICES ASSUME CrawlInv, [CrawlNext]_crawlVars PROVE CrawlInv'
    OBVIOUS
<1>1. CASE UNCHANGED crawlVars
    <2>1. UNCHANGED <<input, visited, queue, results, dropped>>
        BY <1>1 DEF crawlVars
    <2>2. CrawlTypes' /\ (BeforeCrawl' <=> BeforeCrawl) /\ (Limited' <=> Limited)
        BY <2>1 DEF CrawlInv, CrawlTypes, Visits, Inputs, NoInput, BeforeCrawl, Limited
    <2>3. Walked' <=> Walked
        BY <2>1, SiteStays
           DEF Walked, Sorted, Behind, InReach, Within, PassedOver, Server, Covered, Covers,
               FollowsFrom, Exact
    <2> QED BY <2>1, <2>2, <2>3 DEF CrawlInv, NoInput
<1> QED BY <1>1, StartKeeps, SkipKeeps, VisitKeeps, FailureKeeps, LateFailureKeeps DEF CrawlNext

LEMMA CrawlInvMeans == CrawlInv => CrawlIsBreadthFirst
<1> SUFFICES ASSUME CrawlInv, input # NoInput PROVE CrawlIsBreadthFirst
    BY DEF CrawlIsBreadthFirst
<1>1. input \in Inputs /\ Visits(visited) /\ queue \in Seq(Entries) /\ Walked /\ Limited
    BY DEF CrawlInv, CrawlTypes
<1>2. input.depth \in Int /\ Cardinality(Pages) \in Nat /\ Deepest \in Nat
    <2>1. Cardinality(Pages) \in Nat  BY CrawlAssumption, FS_CardinalityType
    <2>2. input.depth \in Int  BY <1>1, CrawlAssumption DEF Inputs
    <2> QED BY <2>1, <2>2 DEF Deepest
<1>3. \A p \in DOMAIN visited : visited[p] \in Nat /\ Within(visited[p]) /\ p \in Near[visited[p]]
    BY <1>1 DEF Walked, InReach, Visits
<1>4. DOMAIN visited \subseteq Reach
    <2> SUFFICES ASSUME NEW p \in DOMAIN visited PROVE p \in Near[Deepest]
        BY DEF Reach
    <2>1. CASE input.depth = WholeSite
        BY <1>1, <1>3, <2>1, NearIsBounded DEF Deepest
    <2>2. CASE input.depth # WholeSite
        <3>1. visited[p] <= Deepest
            BY <1>2, <1>3, <2>2 DEF Within, Deepest
        <3> QED BY <1>1, <1>2, <1>3, <3>1, NearGrows
    <2> QED BY <2>1, <2>2
<1>5. ASSUME queue = << >>, ~dropped PROVE Reach \subseteq DOMAIN visited
    <2>1. Covered(visited, queue)  BY <1>1, <1>5 DEF Walked
    <2>2. \A i \in 1 .. Len(queue) : Deepest + 1 <= queue[i][2]  BY <1>5
    <2>3. ASSUME NEW d \in Nat, d + 1 < Deepest + 1 PROVE FollowsFrom(d)
        BY <1>2, <2>3 DEF FollowsFrom, Deepest
    <2>4. PICK k : k = Deepest + 1  OBVIOUS
    <2>5. /\ k \in Nat /\ Deepest < k /\ \A i \in 1 .. Len(queue) : k <= queue[i][2]
          /\ \A d \in Nat : d + 1 < k => FollowsFrom(d)
        BY <1>2, <2>2, <2>3, <2>4
    <2>6. \A p \in Near[Deepest] : p \in DOMAIN visited
        BY <1>1, <1>2, <2>1, <2>5, NearerIsVisited
    <2> QED BY <2>6 DEF Reach
<1>6. ASSUME ~dropped, NEW p \in DOMAIN visited, visited[p] > 0
      PROVE  p \notin Near[visited[p] - 1] /\ Near[visited[p] - 1] \subseteq DOMAIN visited
    BY <1>1, <1>6 DEF Walked, Exact
<1> QED BY <1>1, <1>3, <1>4, <1>5, <1>6 DEF CrawlIsBreadthFirst, Limited

\* A crawl of either service takes the nearest pages first, visits none out of
\* reach and, when its queue is empty and no link was left out because the queue
\* was long, has visited all in reach, for every site, depth and exclusion
\* (crawl of scraper_server.py, crawl_site of scraper.py).
THEOREM CrawlsAreBreadthFirst == CrawlSpec => []CrawlIsBreadthFirst
BY CrawlInvInit, CrawlInvNext, CrawlInvMeans, PTL DEF CrawlSpec

---------------------------------------------------------------------------
(* Types. *)

\* The invariant of the hooks says nothing of the tuples, that of the callback nothing
\* of who is billed.
GateKnown ==
  /\ configured \in BOOLEAN
  /\ \A t \in tuples : Writable(t)
  /\ DOMAIN requests \subseteq RequestIds

LEMMA GateKnownNext == GateKnown /\ [GateNext]_gateVars => GateKnown'
<1> SUFFICES ASSUME GateKnown, [GateNext]_gateVars PROVE GateKnown'
    OBVIOUS
<1>1. ASSUME NEW r \in RequestIds, NEW a \in GateAgents, NEW n \in GateTenants \cup {"none"},
             NEW m \in Models, NEW large \in BOOLEAN, NEW meta \in Metas,
             Arrive(r, a, n, m, meta, large)
      PROVE  GateKnown'
    BY <1>1 DEF Arrive, GateKnown, Writable, Put
<1>2. ASSUME NEW r \in RequestIds, NEW m \in Models, ArriveWithoutAgent(r, m)
      PROVE  GateKnown'
    BY <1>2 DEF ArriveWithoutAgent, GateKnown, Writable, Put
<1>3. ASSUME NEW r \in RequestIds,
             CheckModel(r) \/ CheckTenant(r) \/ ServiceDown(r) \/ AskPolicy(r) \/ Send(r)
      PROVE  GateKnown'
    <2>1. DOMAIN requests' = DOMAIN requests /\ UNCHANGED <<configured, tuples>>
        BY <1>3 DEF CheckModel, CheckTenant, ServiceDown, AskPolicy, Send, Goes
    <2> QED BY <2>1 DEF GateKnown, Writable
<1>4. ASSUME NEW t \in Candidates, GrantTuple(t)
      PROVE  GateKnown'
    BY <1>4 DEF GrantTuple, GateKnown, Writable
<1>5. ASSUME NEW t \in Candidates, RevokeTuple(t)
      PROVE  GateKnown'
    BY <1>5 DEF RevokeTuple, GateKnown, Writable
<1>6. CASE UNCHANGED gateVars
    BY <1>6 DEF gateVars, GateKnown, Writable
<1> QED BY <1>1, <1>2, <1>3, <1>4, <1>5, <1>6 DEF GateNext

BillKnown ==
  /\ BillTypeOK
  /\ \A q \in DOMAIN callbacks : callbacks[q].alias \in Aliases /\ callbacks[q].second \in 0 .. clock

LEMMA BillKnownNext == BillKnown /\ BillInv /\ [BillNext]_billVars => BillKnown'
<1> SUFFICES ASSUME BillKnown, BillInv, [BillNext]_billVars PROVE BillKnown'
    OBVIOUS
<1>0. clock \in Nat /\ ClockBound \in Nat
    BY ClockAssumption DEF BillInv
<1>1. CASE NextSecond
    <2>1. clock' = clock + 1 /\ clock < ClockBound /\ UNCHANGED <<callbacks, ledger>>
        BY <1>1 DEF NextSecond
    <2>2. clock' \in 0 .. ClockBound
        BY <1>0, <2>1
    <2>3. \A n \in 0 .. clock : n \in 0 .. clock'
        BY <1>0, <2>1
    <2> QED BY <2>1, <2>2, <2>3 DEF BillKnown, BillTypeOK
<1>2. ASSUME NEW q \in Completions, NEW alias \in Aliases, StartCallback(q, alias)
      PROVE  BillKnown'
    <2> DEFINE c == [alias |-> alias, second |-> clock, posted |-> 0, lost |-> {}]
    <2>1. c.alias \in Aliases /\ c.second \in 0 .. clock
        BY <1>0
    <2>2. callbacks' = Put(callbacks, q, c) /\ UNCHANGED <<clock, ledger>>
        BY <1>2 DEF StartCallback
    <2> HIDE DEF c
    <2> QED BY <2>1, <2>2 DEF Put, BillKnown, BillTypeOK
<1>3. ASSUME NEW q \in Completions, Posting(q)
      PROVE  /\ LagoEvent(q).alias \in Aliases /\ LagoEvent(q).second \in 0 .. clock
             /\ LagoEvent(q).of \in Completions
    BY <1>3 DEF Posting, LagoEvent, BillKnown
<1>4. ASSUME NEW q \in Completions, Posting(q), UNCHANGED clock,
             ledger' = ledger \/ ledger' = After(q),
             DOMAIN callbacks' = DOMAIN callbacks,
             \A p \in DOMAIN callbacks : /\ callbacks'[p].alias = callbacks[p].alias
                                         /\ callbacks'[p].second = callbacks[p].second
      PROVE  BillKnown'
    <2>1. \A e \in ledger' : e \in ledger \/ e = LagoEvent(q)
        BY <1>4 DEF After
    <2> QED BY <1>3, <1>4, <2>1 DEF BillKnown, BillTypeOK
<1>5. ASSUME NEW q \in Completions, Posting(q), NEW c, callbacks' = [callbacks EXCEPT ![q] = c],
             c.alias = callbacks[q].alias, c.second = callbacks[q].second
      PROVE  /\ DOMAIN callbacks' = DOMAIN callbacks
             /\ \A p \in DOMAIN callbacks : /\ callbacks'[p].alias = callbacks[p].alias
                                            /\ callbacks'[p].second = callbacks[p].second
    BY <1>5 DEF Posting
<1>6. ASSUME NEW q \in Completions, PostEvent(q) \/ PostRefused(q) \/ PostRaises(q)
      PROVE  BillKnown'
    <2>1. Posting(q) /\ UNCHANGED clock /\ (ledger' = ledger \/ ledger' = After(q))
        BY <1>6 DEF PostEvent, PostRefused, PostRaises, After
    <2>2. callbacks[q] \in Callbacks
        BY <2>1 DEF Posting, BillInv
    <2>3. PICK c : /\ callbacks' = [callbacks EXCEPT ![q] = c]
                   /\ c.alias = callbacks[q].alias /\ c.second = callbacks[q].second
        <3>1. CASE PostEvent(q)
            <4> DEFINE d == [callbacks[q] EXCEPT !.posted = @ + 1]
            <4>1. callbacks' = [callbacks EXCEPT ![q] = d]
                BY <2>1, <2>2, <3>1 DEF PostEvent, Posting, Callbacks
            <4>2. d.alias = callbacks[q].alias /\ d.second = callbacks[q].second
                BY <2>2 DEF Callbacks
            <4> QED BY <4>1, <4>2
        <3>2. CASE PostRefused(q)
            <4> DEFINE d == [callbacks[q] EXCEPT !.posted = @ + 1, !.lost = @ \cup {NextKind(q)}]
            <4>1. callbacks' = [callbacks EXCEPT ![q] = d]
                BY <2>1, <2>2, <3>2 DEF PostRefused, Posting, Callbacks
            <4>2. d.alias = callbacks[q].alias /\ d.second = callbacks[q].second
                BY <2>2 DEF Callbacks
            <4> QED BY <4>1, <4>2
        <3>3. CASE PostRaises(q)
            <4> DEFINE d == [callbacks[q] EXCEPT !.posted = Len(EventKinds),
                  !.lost = @ \cup {EventKinds[i] : i \in callbacks[q].posted + 1 .. Len(EventKinds)}]
            <4>1. callbacks' = [callbacks EXCEPT ![q] = d]
                BY <2>1, <2>2, <3>3 DEF PostRaises, Posting, Callbacks
            <4>2. d.alias = callbacks[q].alias /\ d.second = callbacks[q].second
                BY <2>2 DEF Callbacks
            <4> QED BY <4>1, <4>2
        <3> QED BY <1>6, <3>1, <3>2, <3>3
    <2> QED BY <1>4, <1>5, <2>1, <2>3
<1>7. CASE UNCHANGED billVars
    BY <1>7 DEF billVars, BillKnown, BillTypeOK
<1> QED BY <1>1, <1>2, <1>6, <1>7 DEF BillNext

---------------------------------------------------------------------------
(* Side by side. *)

\* Whichever program runs, the others stand still: a behaviour of Workloads is
\* one of the AutoGPT bridge, of both scraping services and their crawls, of the
\* gateway's hooks, of the billing callback and of the tenant sync
\* (create_autogpt_app, run_scrape_job, run_pipeline, crawl, sync_loop).
THEOREM ProgramsRunAlone == WorkloadsSpec =>
  AutoSpec /\ JobSpec /\ IndexSpec /\ CrawlSpec /\ GateSpec /\ BillSpec /\ SyncSpec
<1>1. WorkloadsInit =>
        AutoInit /\ JobInit /\ IndexInit /\ CrawlInit /\ GateInit /\ BillInit /\ SyncInit
    BY DEF WorkloadsInit
<1>2. [WorkloadsNext]_workloadVars => [AutoNext]_autoVars
    BY DEF WorkloadsNext, workloadVars, RunAutoGPT, RunScraperServer, RunScraper, RunCrawl,
           RunGateway, RunLago, RunSync
<1>3. [WorkloadsNext]_workloadVars => [JobNext]_jobVars
    BY DEF WorkloadsNext, workloadVars, RunAutoGPT, RunScraperServer, RunScraper, RunCrawl,
           RunGateway, RunLago, RunSync
<1>4. [WorkloadsNext]_workloadVars => [GateNext]_gateVars
    BY DEF WorkloadsNext, workloadVars, RunAutoGPT, RunScraperServer, RunScraper, RunCrawl,
           RunGateway, RunLago, RunSync
<1>5. [WorkloadsNext]_workloadVars => [BillNext]_billVars
    BY DEF WorkloadsNext, workloadVars, RunAutoGPT, RunScraperServer, RunScraper, RunCrawl,
           RunGateway, RunLago, RunSync
<1>6. [WorkloadsNext]_workloadVars => [IndexNext]_indexVars
    BY DEF WorkloadsNext, workloadVars, RunAutoGPT, RunScraperServer, RunScraper, RunCrawl,
           RunGateway, RunLago, RunSync
<1>7. [WorkloadsNext]_workloadVars => [CrawlNext]_crawlVars
    BY DEF WorkloadsNext, workloadVars, RunAutoGPT, RunScraperServer, RunScraper, RunCrawl,
           RunGateway, RunLago, RunSync
<1>8. [WorkloadsNext]_workloadVars => [SyncNext]_syncVars
    BY DEF WorkloadsNext, workloadVars, RunAutoGPT, RunScraperServer, RunScraper, RunCrawl,
           RunGateway, RunLago, RunSync
<1> QED BY <1>1, <1>2, <1>3, <1>4, <1>5, <1>6, <1>7, <1>8, PTL
        DEF WorkloadsSpec, AutoSpec, JobSpec, IndexSpec, CrawlSpec, GateSpec, BillSpec, SyncSpec

\* Every variable of every program keeps its type: above all, names refer to tasks
\* that exist, OpenFGA holds no tuple that its schema does not define, and queues
\* and results hold pages of the site (task_create, grant_model_access, crawl).
THEOREM ProgramsKeepTypes == WorkloadsSpec => []WorkloadsTypeOK
<1>1. AutoSpec => []AutoTypeOK
    <2>1. WorkInv => AutoTypeOK  BY DEF WorkInv
    <2> QED BY <2>1, WorkInvInit, WorkInvNext, PTL DEF AutoSpec
<1>2. JobSpec => []JobTypeOK
    <2>1. JobInv => JobTypeOK
        BY DEF JobInv, JobTypes, JobOK, Truthful, JobTypeOK, JobRecords, Tasks
    <2> QED BY <2>1, JobInvInit, JobInvNext, PTL DEF JobSpec
<1>3. IndexSpec => []IndexTypeOK
    <2>1. IndexInv => IndexTypeOK
        BY DEF IndexInv, IndexTypeOK, Shows, Tables, Chunks
    <2> QED BY <2>1, IndexInvInit, IndexInvNext, PTL DEF IndexSpec
<1>4. CrawlSpec => []CrawlTypeOK
    <2>1. CrawlInv => CrawlTypeOK
        BY DEF CrawlInv, CrawlTypes, Visits, Entries, CrawlTypeOK
    <2> QED BY <2>1, CrawlInvInit, CrawlInvNext, PTL DEF CrawlSpec
<1>5. GateSpec => []GateTypeOK
    <2>1. GateInit => GateKnown  BY DEF GateInit, GateKnown
    <2>2. GateInv /\ GateKnown => GateTypeOK
        BY DEF GateInv, GateKnown, GateTypeOK, RequestRecords
    <2> QED BY <2>1, <2>2, GateKnownNext, GateInvInit, GateInvNext, PTL DEF GateSpec
<1>6. BillSpec => []BillTypeOK
    <2>1. BillInit => BillKnown
        BY ClockAssumption DEF BillInit, BillKnown, BillTypeOK
    <2>2. BillKnown => BillTypeOK  BY DEF BillKnown
    <2> QED BY <2>1, <2>2, BillKnownNext, BillInvInit, BillInvNext, PTL DEF BillSpec
<1>7. /\ AutoTypeOK /\ JobTypeOK /\ IndexTypeOK /\ CrawlTypeOK /\ GateTypeOK /\ BillTypeOK
      /\ SyncTypeOK
      => WorkloadsTypeOK
    BY DEF WorkloadsTypeOK
<1> QED BY <1>1, <1>2, <1>3, <1>4, <1>5, <1>6, <1>7, SyncTypesAreKept, ProgramsRunAlone, PTL

\* What holds of each program alone holds of all of them: a task told completed
\* was worked on, jobs report what they have sent, a job that is ready can be
\* searched, crawls miss nothing that is nearer, usage that is not billed has one of
\* the causes UnbilledHasACause names (autogpt_bridge.py, run_scrape_job,
\* run_pipeline, crawl, LagoCallback).
THEOREM ProgramsKeepTheirWord ==
  WorkloadsSpec => [](/\ CompletedMeansWorked /\ ReportedIsStored /\ ReadyIsSearchable
                      /\ CrawlIsBreadthFirst /\ UnbilledHasACause)
BY ProgramsRunAlone, CompletedTasksWereWorked, JobsReportTruth, ReadyJobsAreSearchable,
   CrawlsAreBreadthFirst, UsageIsAccounted, PTL

==========================================================================
