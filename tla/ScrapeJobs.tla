---------------------------- MODULE ScrapeJobs ----------------------------
(***************************************************************************)
(* The jobs of the scraping server (playwright/scraper_server.py). A       *)
(* request makes a job and answers at once; the job runs behind it on the  *)
(* same event loop: it crawls, ensures the collection, turns every page    *)
(* into records (chunks with embeddings), stores the records batch by      *)
(* batch and counts what it has stored. What the crawl returns is module   *)
(* Crawl's matter; here it is a number of pages. Jobs live in memory: a    *)
(* restart forgets them, what they stored stays. Every record has an id of *)
(* its own, so that records are only counted. A batch is one request with  *)
(* a statement for each record: SurrealDB answers 200 although it refuses  *)
(* some of the statements, and the answer's body is not looked at.         *)
(***************************************************************************)
EXTENDS Integers, FiniteSets, FiniteSetsExt, Dicts

CONSTANTS JobIds,
          BatchSize,   \* records stored with one statement (25)
          PageBound,   \* bound on the pages a crawl returns
          ChunkBound   \* bound on the records made of one page

ASSUME BatchAssumption == BatchSize \in Nat \ {0}

VARIABLES jobs,       \* jobs[j]: what a client may ask of job j
          pipelines,  \* pipelines[j]: how far the pipeline of job j is
          stored,     \* stored[j]: records of job j in the database
          refused     \* refused[j]: records of job j that were refused unnoticed

jobVars == <<jobs, pipelines, stored, refused>>

Pending == [status |-> "pending", found |-> 0, scraped |-> 0, embedded |-> 0,
            errors |-> 0, summary |-> 0]

NoTask == [at |-> "none", left |-> 0, records |-> 0]

JobAt(j, place) == pipelines[j].at = place

\* A new job has an id that was never used.
StartScrape(j) ==
  /\ j \notin DOMAIN jobs /\ JobAt(j, "none") /\ stored[j] + refused[j] = 0
  /\ jobs' = Put(jobs, j, Pending)
  /\ pipelines' = [pipelines EXCEPT ![j].at = "queued"]
  /\ UNCHANGED <<stored, refused>>

RunScrape(j) ==
  /\ JobAt(j, "queued")
  /\ jobs' = [jobs EXCEPT ![j].status = "running"]
  /\ pipelines' = [pipelines EXCEPT ![j].at = "crawl"]
  /\ UNCHANGED <<stored, refused>>

CrawlReturns(j, pages) ==
  /\ JobAt(j, "crawl")
  /\ jobs' = [jobs EXCEPT ![j].found = pages]
  /\ pipelines' = [pipelines EXCEPT ![j].at = "ensure", ![j].left = pages]
  /\ UNCHANGED <<stored, refused>>

\* The answer of the database is not looked at.
EnsureCollection(j) ==
  /\ JobAt(j, "ensure")
  /\ pipelines' = [pipelines EXCEPT ![j].at = "pages"]
  /\ UNCHANGED <<jobs, stored, refused>>

\* Failed or empty; a page whose chunks are all too small leaves no trace.
BadPage(j) ==
  /\ JobAt(j, "pages") /\ pipelines[j].left > 0
  /\ pipelines' = [pipelines EXCEPT ![j].left = @ - 1]
  /\ \/ jobs' = [jobs EXCEPT ![j].errors = @ + 1]
     \/ UNCHANGED jobs
  /\ UNCHANGED <<stored, refused>>

\* Batches that could not be embedded are left out: there may be no record.
ScrapePage(j, n) ==
  /\ JobAt(j, "pages") /\ pipelines[j].left > 0
  /\ pipelines' = [pipelines EXCEPT ![j].left = @ - 1, ![j].records = @ + n]
  /\ jobs' = [jobs EXCEPT ![j].scraped = @ + 1]
  /\ UNCHANGED <<stored, refused>>

PagesDone(j) ==
  /\ JobAt(j, "pages") /\ pipelines[j].left = 0
  /\ pipelines' = [pipelines EXCEPT ![j].at = "store"]
  /\ UNCHANGED <<jobs, stored, refused>>

\* What has been sent of the records of job j once the batch under way is.
NextStored(j) == Min({jobs[j].embedded + BatchSize, pipelines[j].records})
BatchOf(j) == NextStored(j) - jobs[j].embedded

MoreBatches(j) == JobAt(j, "store") /\ jobs[j].embedded < pipelines[j].records

\* What may have arrived of the request that fails.
Arrives(j) ==
  /\ \/ UNCHANGED stored
     \/ JobAt(j, "store") /\ \E k \in 1 .. BatchOf(j) : stored' = [stored EXCEPT ![j] = @ + k]
  /\ UNCHANGED refused

\* Mutant: an error of the request is not raised.
StoreBatchUnchecked(j) ==
  /\ MoreBatches(j) /\ Arrives(j)
  /\ jobs' = [jobs EXCEPT ![j].embedded = NextStored(j)]
  /\ UNCHANGED pipelines

StoreBatch(j) ==
  /\ MoreBatches(j)
  /\ \E k \in 0 .. BatchOf(j) :
       /\ stored' = [stored EXCEPT ![j] = @ + k]
       /\ refused' = [refused EXCEPT ![j] = @ + BatchOf(j) - k]
  /\ jobs' = [jobs EXCEPT ![j].embedded = NextStored(j)]
  /\ UNCHANGED pipelines

MayFail(j) == pipelines[j].at \in {"crawl", "ensure"} \/ MoreBatches(j)

\* Mutant: what is raised ends the task and is not told.
PipelineRaises(j) ==
  /\ MayFail(j) /\ Arrives(j)
  /\ pipelines' = [pipelines EXCEPT ![j] = NoTask]
  /\ UNCHANGED jobs

\* The browser, the database or the way to it fails; of a batch whose answer is
\* lost any part may be stored all the same.
PipelineFails(j) ==
  /\ MayFail(j) /\ Arrives(j)
  /\ jobs' = [jobs EXCEPT ![j].status = "failed", ![j].errors = @ + 1]
  /\ pipelines' = [pipelines EXCEPT ![j] = NoTask]

\* Mutant: the word that the sidecar has for a job that is done.
FinishComplete(j) ==
  /\ JobAt(j, "store") /\ jobs[j].embedded = pipelines[j].records
  /\ jobs' = [jobs EXCEPT ![j].status = "complete", ![j].summary = pipelines[j].records]
  /\ pipelines' = [pipelines EXCEPT ![j] = NoTask]
  /\ UNCHANGED <<stored, refused>>

FinishScrape(j) ==
  /\ JobAt(j, "store") /\ jobs[j].embedded = pipelines[j].records
  /\ jobs' = [jobs EXCEPT ![j].status = "done", ![j].summary = pipelines[j].records]
  /\ pipelines' = [pipelines EXCEPT ![j] = NoTask]
  /\ UNCHANGED <<stored, refused>>

RestartServer ==
  /\ jobs # << >>
  /\ jobs' = << >> /\ pipelines' = [j \in JobIds |-> NoTask]
  /\ UNCHANGED <<stored, refused>>

JobInit ==
  /\ jobs = << >> /\ pipelines = [j \in JobIds |-> NoTask] /\ stored = [j \in JobIds |-> 0]
  /\ refused = [j \in JobIds |-> 0]

Pipeline(j) ==
  \/ RunScrape(j) \/ EnsureCollection(j) \/ BadPage(j) \/ PagesDone(j)
  \/ StoreBatch(j) \/ PipelineFails(j) \/ FinishScrape(j)
  \/ \E pages \in 0 .. PageBound : CrawlReturns(j, pages)
  \/ \E n \in 0 .. ChunkBound : ScrapePage(j, n)

JobNext ==
  \/ \E j \in JobIds : StartScrape(j) \/ Pipeline(j)
  \/ RestartServer

JobFairness == \A j \in JobIds : WF_jobVars(Pipeline(j))

JobSpec == JobInit /\ [][JobNext]_jobVars /\ JobFairness

---------------------------------------------------------------------------
Ended(j) == jobs[j].status \in {"done", "failed"}

JobTypeOK ==
  /\ DOMAIN jobs \subseteq JobIds
  /\ \A j \in DOMAIN jobs :
       jobs[j] \in [status : {"pending", "running", "done", "failed"}, found : Nat,
                    scraped : Nat, embedded : Nat, errors : Nat, summary : Nat]
  /\ pipelines \in [JobIds -> [at : {"none", "queued", "crawl", "ensure", "pages", "store"},
                           left : Nat, records : Nat]]
  /\ stored \in [JobIds -> Nat] /\ refused \in [JobIds -> Nat]

\* What a job tells it has embedded is in the database, but for what a statement
\* was refused, and at most one batch more is, the one whose answer was lost. A
\* job that is done has told all of it, a job that failed has said why
\* (run_scrape_job).
ReportedIsStored ==
  \A j \in DOMAIN jobs :
    LET sent == stored[j] + refused[j] IN
    /\ jobs[j].embedded <= sent
    /\ sent <= jobs[j].embedded + (IF jobs[j].status = "failed" THEN BatchSize ELSE 0)
    /\ jobs[j].status = "done" => jobs[j].summary = sent /\ JobAt(j, "none")
    /\ jobs[j].status = "failed" => jobs[j].errors > 0

\* A client that polls a job sees it end or, after a restart, finds it gone
\* (run_scrape_job, get_job).
JobsEnd == \A j \in JobIds : j \in DOMAIN jobs ~> (j \in DOMAIN jobs => Ended(j))

==========================================================================
