----------------------------- MODULE SiteIndex -----------------------------
(***************************************************************************)
(* The jobs of the scraping sidecar (playwright_scraper/scraper.py) and    *)
(* the collections they fill. A job crawls, sets its collection up (the    *)
(* table and its vector index), then takes the pages one at a time: it     *)
(* embeds all chunks of a page or, when that fails, none, and stores them  *)
(* one by one. The id of a chunk is a hash of the page's address with the  *)
(* chunk's number appended, so that chunks may share an id (the eleventh   *)
(* of /post/1 and the first of /post/11 do): the one stored last replaces  *)
(* the other. Several jobs may fill a collection, which anybody may delete *)
(* meanwhile; to store into a collection that is gone makes the table      *)
(* anew, without the index. Chunks that an earlier job stored and this one *)
(* does not have are left where they are. Jobs live in memory, a restart   *)
(* forgets them.                                                           *)
(***************************************************************************)
EXTENDS Integers, FiniteSets, Dicts

CONSTANTS IndexJobs, Collections, SitePages,
          Sites,         \* Sites[j]: the sets of pages that the crawl of job j may return
          ChunkCounts,   \* ChunkCounts[p]: how many chunks page p may have
          RecordId,      \* RecordId[<<p, i>>]: the id of chunk i of page p
          DeleteBound    \* bound on the deletions

ASSUME ChunkCountsAssumption == ChunkCounts \in [SitePages -> SUBSET (Nat \ {0})]
ASSUME SitesAssumption == Sites \in [IndexJobs -> SUBSET SUBSET SitePages]

VARIABLES indexJobs,    \* indexJobs[j]: the job j as clients see it
          indexTasks,   \* indexTasks[j]: how far the pipeline of job j is
          collections,  \* collections[c]: the table of c: its index and its chunks
          intact,       \* jobs that set their collection up, which nobody deleted since
          embeddedBy,   \* embeddedBy[j]: the chunks that job j has embedded and was not refused
          deleted       \* deletions so far

indexVars == <<indexJobs, indexTasks, collections, intact, embeddedBy, deleted>>

NoTable == [exists |-> FALSE, indexed |-> FALSE, chunks |-> {}]

IndexAt(j, place) == indexTasks[j].at = place
Into(j) == indexJobs[j].collection

NoIndexTask == [at |-> "none", left |-> {}, page |-> "none", total |-> 0, todo |-> {}]

RequestIndex(j, c) ==
  /\ j \notin DOMAIN indexJobs
  /\ indexJobs' = Put(indexJobs, j,
       [status |-> "queued", collection |-> c, rag_ready |-> FALSE, total_chunks |-> 0])
  /\ indexTasks' = [indexTasks EXCEPT ![j].at = "queued"]
  /\ UNCHANGED <<collections, intact, embeddedBy, deleted>>

RunPipeline(j) ==
  /\ IndexAt(j, "queued")
  /\ indexJobs' = [indexJobs EXCEPT ![j].status = "crawling"]
  /\ indexTasks' = [indexTasks EXCEPT ![j].at = "crawl"]
  /\ UNCHANGED <<collections, intact, embeddedBy, deleted>>

CrawledSite(j, pages) ==
  /\ IndexAt(j, "crawl")
  /\ indexJobs' = [indexJobs EXCEPT ![j].status = "extracting"]
  /\ indexTasks' = [indexTasks EXCEPT ![j].at = "setup", ![j].left = pages]
  /\ UNCHANGED <<collections, intact, embeddedBy, deleted>>

DefineIn(c) == collections' = [collections EXCEPT ![c].exists = TRUE, ![c].indexed = TRUE]

\* Or its statements are refused, which nobody notices.
SetupCollection(j) ==
  /\ IndexAt(j, "setup")
  /\ indexTasks' = [indexTasks EXCEPT ![j].at = "pages"]
  /\ \/ DefineIn(Into(j)) /\ intact' = intact \cup {j}
     \/ UNCHANGED <<collections, intact>>
  /\ UNCHANGED <<indexJobs, embeddedBy, deleted>>

\* A page without text has no chunks.
PassPage(j) ==
  /\ IndexAt(j, "pages")
  /\ \E p \in indexTasks[j].left : indexTasks' = [indexTasks EXCEPT ![j].left = @ \ {p}]
  /\ UNCHANGED <<indexJobs, collections, intact, embeddedBy, deleted>>

TakePage(j, p, n) ==
  /\ IndexAt(j, "pages") /\ p \in indexTasks[j].left
  /\ indexJobs' = [indexJobs EXCEPT ![j].status = "embedding"]
  /\ indexTasks' = [indexTasks EXCEPT ![j].at = "embed", ![j].left = @ \ {p}, ![j].page = p,
                                      ![j].total = @ + n, ![j].todo = {<<p, i>> : i \in 0 .. n - 1}]
  /\ UNCHANGED <<collections, intact, embeddedBy, deleted>>

EmbedPage(j) ==
  /\ IndexAt(j, "embed")
  /\ indexJobs' = [indexJobs EXCEPT ![j].status = "storing"]
  /\ \/ /\ indexTasks' = [indexTasks EXCEPT ![j].at = "store"]
        /\ embeddedBy' = [embeddedBy EXCEPT ![j] = @ \cup indexTasks[j].todo]
     \/ /\ indexTasks' = [indexTasks EXCEPT ![j].at = "store", ![j].todo = {}]
        /\ UNCHANGED embeddedBy
  /\ UNCHANGED <<collections, intact, deleted>>

IdsOf(chunks) == {RecordId[k] : k \in chunks}

\* Mutant: the id is made of the page alone.
UpsertPage(c, chunk) ==
  collections' = [collections EXCEPT ![c].exists = TRUE,
    ![c].chunks = {k \in @ : k[1] # chunk[1]} \cup {chunk}]

\* What was stored under the id is replaced.
Upsert(c, chunk) ==
  collections' = [collections EXCEPT ![c].exists = TRUE,
    ![c].chunks = {k \in @ : RecordId[k] # RecordId[chunk]} \cup {chunk}]

\* Chunks are stored in their order. A statement may be refused, which nobody
\* notices: the chunk no longer counts as one the job has to show for.
NextChunk(j) == CHOOSE k \in indexTasks[j].todo : \A m \in indexTasks[j].todo : k[2] <= m[2]

StoreChunk(j) ==
  /\ IndexAt(j, "store") /\ indexTasks[j].todo # {}
  /\ indexTasks' = [indexTasks EXCEPT ![j].todo = @ \ {NextChunk(j)}]
  /\ \/ Upsert(Into(j), NextChunk(j)) /\ UNCHANGED embeddedBy
     \/ embeddedBy' = [embeddedBy EXCEPT ![j] = @ \ {NextChunk(j)}] /\ UNCHANGED collections
  /\ UNCHANGED <<indexJobs, intact, deleted>>

PageStored(j) ==
  /\ IndexAt(j, "store") /\ indexTasks[j].todo = {}
  /\ indexTasks' = [indexTasks EXCEPT ![j].at = "pages", ![j].page = "none"]
  /\ UNCHANGED <<indexJobs, collections, intact, embeddedBy, deleted>>

\* The crawler or the database fails; what was sent may have arrived.
IndexFails(j) ==
  /\ indexTasks[j].at \in {"crawl", "setup", "store"}
  /\ IndexAt(j, "store") => indexTasks[j].todo # {}
  /\ indexJobs' = [indexJobs EXCEPT ![j].status = "failed"]
  /\ indexTasks' = [indexTasks EXCEPT ![j] = NoIndexTask]
  /\ \/ UNCHANGED collections
     \/ IndexAt(j, "store") /\ Upsert(Into(j), NextChunk(j))
     \/ IndexAt(j, "setup") /\ DefineIn(Into(j))
  /\ UNCHANGED <<intact, embeddedBy, deleted>>

IndexCompletes(j) ==
  /\ IndexAt(j, "pages") /\ indexTasks[j].left = {}
  /\ indexJobs' = [indexJobs EXCEPT ![j].status = "complete", ![j].rag_ready = TRUE,
                                    ![j].total_chunks = indexTasks[j].total]
  /\ indexTasks' = [indexTasks EXCEPT ![j] = NoIndexTask]
  /\ UNCHANGED <<collections, intact, embeddedBy, deleted>>

DeleteCollection(c) ==
  /\ deleted < DeleteBound /\ collections[c].exists
  /\ deleted' = deleted + 1
  /\ collections' = [collections EXCEPT ![c] = NoTable]
  /\ intact' = {j \in intact : Into(j) # c}
  /\ UNCHANGED <<indexJobs, indexTasks, embeddedBy>>

RestartSidecar ==
  /\ indexJobs # << >>
  /\ indexJobs' = << >> /\ indexTasks' = [j \in IndexJobs |-> NoIndexTask]
  /\ intact' = {} /\ embeddedBy' = [j \in IndexJobs |-> {}]
  /\ UNCHANGED <<collections, deleted>>

IndexInit ==
  /\ indexJobs = << >> /\ indexTasks = [j \in IndexJobs |-> NoIndexTask]
  /\ collections = [c \in Collections |-> NoTable]
  /\ intact = {} /\ embeddedBy = [j \in IndexJobs |-> {}] /\ deleted = 0

IndexStep(j) ==
  \/ RunPipeline(j) \/ SetupCollection(j) \/ PassPage(j) \/ EmbedPage(j)
  \/ StoreChunk(j) \/ PageStored(j) \/ IndexFails(j) \/ IndexCompletes(j)
  \/ \E pages \in Sites[j] : CrawledSite(j, pages)
  \/ \E p \in SitePages : \E n \in ChunkCounts[p] : TakePage(j, p, n)

IndexNext ==
  \/ \E j \in IndexJobs :
       \/ \E c \in Collections : RequestIndex(j, c)
       \/ IndexStep(j)
  \/ \E c \in Collections : DeleteCollection(c)
  \/ RestartSidecar

IndexSpec == IndexInit /\ [][IndexNext]_indexVars

---------------------------------------------------------------------------
IndexTypeOK ==
  /\ DOMAIN indexJobs \subseteq IndexJobs
  /\ \A c \in Collections : collections[c].chunks \subseteq SitePages \X Nat
  /\ intact \subseteq DOMAIN indexJobs
  /\ \A j \in IndexJobs : embeddedBy[j] \subseteq SitePages \X Nat

\* A job that is ready for retrieval has its collection indexed and in it, for
\* every chunk it embedded, that chunk or another one with the same id, whatever
\* other jobs stored or failed to store there. That is all it has: it says nothing
\* of a job whose collection was deleted since it was set up or whose set-up was
\* refused, nor of the chunks that SurrealDB refused; the pipeline is told of
\* neither (run_pipeline, store_page, delete_collection).
ReadyIsSearchable ==
  \A j \in DOMAIN indexJobs : indexJobs[j].rag_ready /\ j \in intact =>
    /\ collections[Into(j)].indexed
    /\ IdsOf(embeddedBy[j]) \subseteq IdsOf(collections[Into(j)].chunks)
    /\ Cardinality(embeddedBy[j]) <= indexJobs[j].total_chunks

==========================================================================
