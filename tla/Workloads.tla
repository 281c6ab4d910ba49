----------------------------- MODULE Workloads -----------------------------
(***************************************************************************)
(* The programs around the gateway, each a process of its own: the AutoGPT *)
(* bridge, the two scraping services, the hooks of the gateway and its     *)
(* billing callback, the tenant sync. They share no state that is          *)
(* modelled, so that a behaviour is one of a chosen program. Three of them *)
(* must get on: the loop of a bridge's task, the pipeline of a scraping    *)
(* job and the loop of the tenant sync are run as long as they can go on.  *)
(***************************************************************************)
EXTENDS AutoTasks, ScrapeJobs, SiteIndex, Crawl, Gateway, Billing, TenantSync

VARIABLE program   \* the program that runs

workloadVars == <<program, autoVars, jobVars, indexVars, crawlVars, gateVars, billVars,
                  syncVars>>

ProgramNames == {"autogpt", "scraper_server", "scraper", "crawl", "gateway", "lago", "sync"}

WorkloadsInit ==
  /\ program \in ProgramNames
  /\ AutoInit /\ JobInit /\ IndexInit /\ CrawlInit /\ GateInit /\ BillInit
  /\ SyncInit

RunAutoGPT ==
  /\ program = "autogpt" /\ AutoNext
  /\ UNCHANGED <<program, jobVars, indexVars, crawlVars, gateVars, billVars, syncVars>>

RunScraperServer ==
  /\ program = "scraper_server" /\ JobNext
  /\ UNCHANGED <<program, autoVars, indexVars, crawlVars, gateVars, billVars, syncVars>>

RunScraper ==
  /\ program = "scraper" /\ IndexNext
  /\ UNCHANGED <<program, autoVars, jobVars, crawlVars, gateVars, billVars, syncVars>>

RunCrawl ==
  /\ program = "crawl" /\ CrawlNext
  /\ UNCHANGED <<program, autoVars, jobVars, indexVars, gateVars, billVars, syncVars>>

RunGateway ==
  /\ program = "gateway" /\ GateNext
  /\ UNCHANGED <<program, autoVars, jobVars, indexVars, crawlVars, billVars, syncVars>>

RunLago ==
  /\ program = "lago" /\ BillNext
  /\ UNCHANGED <<program, autoVars, jobVars, indexVars, crawlVars, gateVars, syncVars>>

RunSync ==
  /\ program = "sync" /\ SyncNext
  /\ UNCHANGED <<program, autoVars, jobVars, indexVars, crawlVars, gateVars, billVars>>

WorkloadsNext ==
  RunAutoGPT \/ RunScraperServer \/ RunScraper \/ RunCrawl \/ RunGateway \/ RunLago \/ RunSync

WorkloadsSpec ==
  /\ WorkloadsInit /\ [][WorkloadsNext]_workloadVars
  /\ AutoFairness /\ JobFairness /\ WF_workloadVars(RunSync /\ Sync)

---------------------------------------------------------------------------
\* The variables of the programs keep their types: above all, names refer to
\* tasks that exist and OpenFGA holds no tuple that its schema does not define.
WorkloadsTypeOK ==
  /\ AutoTypeOK /\ JobTypeOK /\ IndexTypeOK /\ CrawlTypeOK /\ GateTypeOK /\ BillTypeOK
  /\ SyncTypeOK

==========================================================================
