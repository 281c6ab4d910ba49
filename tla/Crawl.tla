------------------------------- MODULE Crawl -------------------------------
(***************************************************************************)
(* How the two scraping services walk a site: the server (playwright/      *)
(* scraper_server.py, crawl) and the sidecar (playwright_scraper/          *)
(* scraper.py, crawl_site). Both take the oldest entry of a queue, visit   *)
(* it unless they have before, and queue the links of the page that lead   *)
(* to the same host while the depth allows it. They differ in what they    *)
(* queue, what they leave out and what they count:                         *)
(*   the server queues a link once and never an excluded kind of file, and *)
(*   counts a page that failed;                                            *)
(*   the sidecar queues links as long as the queue is short, passes over   *)
(*   excluded addresses when their turn comes, and counts loaded pages.    *)
(* A page may fail to load, or fail once its text is taken: the server     *)
(* has queued its links by then and records the failure beside the page,   *)
(* the sidecar has recorded it and follows none of its links. Or it has an *)
(* address among its links that urlparse refuses: both have queued the     *)
(* links before it by then, the server records a failure in place of the   *)
(* page. Of such a page the links are those before that address.           *)
(***************************************************************************)
EXTENDS Integers, Sequences, FiniteSets, Dicts

CONSTANTS Pages, StartPage,
          LinkLists,    \* what the links of a page may be, in their order
          Mishaps,      \* functions from Pages: what goes wrong with each
          Exclusions,   \* sets of pages that a request excludes
          Depths,       \* depths that are asked for
          Limits,       \* limits on the number of pages
          QueueLimit    \* the length at which the sidecar queues no more (500)

WholeSite == 0 - 1

Mishap == {"none", "load", "late", "link"}

ASSUME CrawlAssumption ==
  /\ StartPage \in Pages /\ IsFiniteSet(Pages)
  /\ LinkLists \subseteq Seq(Pages)
  /\ Mishaps \subseteq [Pages -> Mishap]
  /\ Exclusions \subseteq SUBSET Pages
  /\ Depths \subseteq Int /\ Limits \subseteq Int /\ QueueLimit \in Int

VARIABLES input,        \* the request and the site; neither changes during a crawl
          visited,      \* visited[p]: the depth at which p was visited
          queue,        \* <<page, depth>> still to visit
          results,      \* the pages recorded, failed ones included
          dropped       \* whether a link was left out because the queue was long

crawlVars == <<input, visited, queue, results, dropped>>

Programs == {"server", "sidecar"}

Inputs == [program : Programs, links : [Pages -> LinkLists], mishap : Mishaps,
           excluded : Exclusions, depth : Depths, max : Limits]

NoInput == [program |-> "none", max |-> 0]

Server == input.program = "server"

CrawlGoesOn == queue # << >> /\ Len(results) < input.max

Current == Head(queue)[1]
CurrentDepth == Head(queue)[2]

Follows == input.depth = WholeSite \/ CurrentDepth < input.depth

Excluded == ~Server /\ Current \in input.excluded

Seen == DOMAIN visited \cup {Current}

\* Mutant: a link is queued at the depth of the page it is on.
ServerQueuesFlat(q, link) ==
  IF link \notin Seen \cup input.excluded /\ \A i \in 1 .. Len(q) : q[i][1] # link
  THEN Append(q, <<link, CurrentDepth>>) ELSE q

\* One link of the current page, with the queue as the links before it left it.
ServerQueues(q, link) ==
  IF link \notin Seen \cup input.excluded /\ \A i \in 1 .. Len(q) : q[i][1] # link
  THEN Append(q, <<link, CurrentDepth + 1>>) ELSE q

SidecarQueues(q, link) ==
  IF link \notin Seen /\ Len(q) < QueueLimit
  THEN Append(q, <<link, CurrentDepth + 1>>) ELSE q

\* The queue when the first i links of the current page have been looked at.
QueueAfter[i \in 0 .. Len(input.links[Current])] ==
  IF i = 0 THEN Tail(queue)
  ELSE LET q == QueueAfter[i - 1]
           link == input.links[Current][i]
       IN  IF Server THEN ServerQueues(q, link) ELSE SidecarQueues(q, link)

QueueLinks == IF Follows THEN QueueAfter[Len(input.links[Current])] ELSE Tail(queue)

LeavesOut(q) ==
  \E i \in 1 .. Len(input.links[Current]) :
    LET link == input.links[Current][i] IN
    link \notin Seen /\ ~\E k \in 1 .. Len(q) : q[k][1] = link

Mark == visited' = Put(visited, Current, CurrentDepth)

Entry(ok) == [page |-> Current, ok |-> ok]

SkipEntry ==
  /\ CrawlGoesOn
  /\ Current \in DOMAIN visited \/ Excluded
  /\ queue' = Tail(queue)
  /\ UNCHANGED <<input, visited, results, dropped>>

MayVisit == CrawlGoesOn /\ Current \notin DOMAIN visited /\ ~Excluded

\* An address that urlparse refuses is only met when the links are looked at,
\* after the sidecar and before the server has recorded the page.
Records == input.mishap[Current] = "none" \/ ~Follows \/ ~Server

VisitPage ==
  /\ MayVisit /\ input.mishap[Current] \in {"none", "link"}
  /\ Mark
  /\ results' = Append(results, Entry(Records))
  /\ queue' = QueueLinks
  /\ dropped' = (dropped \/ (~Server /\ Follows /\ LeavesOut(QueueLinks)))
  /\ UNCHANGED input

PageDoesNotLoad ==
  /\ MayVisit /\ input.mishap[Current] = "load"
  /\ Mark
  /\ results' = IF Server THEN Append(results, Entry(FALSE)) ELSE results
  /\ queue' = Tail(queue)
  /\ UNCHANGED <<input, dropped>>

PageFailsLate ==
  /\ MayVisit /\ input.mishap[Current] = "late"
  /\ Mark
  /\ results' = IF Server THEN results \o <<Entry(TRUE), Entry(FALSE)>>
                ELSE Append(results, Entry(TRUE))
  /\ queue' = IF Server THEN QueueLinks ELSE Tail(queue)
  /\ UNCHANGED <<input, dropped>>

CrawlInit ==
  /\ input = NoInput
  /\ visited = << >> /\ queue = << >> /\ results = << >> /\ dropped = FALSE

StartCrawl ==
  /\ input = NoInput
  /\ input' \in Inputs
  /\ queue' = <<<<StartPage, 0>>>>
  /\ UNCHANGED <<visited, results, dropped>>

CrawlNext == StartCrawl \/ SkipEntry \/ VisitPage \/ PageDoesNotLoad \/ PageFailsLate

CrawlSpec == CrawlInit /\ [][CrawlNext]_crawlVars

---------------------------------------------------------------------------
(* The pages at most k links away, by the links that are followed. *)

Open(p) ==
  /\ input.mishap[p] # "load"
  /\ input.mishap[p] = "late" => Server
  /\ p \in input.excluded => Server /\ p = StartPage

LinksOf(p) == {input.links[p][i] : i \in 1 .. Len(input.links[p])} \ input.excluded

Near[k \in Nat] ==
  IF k = 0 THEN IF ~Server /\ StartPage \in input.excluded THEN {} ELSE {StartPage}
  ELSE LET nearer == Near[k - 1]
       IN  nearer \cup UNION {LinksOf(p) : p \in {q \in nearer : Open(q)}}

\* No page is further away than there are pages. A depth below zero, unless
\* it stands for the whole site, is as good as zero.
Deepest ==
  IF input.depth = WholeSite THEN Cardinality(Pages)
  ELSE IF input.depth < 0 THEN 0 ELSE input.depth

Reach == Near[Deepest]

CrawlTypeOK ==
  /\ DOMAIN visited \subseteq Pages
  /\ queue \in Seq(Pages \X Nat)
  /\ results \in Seq([page : Pages, ok : BOOLEAN])
  /\ dropped \in BOOLEAN

\* A crawl takes the nearest pages first and, unless the limit on the pages
\* stops it, every page in reach: the depth of a page is the least number of
\* links to it, nothing nearer is missing when it is visited, and only a queue
\* that grew too long makes the sidecar miss one. The limit is exceeded by one
\* entry at most, when the last page fails after it was recorded
\* (crawl and crawl_site).
CrawlIsBreadthFirst ==
  input # NoInput =>
  /\ ~dropped => \A p \in DOMAIN visited :
       LET d == visited[p] IN
       p \in Near[d] /\ (d > 0 => p \notin Near[d - 1] /\ Near[d - 1] \subseteq DOMAIN visited)
  /\ DOMAIN visited \subseteq Reach
  /\ queue = << >> /\ ~dropped => DOMAIN visited = Reach
  /\ results = << >> \/ Len(results) <= input.max + 1

==========================================================================
