------------------------ MODULE DashboardPublishing ------------------------
(***************************************************************************)
(* From reports to the published site.                                      *)
(*                                                                          *)
(* Labs write reports under runs/, the dashboard commands aggregate all     *)
(* reports of a kind into a data file and a page, and publish_dashboards    *)
(* copies both into docs/ with an index drawn from the data, and for every  *)
(* engine pair and task the page of its latest agent report.                *)
(*                                                                          *)
(* All three are processes of their own that may run at the same time and   *)
(* die at any point.  A file that is being written exists but is not whole. *)
(* Statistics are small numbers: every report measures another one.         *)
(***************************************************************************)
EXTENDS Integers, Sequences, FiniteSets, SequencesExt, FiniteSetsExt

CONSTANTS
  Subjects,     \* what reports are about: kind, engine pair and task
  Cards,        \* the kinds that are published, in the order of CARDS
  Cells,        \* the engine pairs that have a tile on the index
  Blocked,      \* the engine pairs that are kept from every page
  SafeName,     \* the file name of a task
  MaxStarts,    \* bound: how many reports, builds and publications are started
  None          \* nothing: no process, no payload, no tile

Kinds == {s.kind : s \in Subjects} \cup ToSet(Cards)
Pairs == {s.pair : s \in Subjects} \cup Cells

\* Every card has a name of its own.
ASSUME PublishingAssumption ==
  /\ Subjects \subseteq [kind : {"dense", "router", "agent", "endpoint"},
                        pair : Pairs, task : Nat]
  /\ Cards \in Seq({"dense", "router", "agent"}) /\ Cards # <<>>
  /\ IsInjective(Cards)
  /\ Cells \cap Blocked = {}
  /\ MaxStarts \in Nat

VARIABLES
  count,     \* how many reports, builds and publications were started
  reports,   \* the report directories under runs/
  dash,      \* per kind the dashboard's data file and page under runs/
  building,  \* the dashboard command in progress
  pub,       \* the publication in progress
  site       \* the files under docs/

vars == <<count, reports, dash, building, pub, site>>

\* A file that is not there; the others are known by the build that wrote them.
Missing == [build |-> 0, whole |-> FALSE]

Exists(file) == file.build # 0

Started == count.reports + count.builds + count.publications

----------------------------------------------------------------------------
(* The labs.                                                                *)

\* How far a report is: its file exists, is written, and for agents a page beside
\* it exists and is written.
Opened == 1
Written == 2
PageOpened == 3
PageWritten == 4

\* Dense and router reports go to a directory named for what they are about and
\* replace an earlier one; the others have a new directory for every run.
InPlace(r) == r.kind \in {"dense", "router"}

\* The time a directory was last changed: when a file was created in it.
Now == 1 + Max({r.at : r \in reports} \cup {0})

StartReport(s) ==
  LET new == [kind |-> s.kind, pair |-> s.pair, task |-> s.task,
              run |-> count.reports + 1, stage |-> Opened, began |-> Now, at |-> Now]
  IN  /\ Started < MaxStarts
      /\ count' = [count EXCEPT !.reports = @ + 1]
      /\ reports' = {r \in reports : ~(InPlace(new) /\ r.kind = s.kind /\
                                       r.pair = s.pair /\ r.task = s.task)} \cup {new}
      /\ UNCHANGED <<dash, building, pub, site>>

\* A file is written; only agent reports get a page, created in their directory.
Advance(r) ==
  /\ r.stage < (IF r.kind = "agent" THEN PageWritten ELSE Written)
  /\ reports' = (reports \ {r}) \cup
       {[r EXCEPT !.stage = @ + 1, !.at = IF r.stage = Written THEN Now ELSE @]}
  /\ UNCHANGED <<count, dash, building, pub, site>>

----------------------------------------------------------------------------
(* The dashboard commands.                                                  *)

\* load_reports_from_paths raises unless every report of the kind is whole.
Loadable(kind) == \A r \in reports : r.kind = kind => r.stage >= Written

\* Of several probes of an endpoint only the latest makes it to the dashboard.
LatestPerPair(rows) ==
  {r \in rows : \A x \in rows : x.pair = r.pair => x.run <= r.run}

RowsOf(kind, loaded) == IF kind = "endpoint" THEN LatestPerPair(loaded) ELSE loaded

GroupOf_ByRollout(rows, pair) ==  \* (mutant)
  {r \in rows : r.pair[1] = pair[1]}

\* The rows of one engine pair, that is of both engines.
GroupOf(rows, pair) == {r \in rows : r.pair = pair}

\* Aggregates of a group: how many, their sum (of which means are made), the worst.
Aggregate(group) ==
  IF group = {} THEN None
  ELSE [count |-> Cardinality(group), sum |-> SumSet({r.run : r \in group}),
        worst |-> Max({r.run : r \in group})]

EnginePairs(rows) == [p \in Pairs |-> Aggregate(GroupOf(rows, p))]

\* A page shows the rows of all pairs but the blocked ones; that of the agents
\* shows trajectories and no rows.
Visible(kind, rows) ==
  IF kind = "agent" THEN {} ELSE {r \in rows : r.pair \notin Blocked}

StartBuild(kind) ==
  /\ building = None
  /\ Started < MaxStarts
  /\ Loadable(kind)
  /\ LET loaded == {r \in reports : r.kind = kind}
     IN  building' = [kind |-> kind, build |-> count.builds + 1, step |-> 1,
                      loaded |-> loaded, rows |-> RowsOf(kind, loaded)]
  /\ count' = [count EXCEPT !.builds = @ + 1]
  /\ UNCHANGED <<reports, dash, pub, site>>

\* write_dashboard: the data file is opened and written, then the page.
BuildStep ==
  /\ building # None
  /\ LET b == building
         whole == b.step \in {2, 4}
     IN  /\ dash' = IF b.step <= 2
                    THEN [dash EXCEPT ![b.kind].json =
                           [build |-> b.build, whole |-> whole, rows |-> b.rows,
                            pairs |-> EnginePairs(b.rows)]]
                    ELSE [dash EXCEPT ![b.kind].html =
                           [build |-> b.build, whole |-> whole, loaded |-> b.loaded,
                            rows |-> Visible(b.kind, b.rows)]]
         /\ building' = IF b.step = 4 THEN None ELSE [b EXCEPT !.step = @ + 1]
  /\ UNCHANGED <<count, reports, pub, site>>

BuildCrash ==
  /\ building # None
  /\ building' = None
  /\ UNCHANGED <<count, reports, dash, pub, site>>

----------------------------------------------------------------------------
(* publish_dashboards.                                                      *)

StartPublication ==
  /\ pub = None
  /\ Started < MaxStarts
  /\ count' = [count EXCEPT !.publications = @ + 1]
  /\ pub' = [step |-> "card", card |-> 1, payload |-> [k \in ToSet(Cards) |-> None],
             todo |-> {}]
  /\ site' = [site EXCEPT !.done = FALSE]
  /\ UNCHANGED <<reports, dash, building>>

AtCard(step) == pub # None /\ pub.step = step
Card == Cards[pub.card]

NextCard_Early(x) ==  \* (mutant)
  [pub EXCEPT !.card = @ + 1, !.payload[Card] = x,
              !.step = IF pub.card + 1 = Len(Cards) THEN "index" ELSE "card"]

\* The publication after the current card, whose payload is x.
NextCard(x) ==
  [pub EXCEPT !.card = @ + 1, !.payload[Card] = x,
              !.step = IF pub.card = Len(Cards) THEN "index" ELSE "card"]

\* A dashboard without a page is not ready; its old files stay in docs/.
SkipCard ==
  /\ AtCard("card")
  /\ ~Exists(dash[Card].html)
  /\ pub' = NextCard(None)
  /\ UNCHANGED <<count, reports, dash, building, site>>

CopyPage ==
  /\ AtCard("card")
  /\ Exists(dash[Card].html)
  /\ site' = [site EXCEPT !.html[Card] = dash[Card].html]
  /\ pub' = [pub EXCEPT !.step = "data"]
  /\ UNCHANGED <<count, reports, dash, building>>

CopyData ==
  /\ AtCard("data")
  /\ site' = [site EXCEPT !.json[Card] = dash[Card].json]
  /\ pub' = [pub EXCEPT !.step = "payload"]
  /\ UNCHANGED <<count, reports, dash, building>>

\* The payload is read from runs/ once more; what cannot be parsed is as good as
\* nothing.
ReadPayload ==
  /\ AtCard("payload")
  /\ LET j == dash[Card].json
     IN  pub' = NextCard([build |-> j.build, whole |-> j.whole,
                          pairs |-> IF j.whole THEN j.pairs ELSE [p \in Pairs |-> None]])
  /\ UNCHANGED <<count, reports, dash, building, site>>

\* render_index draws a tile for every cell from the payload; the agent card has none.
Tiles(k, x) ==
  [build |-> x.build, whole |-> x.whole,
   tile |-> [c \in IF k = "agent" THEN {} ELSE Cells |-> x.pairs[c]]]

WriteIndex ==
  /\ AtCard("index")
  /\ site' = [site EXCEPT !.index = [k \in ToSet(Cards) |->
                IF pub.payload[k] = None THEN None ELSE Tiles(k, pub.payload[k])]]
  /\ pub' = [pub EXCEPT !.step = "scan"]
  /\ UNCHANGED <<count, reports, dash, building>>

Newer_FirstFound(a, b) == a.run < b.run  \* (mutant)

\* A replicate takes the place of another one when its directory is newer.
Newer(a, b) == a.at > b.at

AgentReports == {r \in reports : r.kind = "agent"}

\* Reports that can be read and have a page.
WithPage == {r \in AgentReports : r.stage >= PageOpened}

\* For every pair and task the latest of them.
LatestReports ==
  {r \in WithPage : \A x \in WithPage :
     x.pair = r.pair /\ x.task = r.task => ~Newer(x, r)}

\* Without agent reports nothing is done and old pages stay in docs/; otherwise
\* the latest pages are determined and all old ones removed.
ScanReports ==
  /\ AtCard("scan")
  /\ IF AgentReports = {}
     THEN /\ pub' = None
          /\ site' = [site EXCEPT !.done = TRUE, !.scanned = None]
     ELSE /\ pub' = [pub EXCEPT !.step = "pages", !.todo = LatestReports]
          /\ site' = [site EXCEPT !.pages = {}, !.scanned = AgentReports]
  /\ UNCHANGED <<count, reports, dash, building>>

\* A page is copied as it is by now, over one of the same name.  The pages of a
\* pair are copied in the order of their tasks.
CopyAgentPage ==
  /\ AtCard("pages")
  /\ \E found \in pub.todo :
       /\ \A x \in pub.todo : x.pair = found.pair => found.task <= x.task
       /\ LET source == CHOOSE r \in reports : r.kind = "agent" /\ r.run = found.run
              new == [pair |-> found.pair, name |-> SafeName[found.task], run |-> found.run,
                      whole |-> source.stage = PageWritten]
          IN  site' = [site EXCEPT !.pages =
                {x \in @ : ~(x.pair = new.pair /\ x.name = new.name)} \cup {new}]
       /\ pub' = [pub EXCEPT !.todo = @ \ {found}]
  /\ UNCHANGED <<count, reports, dash, building>>

EndPublication ==
  /\ AtCard("pages")
  /\ pub.todo = {}
  /\ pub' = None
  /\ site' = [site EXCEPT !.done = TRUE]
  /\ UNCHANGED <<count, reports, dash, building>>

PublicationCrash ==
  /\ pub # None
  /\ pub' = None
  /\ UNCHANGED <<count, reports, dash, building, site>>

\* A fresh checkout has docs/ but not runs/, which git ignores.
FreshCheckout ==
  /\ {pub, building} = {None}
  /\ reports # {} \/ \E k \in Kinds : Exists(dash[k].json)
  /\ reports' = {}
  /\ dash' = [k \in Kinds |-> [json |-> Missing, html |-> Missing]]
  /\ UNCHANGED <<count, building, pub, site>>

----------------------------------------------------------------------------
Init ==
  /\ count = [reports |-> 0, builds |-> 0, publications |-> 0]
  /\ reports = {}
  /\ dash = [k \in Kinds |-> [json |-> Missing, html |-> Missing]]
  /\ building = None
  /\ pub = None
  /\ site = [html |-> [k \in ToSet(Cards) |-> Missing],
             json |-> [k \in ToSet(Cards) |-> Missing],
             index |-> [k \in ToSet(Cards) |-> None], pages |-> {}, scanned |-> None,
             done |-> FALSE]

Next ==
  \/ \E s \in Subjects : StartReport(s)
  \/ \E r \in reports : Advance(r)
  \/ \E k \in Kinds : StartBuild(k)
  \/ BuildStep \/ BuildCrash
  \/ StartPublication \/ SkipCard \/ CopyPage \/ CopyData \/ ReadPayload
  \/ WriteIndex \/ ScanReports \/ CopyAgentPage \/ EndPublication
  \/ PublicationCrash \/ FreshCheckout

Spec == Init /\ [][Next]_vars

----------------------------------------------------------------------------
(* Properties.                                                              *)

IsFile(x) == x.build \in 0..MaxStarts /\ x.whole \in BOOLEAN /\ (x.whole => Exists(x))

\* Every variable has its type: reports that were started, files of builds that
\* were started, a publication at one of its steps.
TypeOK ==
  /\ count \in [reports : 0..MaxStarts, builds : 0..MaxStarts,
                publications : 0..MaxStarts]
  /\ \A r \in reports : /\ [kind |-> r.kind, pair |-> r.pair, task |-> r.task] \in Subjects
                        /\ r.run \in 1..count.reports
                        /\ r.stage \in Opened..PageWritten
                        /\ r.began <= r.at
  /\ \A r, x \in reports : r.run = x.run => r = x
  /\ \A k \in Kinds : IsFile(dash[k].json) /\ IsFile(dash[k].html)
  /\ building # None => building.step \in 1..4 /\ building.build <= count.builds
  /\ pub # None => /\ pub.step \in {"card", "data", "payload", "index", "scan", "pages"}
                   /\ pub.step \in {"card", "data", "payload"} <=> pub.card \in DOMAIN Cards
                   /\ ~site.done
  /\ \A k \in ToSet(Cards) :
       /\ IsFile(site.html[k]) /\ IsFile(site.json[k])
       /\ site.index[k] # None => IsFile(site.index[k])

\* A publication may run beside a dashboard command and copy the page of one build
\* beside the data of the next (main reads runs/ three times for a card).  When it
\* is done, every card of the index leads to a page, no card's data is older than
\* its page or newer than its tiles; and where all are of one build, every tile
\* shows exactly the count, sum and worst value of the rows of its pair on the
\* page the tile leads to, and is empty just when the page has no such row.
PublishedSiteAgrees ==
  site.done => \A k \in {x \in ToSet(Cards) : site.index[x] # None} :
    LET page == site.html[k]
        index == site.index[k]
    IN  /\ Exists(page) /\ Exists(site.json[k])
        /\ page.build <= site.json[k].build /\ site.json[k].build <= index.build
        /\ k # "agent" /\ page.build = index.build /\ page.whole /\ index.whole =>
             \A c \in Cells :
               LET shown == {r.run : r \in {x \in page.rows : x.pair = c}}
               IN  IF shown = {} THEN index.tile[c] = None
                   ELSE /\ index.tile[c].count = Cardinality(shown)
                        /\ index.tile[c].sum = SumSet(shown)
                        /\ index.tile[c].worst = Max(shown)

\* The page published for an agent task is that of a report of its pair and of a
\* task of its name.  It passes over a later replicate of the task only when that
\* one began before the page was made, that is when two labs overlapped; it is
\* complete when the page was at the time of the scan.
PublishedPagesAreLatest ==
  site.done /\ site.scanned # None =>
    LET known == {r \in site.scanned : r.stage >= PageOpened}
    IN  /\ {<<x.pair, x.name>> : x \in site.pages} =
             {<<r.pair, SafeName[r.task]>> : r \in known}
        /\ \A x \in site.pages : \E r \in known :
             /\ r.run = x.run /\ r.pair = x.pair /\ SafeName[r.task] = x.name
             /\ r.stage = PageWritten => x.whole
             /\ \A y \in known : y.pair = r.pair /\ y.task = r.task /\ y.run > r.run =>
                                   y.began < r.at

\* The endpoint page has one row for each endpoint probed, the last of its probes.
ProbesShownAreLatest ==
  "endpoint" \in Kinds =>
    LET page == dash["endpoint"].html
    IN  Exists(page) =>
          /\ {r.pair : r \in page.rows} = {r.pair : r \in page.loaded} \ Blocked
          /\ \A r \in page.rows, x \in page.loaded : x.pair = r.pair => x.run <= r.run

\* Of repeated runs the site and the endpoint page show the latest.
LatestReportsAreShown == PublishedPagesAreLatest /\ ProbesShownAreLatest
=============================================================================
