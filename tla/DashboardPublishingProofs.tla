--------------------- MODULE DashboardPublishingProofs ---------------------
(***************************************************************************)
(* That the published site agrees with the dashboards and shows the latest  *)
(* runs, for any subjects, cards and tiles and however the labs, dashboard  *)
(* commands and publications interleave and die.                            *)
(***************************************************************************)
EXTENDS DashboardPublishing, FiniteSetTheorems, WellFoundedInduction, TLAPS

CardSet == ToSet(Cards)

Report == [kind : {"dense", "router", "agent", "endpoint"}, pair : Pairs, task : Nat,
           run : 1 .. MaxStarts, stage : Opened .. PageWritten, began : Nat, at : Nat]

\* Reports as a program may have found them: finitely many, each of its own run.
Found(R) == /\ R \subseteq Report /\ IsFiniteSet(R)
            /\ \A r, x \in R : r.run = x.run => r = x

\* Reports that were started, none changed at the time of another.
ReportsOK ==
  /\ count \in [reports : Nat, builds : Nat, publications : Nat]
  /\ Started <= MaxStarts
  /\ Found(reports)
  /\ \A r \in reports : /\ [kind |-> r.kind, pair |-> r.pair, task |-> r.task] \in Subjects
                        /\ r.run <= count.reports
                        /\ r.began <= r.at
  /\ \A r, x \in reports : r.at = x.at => r = x

\* The shape of what the programs keep.
Shapes ==
  /\ dash = [k \in Kinds |-> [json |-> dash[k].json, html |-> dash[k].html]]
  /\ site = [html |-> site.html, json |-> site.json, index |-> site.index,
             pages |-> site.pages, scanned |-> site.scanned, done |-> site.done]
  /\ site.html = [k \in CardSet |-> site.html[k]]
  /\ site.json = [k \in CardSet |-> site.json[k]]
  /\ site.index = [k \in CardSet |-> site.index[k]]
  /\ building # None =>
       /\ building = [kind |-> building.kind, build |-> building.build,
                      step |-> building.step, loaded |-> building.loaded,
                      rows |-> building.rows]
       /\ building.kind \in Kinds /\ building.step \in 1 .. 4
  /\ pub # None =>
       /\ pub = [step |-> pub.step, card |-> pub.card, payload |-> pub.payload,
                 todo |-> pub.todo]
       /\ pub.payload = [k \in CardSet |-> pub.payload[k]]
       /\ pub.step \in {"card", "data", "payload", "index", "scan", "pages"}
       /\ pub.card \in 1 .. Len(Cards) + 1
       /\ pub.step \in {"card", "data", "payload"} <=> pub.card \in DOMAIN Cards
       /\ ~ site.done

FileOf(x, builds) == IsFile(x) /\ x.build <= builds

\* Builds are numbered as they start, and a dashboard's data is never older than
\* its page.
BuildsInOrder ==
  /\ building # None =>
       /\ building.build = count.builds /\ building.build # 0
       /\ building.step > 2 => dash[building.kind].json.build = building.build
  /\ \A k \in Kinds :
       /\ FileOf(dash[k].json, count.builds) /\ FileOf(dash[k].html, count.builds)
       /\ dash[k].html.build <= dash[k].json.build
  /\ \A k \in CardSet :
       /\ FileOf(site.json[k], count.builds) /\ FileOf(site.html[k], count.builds)
       /\ site.index[k] # None => FileOf(site.index[k], count.builds)
       /\ pub # None /\ pub.payload[k] # None => FileOf(pub.payload[k], count.builds)

\* A card that is published has its page, no older data and no older x.
CardInOrder(k, x) ==
  /\ Exists(site.html[k])
  /\ site.html[k].build <= site.json[k].build /\ site.json[k].build <= x.build

\* How far a publication is with its cards.
CardsInOrder ==
  /\ pub # None =>
       /\ \A i \in DOMAIN Cards : i < pub.card /\ pub.payload[Cards[i]] # None =>
            CardInOrder(Cards[i], pub.payload[Cards[i]])
       /\ pub.step \in {"data", "payload"} => Exists(site.html[Card])
       /\ pub.step = "data" => site.html[Card].build <= dash[Card].json.build
       /\ pub.step = "payload" => CardInOrder(Card, dash[Card].json)
  /\ site.done \/ (pub # None /\ pub.step \in {"scan", "pages"}) =>
       \A k \in CardSet : site.index[k] # None => CardInOrder(k, site.index[k])

\* What build b loaded determines the rows, aggregates and tiles of its files.
Rows(made, k, b) == RowsOf(k, made[b])

PageFits(made, k, x) ==
  Exists(x) => x.loaded = made[x.build] /\ x.rows = Visible(k, Rows(made, k, x.build))
DataFits(made, k, x) == x.whole => x.pairs = EnginePairs(Rows(made, k, x.build))
TilesFit(made, k, x) ==
  x.whole /\ k # "agent" =>
    \A c \in Cells : x.tile[c] = Aggregate(GroupOf(Rows(made, k, x.build), c))

Contents(made) ==
  /\ \A b \in Nat : Found(made[b])
  /\ building # None => /\ building.loaded = made[building.build]
                        /\ building.rows = Rows(made, building.kind, building.build)
  /\ \A k \in Kinds : PageFits(made, k, dash[k].html) /\ DataFits(made, k, dash[k].json)
  /\ \A k \in CardSet :
       /\ PageFits(made, k, site.html[k])
       /\ pub # None /\ pub.payload[k] # None => DataFits(made, k, pub.payload[k])
       /\ site.index[k] # None => TilesFit(made, k, site.index[k])

ContentsFit == \E made \in [Nat -> SUBSET Report] : Contents(made)

\* Agent reports that were found with a page.
Known == {r \in site.scanned : r.stage >= PageOpened}

\* The names of their pages, and of pages that are published.
Names(R) == {<<r.pair, SafeName[r.task]>> : r \in R}
NamesOf(pages) == {<<x.pair, x.name>> : x \in pages}

\* r is the latest of its pair and task, but for labs that overlapped.
IsLatest(known, r) ==
  \A y \in known : y.pair = r.pair /\ y.task = r.task /\ y.run > r.run => y.began < r.at

PageOK(known, x) ==
  \E r \in known : /\ r.run = x.run /\ r.pair = x.pair /\ SafeName[r.task] = x.name
                   /\ r.stage = PageWritten => x.whole
                   /\ IsLatest(known, r)

\* A report that was found is still there, and at least as complete.
StillThere(f) == \E r \in reports : /\ r.kind = "agent" /\ r.run = f.run
                                    /\ f.stage = PageWritten => r.stage = PageWritten

\* What is published and what is left to publish are the pages that were found.
PagesOK ==
  /\ pub # None /\ pub.step = "pages" =>
       /\ \A f \in pub.todo : /\ f \in Report /\ f \in Known
                              /\ IsLatest(Known, f) /\ StillThere(f)
       /\ NamesOf(site.pages) \cup Names(pub.todo) = Names(Known)
       /\ \A x \in site.pages : PageOK(Known, x)
  /\ site.done /\ site.scanned # None =>
       /\ NamesOf(site.pages) = Names(Known)
       /\ \A x \in site.pages : PageOK(Known, x)

PublishingInv ==
  ReportsOK /\ Shapes /\ BuildsInOrder /\ CardsInOrder /\ ContentsFit /\ PagesOK

-----------------------------------------------------------------------------
\* Numbers and finite sets

\* A finite set of natural numbers that is not empty has a greatest element.
LEMMA Greatest ==
  ASSUME NEW S \in SUBSET Nat, IsFiniteSet(S), S # {}
  PROVE  \E m \in S : \A k \in S : k <= m
<1> DEFINE greatest(T) == \E m \in T : \A k \in T : k <= m
           bad == {T \in SUBSET S : T # {} /\ ~ greatest(T)}
<1>1. SUFFICES ASSUME bad # {} PROVE FALSE
  OBVIOUS
<1>2. bad \subseteq FiniteSubsetsOf(S)
  BY FS_FiniteSubsetsOfFinite
<1> HIDE DEF bad
<1>3. PICK T \in bad : \A U \in bad : <<U, T>> \notin StrictSubsetOrdering(S)
  BY <1>1, <1>2, FS_StrictSubsetOrderingWellFounded, WFMin, Zenon
<1>4. T \subseteq S /\ T # {} /\ ~ greatest(T)
  BY DEF bad
<1>5. PICK x \in T : TRUE
  BY <1>4
<1>6. CASE T \ {x} = {}
  BY <1>4, <1>5, <1>6
<1>7. CASE T \ {x} # {}
  <2>1. T \ {x} \notin bad
    <3>1. <<T \ {x}, T>> \in StrictSubsetOrdering(S)
      BY <1>4, <1>5 DEF StrictSubsetOrdering
    <3> QED
      BY <1>3, <3>1
  <2>2. PICK m \in T \ {x} : \A k \in T \ {x} : k <= m
    BY <1>4, <1>7, <2>1 DEF bad
  <2>3. x \in Nat /\ m \in Nat /\ \A k \in T : k \in Nat
    BY <1>4, <2>2
  <2>4. CASE x <= m
    BY <1>4, <2>2, <2>4
  <2>5. CASE ~ x <= m
    <3>1. ASSUME NEW k \in T PROVE k <= x
      <4>1. CASE k = x
        BY <2>3, <4>1
      <4>2. CASE k # x
        BY <2>2, <2>3, <2>5, <4>2
      <4> QED
        BY <4>1, <4>2
    <3> QED
      BY <1>4, <1>5, <3>1
  <2> QED
    BY <2>4, <2>5
<1> QED
  BY <1>6, <1>7

\* The numbers of finitely many things are finitely many, and as many as the
\* things when each has its own.
LEMMA Numbers ==
  ASSUME NEW S, NEW T, IsFiniteSet(S), NEW f \in [S -> T], T = {f[x] : x \in S}
  PROVE  /\ IsFiniteSet(T)
         /\ (\A x, y \in S : f[x] = f[y] => x = y) => Cardinality(T) = Cardinality(S)
<1>1. f \in Surjection(S, T)
  BY DEF Surjection
<1>2. (\A x, y \in S : f[x] = f[y] => x = y) => f \in Injection(S, T)
  BY DEF Injection, IsInjective
<1> QED
  BY <1>1, <1>2, FS_Surjection

\* Of the reports of a finite set one was changed last.
LEMMA LatestExists ==
  ASSUME NEW R, R \subseteq Report, IsFiniteSet(R), R # {}
  PROVE  /\ \E r \in R : \A x \in R : x.at <= r.at
         /\ \E r \in R : \A x \in R : x.run <= r.run
<1>1. ASSUME NEW f \in [R -> Nat] PROVE \E r \in R : \A x \in R : f[x] <= f[r]
  <2> DEFINE T == {f[x] : x \in R}
  <2>1. T \in SUBSET Nat /\ T # {} /\ f \in [R -> T]
    OBVIOUS
  <2>2. IsFiniteSet(T)
    BY <2>1, Numbers
  <2>3. PICK m \in T : \A k \in T : k <= m
    BY <2>1, <2>2, Greatest
  <2> QED
    BY <2>3
<1>2. [x \in R |-> x.at] \in [R -> Nat] /\ [x \in R |-> x.run] \in [R -> Nat]
  BY PublishingAssumption DEF Report
<1>3. \E r \in R : \A x \in R : [y \in R |-> y.at][x] <= [y \in R |-> y.at][r]
  BY <1>1, <1>2
<1>4. \E r \in R : \A x \in R : [y \in R |-> y.run][x] <= [y \in R |-> y.run][r]
  BY <1>1, <1>2
<1> QED
  BY <1>3, <1>4

\* A file is created later than everything that is there.
LEMMA NowIsLater ==
  ASSUME ReportsOK
  PROVE  Now \in Nat /\ \A r \in reports : r.at \in Nat /\ r.at < Now
<1> DEFINE T == {r.at : r \in reports}
           f == [r \in reports |-> r.at]
<1>1. T \cup {0} \in SUBSET Nat /\ \A r \in reports : r.at \in T
  BY DEF ReportsOK, Found, Report
<1>2. IsFiniteSet(T \cup {0})
  <2>1. f \in [reports -> T] /\ T = {f[r] : r \in reports}
    OBVIOUS
  <2> HIDE DEF T, f
  <2>2. IsFiniteSet(T)
    BY <2>1, Numbers DEF ReportsOK, Found
  <2> QED
    BY <2>2, FS_AddElement
<1> HIDE DEF T
<1>3. \E m \in T \cup {0} : \A k \in T \cup {0} : k <= m
  BY <1>1, <1>2, Greatest
<1>4. \E m \in T \cup {0} : \A k \in T \cup {0} : m >= k
  BY <1>1, <1>3
<1>5. /\ Max(T \cup {0}) \in T \cup {0}
      /\ \A k \in T \cup {0} : Max(T \cup {0}) >= k
  BY <1>4, Zenon DEF Max
<1>6. Now = 1 + Max(T \cup {0})
  BY DEF Now, T
<1> QED
  BY <1>1, <1>5, <1>6

-----------------------------------------------------------------------------
\* Reports

\* Who changes what.
PublicationStep == \/ SkipCard \/ CopyPage \/ CopyData \/ ReadPayload \/ WriteIndex
                   \/ ScanReports \/ CopyAgentPage \/ EndPublication \/ PublicationCrash

\* One more of one sort is one more that was started.
LEMMA Counting ==
  ASSUME ReportsOK, Started < MaxStarts, NEW n \in {"reports", "builds", "publications"},
         count' = [count EXCEPT ![n] = @ + 1]
  PROVE  /\ count' \in [reports : Nat, builds : Nat, publications : Nat]
         /\ Started' <= MaxStarts
         /\ count.reports <= count'.reports /\ count.builds <= count'.builds
         /\ n = "reports" => count'.reports = count.reports + 1 /\ count'.builds = count.builds
         /\ n = "builds" => count'.builds = count.builds + 1 /\ count'.reports = count.reports
         /\ n = "publications" => /\ count'.reports = count.reports
                                  /\ count'.builds = count.builds
<1>1. /\ count \in [reports : Nat, builds : Nat, publications : Nat]
      /\ count.reports \in Nat /\ count.builds \in Nat /\ count.publications \in Nat
      /\ MaxStarts \in Nat
  BY PublishingAssumption DEF ReportsOK
<1>2. /\ count.reports + 1 \in Nat /\ count.builds + 1 \in Nat
      /\ count.publications + 1 \in Nat
      /\ count.reports <= count.reports + 1 /\ count.builds <= count.builds + 1
      /\ count.reports <= count.reports /\ count.builds <= count.builds
      /\ count.reports + count.builds + count.publications + 1 <= MaxStarts
  BY <1>1 DEF Started
<1>3. CASE n = "reports"
  <2>1. count' = [count EXCEPT !.reports = count.reports + 1]
    BY <1>3
  <2>2. /\ count' \in [reports : Nat, builds : Nat, publications : Nat]
        /\ count'.reports = count.reports + 1 /\ count'.builds = count.builds
        /\ count'.publications = count.publications
    BY <1>1, <1>2, <2>1
  <2> QED
    BY <1>1, <1>2, <1>3, <2>2 DEF Started
<1>4. CASE n = "builds"
  <2>1. count' = [count EXCEPT !.builds = count.builds + 1]
    BY <1>4
  <2>2. /\ count' \in [reports : Nat, builds : Nat, publications : Nat]
        /\ count'.builds = count.builds + 1 /\ count'.reports = count.reports
        /\ count'.publications = count.publications
    BY <1>1, <1>2, <2>1
  <2> QED
    BY <1>1, <1>2, <1>4, <2>2 DEF Started
<1>5. CASE n = "publications"
  <2>1. count' = [count EXCEPT !.publications = count.publications + 1]
    BY <1>5
  <2>2. /\ count' \in [reports : Nat, builds : Nat, publications : Nat]
        /\ count'.builds = count.builds /\ count'.reports = count.reports
        /\ count'.publications = count.publications + 1
    BY <1>1, <1>2, <2>1
  <2> QED
    BY <1>1, <1>2, <1>5, <2>2 DEF Started
<1> QED
  BY <1>3, <1>4, <1>5

\* Reports are only numbered higher, and those of agents stay and get more
\* complete unless runs/ is cleared.
LEMMA ReportsInductive ==
  ASSUME ReportsOK, [Next]_vars
  PROVE  /\ ReportsOK'
         /\ count.builds <= count'.builds /\ count.builds \in Nat /\ count'.builds \in Nat
         /\ ~ FreshCheckout => \A f \in Report : StillThere(f) => StillThere(f)'
<1>1. /\ count \in [reports : Nat, builds : Nat, publications : Nat]
      /\ count.reports \in Nat /\ count.builds \in Nat /\ count.publications \in Nat
      /\ MaxStarts \in Nat /\ reports \subseteq Report /\ IsFiniteSet(reports)
      /\ Now \in Nat /\ \A r \in reports : r.at \in Nat /\ r.at < Now
      /\ \A r \in reports : r.run \in Nat
  BY PublishingAssumption, NowIsLater DEF ReportsOK, Found, Report
<1>2. CASE reports' = reports /\ count' = count
  BY <1>1, <1>2 DEF ReportsOK, Found, Started, StillThere
<1>3. ASSUME NEW s \in Subjects, StartReport(s) PROVE
         /\ ReportsOK' /\ count.builds <= count'.builds /\ count'.builds \in Nat
         /\ \A f \in Report : StillThere(f) => StillThere(f)'
  <2> DEFINE new == [kind |-> s.kind, pair |-> s.pair, task |-> s.task,
                     run |-> count.reports + 1, stage |-> Opened, began |-> Now, at |-> Now]
             kept == {r \in reports : ~(InPlace(new) /\ r.kind = s.kind /\
                                        r.pair = s.pair /\ r.task = s.task)}
  <2>1. /\ Started < MaxStarts /\ count' = [count EXCEPT !.reports = @ + 1]
        /\ reports' = kept \cup {new}
    BY <1>3 DEF StartReport
  <2>2. /\ count' \in [reports : Nat, builds : Nat, publications : Nat]
        /\ Started' <= MaxStarts /\ count'.builds = count.builds
        /\ count'.reports = count.reports + 1
    BY <2>1, Counting
  <2>3. count.reports + 1 \in 1 .. MaxStarts
    BY <1>1, <2>1 DEF Started
  <2>4. /\ new \in Report /\ new.run = count.reports + 1 /\ new.at = Now /\ new.began = Now
        /\ [kind |-> new.kind, pair |-> new.pair, task |-> new.task] \in Subjects
        /\ new.kind = s.kind /\ new.pair = s.pair /\ new.task = s.task
    <3>1. s \in [kind : {"dense", "router", "agent", "endpoint"}, pair : Pairs, task : Nat]
      BY PublishingAssumption
    <3>2. [kind |-> s.kind, pair |-> s.pair, task |-> s.task] = s
      BY <3>1
    <3>3. Opened \in Opened .. PageWritten
      BY DEF Opened, PageWritten
    <3> QED
      BY <1>1, <2>3, <3>1, <3>2, <3>3 DEF Report
  <2>5. kept \subseteq reports /\ IsFiniteSet(kept)
    BY <1>1, FS_Subset
  <2>6. \A r \in reports : r.kind = "agent" => r \in kept
    BY <2>4 DEF InPlace
  <2> HIDE DEF new, kept
  <2>7. IsFiniteSet(reports')
    BY <2>1, <2>5, FS_AddElement
  <2>8. \A r \in reports' : r = new \/ r \in reports
    BY <2>1, <2>5
  <2> QED
    <3>1. Found(reports')
      <4>1. \A r \in reports : r.run # new.run
        <5>1. \A r \in reports : r.run \in Nat /\ r.run <= count.reports
          BY <1>1 DEF ReportsOK
        <5>2. \A n \in Nat : n <= count.reports => n # count.reports + 1
          BY <1>1
        <5> QED
          BY <2>4, <5>1, <5>2
      <4>2. \A r, x \in reports : r.run = x.run => r = x
        BY DEF ReportsOK, Found
      <4>3. \A r, x \in reports' : r.run = x.run => r = x
        BY <2>8, <4>1, <4>2
      <4> QED
        BY <1>1, <2>4, <2>7, <2>8, <4>3 DEF Found
    <3>2. ASSUME NEW r \in reports'
          PROVE  /\ [kind |-> r.kind, pair |-> r.pair, task |-> r.task] \in Subjects
                 /\ r.run <= count'.reports
                 /\ r.began <= r.at
      BY <1>1, <2>2, <2>4, <2>8 DEF ReportsOK
    <3>3. \A r, x \in reports' : r.at = x.at => r = x
      BY <1>1, <2>4, <2>8 DEF ReportsOK
    <3>4. ReportsOK'
      BY <2>2, <3>1, <3>2, <3>3 DEF ReportsOK, Found
    <3>5. \A f : StillThere(f) => StillThere(f)'
      BY <2>1, <2>6 DEF StillThere
    <3> QED
      BY <1>1, <2>2, <3>4, <3>5
<1>4. ASSUME NEW r \in reports, Advance(r)
      PROVE  /\ ReportsOK' /\ count' = count
             /\ \A f \in Report : StillThere(f) => StillThere(f)'
  <2> DEFINE new == [r EXCEPT !.stage = @ + 1, !.at = IF r.stage = Written THEN Now ELSE @]
  <2>0. r.stage \in Nat
    BY <1>1 DEF Report, Opened, PageWritten
  <2>1. /\ r.stage < PageWritten /\ count' = count
        /\ reports' = (reports \ {r}) \cup {new}
    BY <1>4, <2>0 DEF Advance, Written, PageWritten
  <2>2. r \in Report /\ r.stage \in Nat /\ r.stage + 1 \in Opened .. PageWritten
    BY <1>1, <2>1 DEF Report, Opened, PageWritten
  <2>3. /\ new \in Report /\ new.kind = r.kind /\ new.pair = r.pair /\ new.task = r.task
        /\ new.run = r.run /\ new.began = r.began /\ new.stage = r.stage + 1
        /\ new.at = r.at \/ new.at = Now
    <3>1. ASSUME NEW n \in Nat
          PROVE  [r EXCEPT !.stage = r.stage + 1, !.at = n] \in Report
      BY <2>2, <3>1 DEF Report
    <3> QED
      BY <1>1, <2>2, <3>1 DEF Report
  <2> HIDE DEF new
  <2>4. IsFiniteSet(reports')
    BY <1>1, <2>1, FS_AddElement, FS_RemoveElement
  <2>5. \A x \in reports' : x = new \/ (x \in reports /\ x # r)
    BY <2>1
  <2>6. Found(reports')
    <3>1. \A x, y \in reports : x.run = y.run => x = y
      BY DEF ReportsOK, Found
    <3>2. \A x, y \in reports' : x.run = y.run => x = y
      BY <2>3, <2>5, <3>1
    <3> QED
      BY <1>1, <2>3, <2>4, <2>5, <3>2 DEF Found
  <2>7. ASSUME NEW x \in reports'
        PROVE  /\ [kind |-> x.kind, pair |-> x.pair, task |-> x.task] \in Subjects
               /\ x.run <= count'.reports
               /\ x.began <= x.at
    <3>1. r.began \in Nat /\ r.began <= r.at /\ r.at < Now /\ r.at \in Nat /\ Now \in Nat
      BY <1>1, <2>2 DEF Report, ReportsOK
    <3>2. new.began <= new.at
      BY <2>3, <3>1
    <3> QED
      BY <2>1, <2>3, <2>5, <3>2 DEF ReportsOK
  <2>8. ASSUME NEW x \in reports', NEW y \in reports', x.at = y.at PROVE x = y
    <3>1. \A z \in reports : z # r => z.at # new.at
      BY <1>1, <2>3 DEF ReportsOK
    <3> QED
      BY <2>5, <2>8, <3>1 DEF ReportsOK
  <2>9. ReportsOK'
    BY <1>1, <2>1, <2>6, <2>7, <2>8 DEF ReportsOK, Found, Started
  <2>10. ASSUME NEW f, StillThere(f) PROVE StillThere(f)'
    <3>1. PICK x \in reports : /\ x.kind = "agent" /\ x.run = f.run
                               /\ f.stage = PageWritten => x.stage = PageWritten
      BY <2>10 DEF StillThere
    <3>2. CASE x # r
      BY <2>1, <3>1, <3>2 DEF StillThere
    <3>3. CASE x = r
      <4>1. r.stage # PageWritten
        BY <2>1, <2>2 DEF PageWritten
      <4> QED
        BY <2>1, <2>3, <3>1, <3>3, <4>1 DEF StillThere
    <3> QED
      BY <3>2, <3>3
  <2> QED
    BY <2>1, <2>9, <2>10
<1>5. ASSUME NEW n \in {"builds", "publications"}, Started < MaxStarts, reports' = reports,
             count' = [count EXCEPT ![n] = @ + 1]
      PROVE  /\ ReportsOK' /\ count.builds <= count'.builds /\ count'.builds \in Nat
             /\ \A f \in Report : StillThere(f) => StillThere(f)'
  <2>1. /\ count' \in [reports : Nat, builds : Nat, publications : Nat]
        /\ Started' <= MaxStarts /\ count.builds <= count'.builds
        /\ count.reports = count'.reports
    BY <1>5, Counting
  <2> QED
    BY <1>5, <2>1 DEF ReportsOK, Found, StillThere
<1>6. ASSUME FreshCheckout PROVE ReportsOK' /\ count' = count
  <2>1. reports' = {} /\ count' = count
    BY <1>6 DEF FreshCheckout
  <2> QED
    BY <1>1, <2>1, FS_EmptySet DEF ReportsOK, Found, Started
<1>7. ASSUME NEW k \in Kinds, StartBuild(k)
      PROVE  /\ ReportsOK' /\ count.builds <= count'.builds /\ count'.builds \in Nat
             /\ \A f \in Report : StillThere(f) => StillThere(f)'
  <2>1. /\ Started < MaxStarts /\ reports' = reports
        /\ count' = [count EXCEPT !["builds"] = @ + 1]
    BY <1>7 DEF StartBuild
  <2> QED
    BY <1>5, <2>1
<1>8. CASE StartPublication
  <2>1. /\ Started < MaxStarts /\ reports' = reports
        /\ count' = [count EXCEPT !["publications"] = @ + 1]
    BY <1>8 DEF StartPublication
  <2> QED
    BY <1>1, <1>5, <2>1
<1>9. CASE UNCHANGED vars \/ BuildStep \/ BuildCrash \/ PublicationStep
  <2>1. reports' = reports /\ count' = count
    BY <1>9 DEF vars, BuildStep, BuildCrash, PublicationStep, SkipCard, CopyPage, CopyData,
       ReadPayload, WriteIndex, ScanReports, CopyAgentPage, EndPublication, PublicationCrash
  <2> QED
    BY <1>1, <1>2, <2>1
<1> QED
  BY <1>1, <1>3, <1>4, <1>6, <1>7, <1>8, <1>9 DEF Next, PublicationStep

-----------------------------------------------------------------------------
\* Steps of a dashboard command and of the publication

\* The cards are named apart.
LEMMA CardFacts ==
  /\ DOMAIN Cards = 1 .. Len(Cards) /\ Len(Cards) \in Nat \ {0}
  /\ CardSet \subseteq Kinds /\ CardSet \subseteq {"dense", "router", "agent"}
  /\ \A i \in DOMAIN Cards : Cards[i] \in CardSet
  /\ \A k \in CardSet : \E i \in DOMAIN Cards : Cards[i] = k
  /\ \A i, j \in DOMAIN Cards : Cards[i] = Cards[j] => i = j
<1>1. Cards \in Seq({"dense", "router", "agent"}) /\ Cards # <<>>
  BY PublishingAssumption
<1>2. DOMAIN Cards = 1 .. Len(Cards) /\ Len(Cards) \in Nat \ {0}
      /\ \A i \in DOMAIN Cards : Cards[i] \in {"dense", "router", "agent"}
  BY <1>1
<1> QED
  BY <1>2, PublishingAssumption DEF CardSet, ToSet, Kinds, IsInjective

\* A publication at a card.
LEMMA AtACard ==
  ASSUME Shapes, AtCard("card") \/ AtCard("data") \/ AtCard("payload")
  PROVE  pub # None /\ pub.card \in DOMAIN Cards /\ Card \in CardSet /\ Card \in Kinds
BY CardFacts DEF AtCard, Shapes, Card

\* It goes on to the next card, or to the index.
LEMMA GoesOn ==
  ASSUME Shapes, AtCard("card") \/ AtCard("payload"), NEW x, pub' = NextCard(x)
  PROVE  /\ pub'.card = pub.card + 1 /\ pub'.card \in 1 .. Len(Cards) + 1
         /\ pub'.step \in {"card", "index"} /\ (pub'.step = "card" <=> pub'.card \in DOMAIN Cards)
         /\ pub'.todo = pub.todo /\ pub'.payload[Card] = x
         /\ \A k \in CardSet : k # Card => pub'.payload[k] = pub.payload[k]
         /\ pub'.payload = [k \in CardSet |-> pub'.payload[k]]
         /\ pub' = [step |-> pub'.step, card |-> pub'.card, payload |-> pub'.payload,
                    todo |-> pub'.todo]
<1> DEFINE s == IF pub.card = Len(Cards) THEN "index" ELSE "card"
           p == [pub.payload EXCEPT ![Card] = x]
<1>1. /\ pub.card \in 1 .. Len(Cards) /\ Card \in CardSet /\ pub.card + 1 \in 1 .. Len(Cards) + 1
      /\ DOMAIN Cards = 1 .. Len(Cards) /\ Len(Cards) \in Nat \ {0}
      /\ pub = [step |-> pub.step, card |-> pub.card, payload |-> pub.payload,
                todo |-> pub.todo]
      /\ pub.payload = [k \in CardSet |-> pub.payload[k]]
  BY AtACard, CardFacts DEF Shapes
<1>2. pub' = [step |-> s, card |-> pub.card + 1, payload |-> p, todo |-> pub.todo]
  BY <1>1 DEF NextCard
<1>3. s = "card" <=> pub.card + 1 \in 1 .. Len(Cards)
  BY <1>1
<1>4. /\ p[Card] = x /\ p = [k \in CardSet |-> p[k]]
      /\ \A k \in CardSet : k # Card => p[k] = pub.payload[k]
  BY <1>1
<1> HIDE DEF s, p
<1>5. s \in {"card", "index"}
  BY DEF s
<1> QED
  BY <1>1, <1>2, <1>3, <1>4, <1>5

\* What a dashboard command writes.
DataFile(b) == [build |-> b.build, whole |-> b.step \in {2, 4}, rows |-> b.rows,
                pairs |-> EnginePairs(b.rows)]

PageFile(b) == [build |-> b.build, whole |-> b.step \in {2, 4}, loaded |-> b.loaded,
                rows |-> Visible(b.kind, b.rows)]

\* A dashboard command changes one file of its kind and goes on to the next.
LEMMA BuildEffect ==
  ASSUME Shapes, BuildStep
  PROVE  /\ building # None /\ building.kind \in Kinds /\ building.step \in 1 .. 4
         /\ UNCHANGED <<count, reports, pub, site>>
         /\ dash' = [k \in Kinds |->
              [json |-> IF k = building.kind /\ building.step <= 2
                        THEN DataFile(building) ELSE dash[k].json,
               html |-> IF k = building.kind /\ building.step > 2
                        THEN PageFile(building) ELSE dash[k].html]]
         /\ building' # None =>
              /\ building.step < 4
              /\ building' = [kind |-> building.kind, build |-> building.build,
                              step |-> building.step + 1, loaded |-> building.loaded,
                              rows |-> building.rows]
<1> DEFINE b == building
<1>1. /\ b # None /\ b.kind \in Kinds /\ b.step \in 1 .. 4
      /\ b = [kind |-> b.kind, build |-> b.build, step |-> b.step,
              loaded |-> b.loaded, rows |-> b.rows]
      /\ UNCHANGED <<count, reports, pub, site>>
      /\ dash' = IF b.step <= 2 THEN [dash EXCEPT ![b.kind].json = DataFile(b)]
                                ELSE [dash EXCEPT ![b.kind].html = PageFile(b)]
      /\ building' = IF b.step = 4 THEN None ELSE [b EXCEPT !.step = @ + 1]
  BY DEF BuildStep, Shapes, DataFile, PageFile
<1>2. dash = [k \in Kinds |-> [json |-> dash[k].json, html |-> dash[k].html]]
  BY DEF Shapes
<1>3. ASSUME NEW x PROVE
        /\ [dash EXCEPT ![b.kind].json = x] =
             [k \in Kinds |-> [json |-> IF k = b.kind THEN x ELSE dash[k].json,
                               html |-> dash[k].html]]
        /\ [dash EXCEPT ![b.kind].html = x] =
             [k \in Kinds |-> [json |-> dash[k].json,
                               html |-> IF k = b.kind THEN x ELSE dash[k].html]]
  <2> DEFINE d == dash[b.kind]
  <2>1. d = [json |-> d.json, html |-> d.html]
    BY <1>1, <1>2
  <2>2. /\ [dash EXCEPT ![b.kind].json = x] = [dash EXCEPT ![b.kind] = [d EXCEPT !.json = x]]
        /\ [dash EXCEPT ![b.kind].html = x] = [dash EXCEPT ![b.kind] = [d EXCEPT !.html = x]]
    OBVIOUS
  <2> HIDE DEF d
  <2>3. /\ [d EXCEPT !.json = x] = [json |-> x, html |-> d.html]
        /\ [d EXCEPT !.html = x] = [json |-> d.json, html |-> x]
    BY <2>1
  <2>4. ASSUME NEW y
        PROVE  [dash EXCEPT ![b.kind] = y] = [k \in Kinds |-> IF k = b.kind THEN y ELSE dash[k]]
    BY <1>1, <1>2
  <2>5. \A k \in Kinds : dash[k] = [json |-> dash[k].json, html |-> dash[k].html]
    BY <1>2
  <2>6. [dash EXCEPT ![b.kind].json = x] =
          [k \in Kinds |-> [json |-> IF k = b.kind THEN x ELSE dash[k].json,
                            html |-> dash[k].html]]
    BY <1>1, <2>2, <2>3, <2>4, <2>5 DEF d
  <2>7. [dash EXCEPT ![b.kind].html = x] =
          [k \in Kinds |-> [json |-> dash[k].json,
                            html |-> IF k = b.kind THEN x ELSE dash[k].html]]
    BY <1>1, <2>2, <2>3, <2>4, <2>5 DEF d
  <2> QED
    BY <2>6, <2>7
<1>4. CASE b.step <= 2
  <2>1. ~ b.step > 2 /\ b.step < 4 /\ b.step # 4
    BY <1>1, <1>4
  <2> HIDE DEF b
  <2>2. dash' = [k \in Kinds |-> [json |-> IF k = b.kind THEN DataFile(b) ELSE dash[k].json,
                                  html |-> dash[k].html]]
    BY <1>1, <1>3, <1>4
  <2>3. building' = [kind |-> b.kind, build |-> b.build, step |-> b.step + 1,
                     loaded |-> b.loaded, rows |-> b.rows]
    BY <1>1, <2>1
  <2> USE DEF b
  <2> QED
    BY <1>1, <1>4, <2>1, <2>2, <2>3
<1>5. CASE ~ b.step <= 2
  <2>1. b.step > 2 /\ (b.step # 4 => b.step < 4)
    BY <1>1, <1>5
  <2> HIDE DEF b
  <2>2. dash' = [k \in Kinds |-> [json |-> dash[k].json,
                                  html |-> IF k = b.kind THEN PageFile(b) ELSE dash[k].html]]
    BY <1>1, <1>3, <1>5
  <2>3. building' # None =>
          b.step # 4 /\ building' = [kind |-> b.kind, build |-> b.build,
                  step |-> b.step + 1, loaded |-> b.loaded, rows |-> b.rows]
    BY <1>1
  <2> USE DEF b
  <2> QED
    BY <1>1, <1>5, <2>1, <2>2, <2>3
<1> QED
  BY <1>4, <1>5

\* What a publication writes.
LEMMA CopyEffect ==
  ASSUME Shapes, CopyPage \/ CopyData \/ WriteIndex
  PROVE  /\ pub # None /\ UNCHANGED <<count, reports, dash, building>>
         /\ site' = [html |-> site'.html, json |-> site'.json, index |-> site'.index,
                     pages |-> site.pages, scanned |-> site.scanned, done |-> site.done]
         /\ pub' = [step |-> pub'.step, card |-> pub.card, payload |-> pub.payload,
                    todo |-> pub.todo]
         /\ CopyPage => /\ AtCard("card") /\ Exists(dash[Card].html) /\ pub'.step = "data"
                        /\ site'.html = [k \in CardSet |->
                             IF k = Card THEN dash[Card].html ELSE site.html[k]]
                        /\ site'.json = site.json /\ site'.index = site.index
         /\ CopyData => /\ AtCard("data") /\ pub'.step = "payload"
                        /\ site'.json = [k \in CardSet |->
                             IF k = Card THEN dash[Card].json ELSE site.json[k]]
                        /\ site'.html = site.html /\ site'.index = site.index
         /\ WriteIndex => /\ AtCard("index") /\ pub'.step = "scan"
                          /\ site'.index = [k \in CardSet |-> IF pub.payload[k] = None
                               THEN None ELSE Tiles(k, pub.payload[k])]
                          /\ site'.html = site.html /\ site'.json = site.json
<1>1. /\ site = [html |-> site.html, json |-> site.json, index |-> site.index,
                 pages |-> site.pages, scanned |-> site.scanned, done |-> site.done]
      /\ site.html = [k \in CardSet |-> site.html[k]]
      /\ site.json = [k \in CardSet |-> site.json[k]]
  BY DEF Shapes
<1>2. pub # None => pub = [step |-> pub.step, card |-> pub.card, payload |-> pub.payload,
                           todo |-> pub.todo]
  BY DEF Shapes
<1>3. CASE CopyPage
  <2>1. /\ AtCard("card") /\ Exists(dash[Card].html) /\ UNCHANGED <<count, reports, dash, building>>
        /\ site' = [site EXCEPT !.html[Card] = dash[Card].html]
        /\ pub' = [pub EXCEPT !.step = "data"] /\ pub # None /\ pub.step = "card"
    BY <1>3 DEF CopyPage, AtCard
  <2>2. site' = [site EXCEPT !.html = [site.html EXCEPT ![Card] = dash[Card].html]]
    BY <1>1, <2>1
  <2>3. [site.html EXCEPT ![Card] = dash[Card].html] =
          [k \in CardSet |-> IF k = Card THEN dash[Card].html ELSE site.html[k]]
    BY <1>1
  <2> QED
    BY <1>1, <1>2, <2>1, <2>2, <2>3 DEF CopyData, WriteIndex, AtCard
<1>4. CASE CopyData
  <2>1. /\ AtCard("data") /\ UNCHANGED <<count, reports, dash, building>>
        /\ site' = [site EXCEPT !.json[Card] = dash[Card].json]
        /\ pub' = [pub EXCEPT !.step = "payload"] /\ pub # None /\ pub.step = "data"
    BY <1>4 DEF CopyData, AtCard
  <2>2. site' = [site EXCEPT !.json = [site.json EXCEPT ![Card] = dash[Card].json]]
    BY <1>1, <2>1
  <2>3. [site.json EXCEPT ![Card] = dash[Card].json] =
          [k \in CardSet |-> IF k = Card THEN dash[Card].json ELSE site.json[k]]
    BY <1>1
  <2> QED
    BY <1>1, <1>2, <2>1, <2>2, <2>3 DEF CopyPage, WriteIndex, AtCard
<1>5. CASE WriteIndex
  <2> DEFINE new == [k \in CardSet |-> IF pub.payload[k] = None THEN None
                                       ELSE Tiles(k, pub.payload[k])]
  <2>1. /\ AtCard("index") /\ UNCHANGED <<count, reports, dash, building>>
        /\ site' = [site EXCEPT !.index = new]
        /\ pub' = [pub EXCEPT !.step = "scan"] /\ pub # None /\ pub.step = "index"
    BY <1>5 DEF WriteIndex, AtCard, CardSet
  <2> HIDE DEF new
  <2>2. site' = [html |-> site.html, json |-> site.json, index |-> new,
                 pages |-> site.pages, scanned |-> site.scanned, done |-> site.done]
    BY <1>1, <2>1
  <2>3. site'.index = [k \in CardSet |-> IF pub.payload[k] = None THEN None
                                         ELSE Tiles(k, pub.payload[k])]
    BY <2>2 DEF new
  <2> QED
    BY <1>2, <2>1, <2>2, <2>3 DEF CopyPage, CopyData, AtCard
<1> QED
  BY <1>3, <1>4, <1>5

\* The page copied for a report that was found, and the pages after that.
Copied(found) ==
  [pair |-> found.pair, name |-> SafeName[found.task], run |-> found.run,
   whole |-> (CHOOSE r \in reports : r.kind = "agent" /\ r.run = found.run).stage = PageWritten]

Replaced(found) ==
  {x \in site.pages : ~(x.pair = Copied(found).pair /\ x.name = Copied(found).name)}
    \cup {Copied(found)}

\* From the scan on a publication changes nothing but the agent pages.
LEMMA PagesEffect ==
  ASSUME Shapes, ScanReports \/ CopyAgentPage \/ EndPublication \/ PublicationCrash
  PROVE  /\ pub # None /\ UNCHANGED <<count, reports, dash, building>>
         /\ site' = [html |-> site.html, json |-> site.json, index |-> site.index,
                     pages |-> site'.pages, scanned |-> site'.scanned, done |-> site'.done]
         /\ pub' # None => /\ pub' = [step |-> "pages", card |-> pub.card,
                                      payload |-> pub.payload, todo |-> pub'.todo]
                           /\ pub.step \in {"scan", "pages"} /\ ~ site'.done
         /\ site'.done => site.done \/ pub.step \in {"scan", "pages"}
<1>1. /\ site = [html |-> site.html, json |-> site.json, index |-> site.index,
                 pages |-> site.pages, scanned |-> site.scanned, done |-> site.done]
      /\ pub # None => /\ pub = [step |-> pub.step, card |-> pub.card,
                                 payload |-> pub.payload, todo |-> pub.todo]
                       /\ ~ site.done
  BY DEF Shapes
<1>2. pub # None /\ UNCHANGED <<count, reports, dash, building>>
  BY DEF ScanReports, CopyAgentPage, EndPublication, PublicationCrash, AtCard
<1>3. CASE ScanReports
  <2>1. /\ pub.step = "scan"
        /\ \/ /\ pub' = None /\ site' = [site EXCEPT !.done = TRUE, !.scanned = None]
           \/ /\ pub' = [pub EXCEPT !.step = "pages", !.todo = LatestReports]
              /\ site' = [site EXCEPT !.pages = {}, !.scanned = AgentReports]
    BY <1>3 DEF ScanReports, AtCard
  <2> QED
    BY <1>1, <1>2, <2>1
<1>4. CASE CopyAgentPage
  <2>1. PICK found \in pub.todo :
          /\ pub.step = "pages" /\ pub' = [pub EXCEPT !.todo = pub.todo \ {found}]
          /\ site' = [site EXCEPT !.pages = Replaced(found)]
    BY <1>4 DEF CopyAgentPage, AtCard, Replaced, Copied
  <2> QED
    BY <1>1, <1>2, <2>1
<1>5. CASE EndPublication
  <2>1. pub.step = "pages" /\ pub' = None /\ site' = [site EXCEPT !.done = TRUE]
    BY <1>5 DEF EndPublication, AtCard
  <2> QED
    BY <1>1, <1>2, <2>1
<1>6. CASE PublicationCrash
  <2>1. pub' = None /\ site' = site
    BY <1>6 DEF PublicationCrash
  <2> QED
    BY <1>1, <1>2, <2>1
<1> QED
  BY <1>3, <1>4, <1>5, <1>6

\* Every step keeps the shapes.
LEMMA ShapesInductive == Shapes /\ [Next]_vars => Shapes'
<1> SUFFICES ASSUME Shapes, [Next]_vars PROVE Shapes'
  OBVIOUS
<1>1. ASSUME NEW k \in Kinds, StartBuild(k) PROVE Shapes'
  <2>1. /\ building' = [kind |-> k, build |-> count.builds + 1, step |-> 1,
                        loaded |-> {r \in reports : r.kind = k},
                        rows |-> RowsOf(k, {r \in reports : r.kind = k})]
        /\ UNCHANGED <<dash, pub, site>>
    BY <1>1 DEF StartBuild
  <2>2. /\ building' = [kind |-> building'.kind, build |-> building'.build,
                        step |-> building'.step, loaded |-> building'.loaded,
                        rows |-> building'.rows]
        /\ building'.kind \in Kinds /\ building'.step \in 1 .. 4
    BY <2>1
  <2> QED
    BY <2>1, <2>2 DEF Shapes
<1>2. CASE BuildStep
  <2>1. dash' = [k \in Kinds |-> [json |-> dash'[k].json, html |-> dash'[k].html]]
    BY <1>2, BuildEffect
  <2>2. /\ building.step \in 1 .. 4 /\ building.kind \in Kinds /\ UNCHANGED <<pub, site>>
        /\ building' # None =>
             building.step < 4 /\ building'.step = building.step + 1
               /\ building'.kind = building.kind
               /\ building' = [kind |-> building'.kind, build |-> building'.build,
                               step |-> building'.step, loaded |-> building'.loaded,
                               rows |-> building'.rows]
    BY <1>2, BuildEffect
  <2>3. building' # None => building'.step \in 1 .. 4
    BY <2>2
  <2> QED
    BY <2>1, <2>2, <2>3 DEF Shapes
<1>3. CASE BuildCrash \/ UNCHANGED vars \/ (\E s \in Subjects : StartReport(s))
           \/ (\E r \in reports : Advance(r))
  BY <1>3 DEF BuildCrash, StartReport, Advance, vars, Shapes
<1>4. CASE StartPublication
  <2>1. /\ pub' = [step |-> "card", card |-> 1, payload |-> [k \in CardSet |-> None],
                   todo |-> {}]
        /\ site' = [site EXCEPT !.done = FALSE] /\ UNCHANGED <<dash, building>>
    BY <1>4 DEF StartPublication, CardSet
  <2>2. site' = [html |-> site.html, json |-> site.json, index |-> site.index,
                 pages |-> site.pages, scanned |-> site.scanned, done |-> FALSE]
    BY <2>1 DEF Shapes
  <2>3. 1 \in 1 .. Len(Cards) + 1 /\ 1 \in DOMAIN Cards
    BY CardFacts
  <2>4. pub' = [step |-> pub'.step, card |-> pub'.card, payload |-> pub'.payload,
                todo |-> pub'.todo]
        /\ pub'.payload = [k \in CardSet |-> pub'.payload[k]]
    BY <2>1
  <2> QED
    BY <2>1, <2>2, <2>3, <2>4 DEF Shapes
<1>5. CASE SkipCard \/ ReadPayload
  <2>1. PICK x : /\ AtCard("card") \/ AtCard("payload")
                 /\ pub' = NextCard(x) /\ UNCHANGED <<dash, building, site>>
    BY <1>5 DEF SkipCard, ReadPayload
  <2> QED
    BY <2>1, GoesOn, AtACard DEF Shapes
<1>6. CASE CopyPage \/ CopyData \/ WriteIndex
  <2>1. /\ pub # None /\ UNCHANGED <<dash, building>>
        /\ site' = [html |-> site'.html, json |-> site'.json, index |-> site'.index,
                    pages |-> site'.pages, scanned |-> site'.scanned, done |-> site'.done]
        /\ site'.done = site.done
        /\ pub' = [step |-> pub'.step, card |-> pub'.card, payload |-> pub'.payload,
                   todo |-> pub'.todo]
        /\ pub'.card = pub.card /\ pub'.payload = pub.payload
    BY <1>6, CopyEffect
  <2>2. /\ site'.html = [k \in CardSet |-> site'.html[k]]
        /\ site'.json = [k \in CardSet |-> site'.json[k]]
        /\ site'.index = [k \in CardSet |-> site'.index[k]]
    BY <1>6, CopyEffect DEF Shapes
  <2>3. /\ pub'.step \in {"card", "data", "payload", "index", "scan", "pages"}
        /\ pub'.step \in {"card", "data", "payload"} <=>
             pub.step \in {"card", "data", "payload"}
    BY <1>6, CopyEffect DEF AtCard
  <2> QED
    BY <2>1, <2>2, <2>3 DEF Shapes
<1>7. CASE ScanReports \/ CopyAgentPage \/ EndPublication \/ PublicationCrash
  <2>1. /\ pub # None /\ UNCHANGED <<dash, building>>
        /\ site' = [html |-> site.html, json |-> site.json, index |-> site.index,
                    pages |-> site'.pages, scanned |-> site'.scanned, done |-> site'.done]
        /\ pub' # None => /\ pub' = [step |-> "pages", card |-> pub.card,
                                     payload |-> pub.payload, todo |-> pub'.todo]
                          /\ pub.step \in {"scan", "pages"} /\ ~ site'.done
    BY <1>7, PagesEffect
  <2>2. /\ site'.html = site.html /\ site'.json = site.json /\ site'.index = site.index
        /\ pub' # None => pub'.step = "pages" /\ pub'.card = pub.card
                          /\ pub'.payload = pub.payload
    BY <2>1
  <2> QED
    BY <2>1, <2>2 DEF Shapes
<1>8. CASE FreshCheckout
  <2>1. dash' = [k \in Kinds |-> [json |-> dash'[k].json, html |-> dash'[k].html]]
        /\ UNCHANGED <<building, pub, site>>
    BY <1>8 DEF FreshCheckout
  <2> QED
    BY <2>1 DEF Shapes
<1> QED
  BY <1>1, <1>2, <1>3, <1>4, <1>5, <1>6, <1>7, <1>8 DEF Next

\* Files of the builds that were started; later there are only more of them.
LEMMA FilesStay ==
  ASSUME NEW x, NEW m \in Nat, NEW n \in Nat, m <= n, FileOf(x, m)
  PROVE  FileOf(x, n) /\ x.build \in Nat
BY PublishingAssumption DEF FileOf, IsFile

\* A missing file is of no build.
LEMMA MissingIsFile == \A n \in Nat : FileOf(Missing, n)
BY PublishingAssumption DEF FileOf, IsFile, Missing, Exists

\* Every step keeps builds and files in order.
LEMMA BuildsInductive ==
  ASSUME ReportsOK, Shapes, BuildsInOrder, [Next]_vars
  PROVE  BuildsInOrder'
<1> DEFINE n == count.builds
           m == count'.builds
<1>1. /\ n \in Nat /\ m \in Nat /\ n <= m /\ n <= MaxStarts /\ MaxStarts \in Nat
      /\ CardSet \subseteq Kinds
  <2>1. n \in Nat /\ m \in Nat /\ n <= m
    BY ReportsInductive
  <2>2. count.reports \in Nat /\ count.publications \in Nat /\ MaxStarts \in Nat
    BY PublishingAssumption DEF ReportsOK
  <2>3. n <= MaxStarts
    BY <2>1, <2>2 DEF ReportsOK, Started
  <2> QED
    BY <2>1, <2>2, <2>3, CardFacts
<1>2. /\ \A k \in Kinds : /\ FileOf(dash[k].json, n) /\ FileOf(dash[k].html, n)
                          /\ FileOf(dash[k].json, m) /\ FileOf(dash[k].html, m)
                          /\ dash[k].html.build \in Nat /\ dash[k].json.build \in Nat
                          /\ dash[k].html.build <= dash[k].json.build
                          /\ dash[k].html.build <= n
  BY <1>1, FilesStay DEF BuildsInOrder, FileOf
<1>3. \A k \in CardSet :
        /\ FileOf(site.json[k], m) /\ FileOf(site.html[k], m)
        /\ site.index[k] # None => FileOf(site.index[k], m)
        /\ pub # None /\ pub.payload[k] # None => FileOf(pub.payload[k], m)
  BY <1>1, FilesStay DEF BuildsInOrder
<1>4. building # None => /\ building.build = n /\ n # 0
                         /\ building.step > 2 => dash[building.kind].json.build = n
  BY DEF BuildsInOrder
<1> DEFINE Dash == \A k \in Kinds : /\ FileOf(dash'[k].json, m) /\ FileOf(dash'[k].html, m)
                                    /\ dash'[k].html.build <= dash'[k].json.build
           Build == building' # None =>
                      /\ building'.build = m /\ m # 0
                      /\ building'.step > 2 => dash'[building'.kind].json.build = m
           Site == \A k \in CardSet :
                     /\ FileOf(site'.json[k], m) /\ FileOf(site'.html[k], m)
                     /\ site'.index[k] # None => FileOf(site'.index[k], m)
                     /\ pub' # None /\ pub'.payload[k] # None => FileOf(pub'.payload[k], m)
<1>5. SUFFICES Dash /\ Build /\ Site
  BY DEF BuildsInOrder, FileOf, IsFile, CardSet, Kinds, Exists
<1>6. dash' = dash => Dash
  BY <1>2
<1>7. pub' = pub /\ site' = site => Site
  BY <1>3
<1>8. building' = building /\ dash' = dash /\ m = n => Build
  BY <1>4
<1>9. ASSUME NEW k \in Kinds, StartBuild(k) PROVE Dash /\ Build /\ Site
  <2>1. /\ dash' = dash /\ pub' = pub /\ site' = site
        /\ building'.build = n + 1 /\ building'.step = 1
        /\ Started < MaxStarts /\ count' = [count EXCEPT !["builds"] = @ + 1]
    BY <1>9 DEF StartBuild
  <2>2. m = n + 1
    BY <2>1, Counting
  <2> HIDE DEF m, n
  <2>3. Build
    BY <1>1, <2>1, <2>2
  <2> QED
    BY <1>6, <1>7, <2>1, <2>3
<1>10. CASE BuildStep
  <2> DEFINE b == building
  <2>1. /\ b # None /\ b.kind \in Kinds /\ b.step \in 1 .. 4
        /\ m = n /\ pub' = pub /\ site' = site
        /\ \A k \in Kinds :
             /\ dash'[k].json = IF k = b.kind /\ b.step <= 2 THEN DataFile(b) ELSE dash[k].json
             /\ dash'[k].html = IF k = b.kind /\ b.step > 2 THEN PageFile(b) ELSE dash[k].html
        /\ building' # None => /\ b.step < 4 /\ building'.build = b.build
                               /\ building'.step = b.step + 1 /\ building'.kind = b.kind
    BY <1>10, BuildEffect
  <2>2. /\ FileOf(DataFile(b), m) /\ DataFile(b).build = n
        /\ FileOf(PageFile(b), m) /\ PageFile(b).build = n
    <3>1. b.build = n /\ n # 0
      BY <1>4, <2>1
    <3> QED
      BY <1>1, <2>1, <3>1 DEF DataFile, PageFile, FileOf, IsFile, Exists
  <2> HIDE DEF m, n, b
  <2>3. Dash
    <3> SUFFICES ASSUME NEW k \in Kinds
                 PROVE  /\ FileOf(dash'[k].json, m) /\ FileOf(dash'[k].html, m)
                        /\ dash'[k].html.build <= dash'[k].json.build
      OBVIOUS
    <3>1. CASE k # b.kind
      BY <1>2, <2>1, <3>1
    <3>2. CASE k = b.kind /\ b.step <= 2
      <4>1. dash'[k].json = DataFile(b) /\ dash'[k].html = dash[k].html
        BY <2>1, <3>2
      <4> QED
        BY <1>2, <2>2, <4>1
    <3>3. CASE k = b.kind /\ ~ b.step <= 2
      <4>1. dash'[k].json = dash[k].json /\ dash'[k].html = PageFile(b) /\ b.step > 2
        BY <2>1, <3>3
      <4>2. dash[k].json.build = n
        BY <1>4, <2>1, <3>3, <4>1 DEF b
      <4> QED
        BY <1>1, <1>2, <2>2, <4>1, <4>2
    <3> QED
      BY <3>1, <3>2, <3>3
  <2>4. Build
    <3>1. b.step <= 2 => dash'[b.kind].json.build = n
      BY <2>1, <2>2
    <3>2. ~ b.step <= 2 => dash'[b.kind].json.build = n
      BY <1>4, <2>1 DEF b
    <3> QED
      BY <1>4, <2>1, <3>1, <3>2 DEF b
  <2> QED
    BY <1>7, <2>1, <2>3, <2>4
<1>11. CASE BuildCrash
  BY <1>6, <1>7, <1>11 DEF BuildCrash
<1>12. CASE UNCHANGED vars \/ (\E s \in Subjects : StartReport(s))
            \/ (\E r \in reports : Advance(r))
  <2>1. /\ dash' = dash /\ pub' = pub /\ site' = site /\ building' = building
    BY <1>12 DEF vars, StartReport, Advance
  <2>2. m = n
    <3>1. ASSUME NEW s \in Subjects, StartReport(s) PROVE m = n
      <4>1. Started < MaxStarts /\ count' = [count EXCEPT !["reports"] = @ + 1]
        BY <3>1 DEF StartReport
      <4> QED
        BY <4>1, Counting
    <3> QED
      BY <1>12, <3>1 DEF vars, Advance
  <2> QED
    BY <1>6, <1>7, <1>8, <2>1, <2>2
<1>13. CASE StartPublication
  <2>1. /\ dash' = dash /\ building' = building
        /\ pub'.payload = [k \in CardSet |-> None]
        /\ site' = [site EXCEPT !.done = FALSE]
        /\ Started < MaxStarts /\ count' = [count EXCEPT !["publications"] = @ + 1]
    BY <1>13 DEF StartPublication, CardSet
  <2>2. m = n
    BY <2>1, Counting
  <2>3. site'.html = site.html /\ site'.json = site.json /\ site'.index = site.index
    BY <2>1 DEF Shapes
  <2>4. Site
    BY <1>3, <2>1, <2>3
  <2> QED
    BY <1>6, <1>8, <2>1, <2>2, <2>4
<1>14. CASE SkipCard \/ ReadPayload
  <2>1. PICK x : /\ AtCard("card") \/ AtCard("payload")
                 /\ pub' = NextCard(x) /\ UNCHANGED <<count, dash, building, site>>
                 /\ x # None => x.build = dash[Card].json.build /\ x.whole = dash[Card].json.whole
    BY <1>14 DEF SkipCard, ReadPayload
  <2>2. /\ pub # None /\ Card \in CardSet /\ pub'.payload[Card] = x
        /\ \A k \in CardSet : k # Card => pub'.payload[k] = pub.payload[k]
    BY <2>1, AtACard, GoesOn
  <2>3. x # None => FileOf(x, m)
    BY <1>1, <1>2, <2>1, <2>2 DEF FileOf, IsFile, Exists
  <2>4. Site
    BY <1>3, <2>1, <2>2, <2>3
  <2> QED
    BY <1>6, <1>8, <2>1, <2>4
<1>15. CASE CopyPage \/ CopyData \/ WriteIndex
  <2>1. /\ pub # None /\ dash' = dash /\ building' = building /\ m = n
        /\ pub'.payload = pub.payload
    BY <1>15, CopyEffect
  <2>2. CASE CopyPage
    <3>1. /\ site'.json = site.json /\ site'.index = site.index
          /\ \A k \in CardSet : site'.html[k] = IF k = Card THEN dash[Card].html
                                                ELSE site.html[k]
          /\ Card \in Kinds
      BY <2>2, CopyEffect, AtACard
    <3> QED
      BY <1>2, <1>3, <1>6, <1>8, <2>1, <3>1
  <2>3. CASE CopyData
    <3>1. /\ site'.html = site.html /\ site'.index = site.index
          /\ \A k \in CardSet : site'.json[k] = IF k = Card THEN dash[Card].json
                                                ELSE site.json[k]
          /\ Card \in Kinds
      BY <2>3, CopyEffect, AtACard
    <3> QED
      BY <1>2, <1>3, <1>6, <1>8, <2>1, <3>1
  <2>4. CASE WriteIndex
    <3>1. /\ site'.html = site.html /\ site'.json = site.json
          /\ \A k \in CardSet : site'.index[k] # None =>
               pub.payload[k] # None /\ site'.index[k] = Tiles(k, pub.payload[k])
      BY <2>4, CopyEffect
    <3>2. \A k \in CardSet : pub.payload[k] # None => FileOf(Tiles(k, pub.payload[k]), m)
      BY <1>3, <2>1 DEF FileOf, IsFile, Exists, Tiles
    <3> QED
      BY <1>3, <1>6, <1>8, <2>1, <3>1, <3>2
  <2> QED
    BY <1>15, <2>2, <2>3, <2>4
<1>16. CASE ScanReports \/ CopyAgentPage \/ EndPublication \/ PublicationCrash
  <2>1. /\ pub # None /\ dash' = dash /\ building' = building /\ m = n
        /\ site'.html = site.html /\ site'.json = site.json /\ site'.index = site.index
        /\ pub' # None => pub'.payload = pub.payload
    BY <1>16, PagesEffect
  <2> QED
    BY <1>3, <1>6, <1>8, <2>1
<1>17. CASE FreshCheckout
  <2>1. /\ \A k \in Kinds : dash'[k].json = Missing /\ dash'[k].html = Missing
        /\ building' = None /\ pub' = pub /\ site' = site
    BY <1>17 DEF FreshCheckout
  <2>2. FileOf(Missing, m) /\ Missing.build <= Missing.build
    BY <1>1, MissingIsFile DEF Missing
  <2> QED
    BY <1>7, <2>1, <2>2
<1> QED
  BY <1>9, <1>10, <1>11, <1>12, <1>13, <1>14, <1>15, <1>16, <1>17 DEF Next

\* The builds of a dashboard's data and of the site are numbers, and the data is
\* only replaced by that of a later one.
LEMMA DataIsReplacedByLater ==
  ASSUME ReportsOK, Shapes, BuildsInOrder, [Next]_vars, ~ FreshCheckout
  PROVE  \A k \in Kinds : dash[k].json.build <= dash'[k].json.build
<1>1. \A k \in Kinds : /\ dash[k].json.build \in Nat /\ dash[k].json.build <= count.builds
  BY PublishingAssumption DEF BuildsInOrder, FileOf, IsFile
<1>2. CASE BuildStep
  <2>1. \A k \in Kinds : \/ dash'[k].json = dash[k].json
                         \/ dash'[k].json = DataFile(building)
    BY <1>2, BuildEffect
  <2>2. DataFile(building).build = count.builds
    BY <1>2, BuildEffect DEF DataFile, BuildsInOrder
  <2> QED
    BY <1>1, <2>1, <2>2
<1>3. CASE ~ BuildStep
  <2>1. dash' = dash
    BY <1>3 DEF Next, vars, StartReport, Advance, StartBuild, BuildCrash, StartPublication,
       SkipCard, CopyPage, CopyData, ReadPayload, WriteIndex, ScanReports, CopyAgentPage,
       EndPublication, PublicationCrash
  <2> QED
    BY <1>1, <2>1
<1> QED
  BY <1>2, <1>3

\* Every step keeps a publication's cards in order, those of a dashboard command
\* that runs beside it included.
LEMMA CardsInductive ==
  ASSUME ReportsOK, Shapes, BuildsInOrder, CardsInOrder, [Next]_vars
  PROVE  CardsInOrder'
<1> DEFINE InOrder(s, k, x) == /\ Exists(s.html[k])
                               /\ s.html[k].build <= s.json[k].build
                               /\ s.json[k].build <= x.build
           Done(p, s) == \A i \in DOMAIN Cards :
             i < p.card /\ p.payload[Cards[i]] # None => InOrder(s, Cards[i], p.payload[Cards[i]])
           Current(p, s, d) ==
             LET k == Cards[p.card]
             IN  /\ p.step \in {"data", "payload"} => Exists(s.html[k])
                 /\ p.step = "data" => s.html[k].build <= d[k].json.build
                 /\ p.step = "payload" => InOrder(s, k, d[k].json)
           Index(s) == \A k \in CardSet : s.index[k] # None => InOrder(s, k, s.index[k])
           Late(p, s) == s.done \/ (p # None /\ p.step \in {"scan", "pages"})
<1>1. /\ pub # None => Done(pub, site) /\ Current(pub, site, dash)
      /\ Late(pub, site) => Index(site)
  BY DEF CardsInOrder, CardInOrder, Card
<1>2. SUFFICES /\ pub' # None => Done(pub', site') /\ Current(pub', site', dash')
               /\ Late(pub', site') => Index(site')
  BY DEF CardsInOrder, CardInOrder, Card, CardSet, Exists
<1>3. \A k \in Kinds : /\ dash[k].json.build \in Nat /\ dash[k].html.build \in Nat
                       /\ dash[k].html.build <= dash[k].json.build
  BY PublishingAssumption DEF BuildsInOrder, FileOf, IsFile
<1>4. \A k \in CardSet : site.html[k].build \in Nat /\ site.json[k].build \in Nat
  BY PublishingAssumption DEF BuildsInOrder, FileOf, IsFile
<1>5. /\ pub # None => /\ pub.card \in 1 .. Len(Cards) + 1 /\ ~ site.done
                       /\ pub.step \in {"card", "data", "payload"} <=> pub.card \in DOMAIN Cards
      /\ CardSet \subseteq Kinds /\ \A i \in DOMAIN Cards : Cards[i] \in CardSet
      /\ DOMAIN Cards = 1 .. Len(Cards) /\ Len(Cards) \in Nat
      /\ \A i, j \in DOMAIN Cards : Cards[i] = Cards[j] => i = j
  BY CardFacts DEF Shapes
<1>6. CASE /\ pub' = pub /\ site' = site
           /\ pub # None => \A k \in Kinds : /\ dash[k].json.build <= dash'[k].json.build
                                             /\ dash'[k].json.build \in Nat
  <2>1. ASSUME pub # None, pub.step \in {"data", "payload"} PROVE Current(pub, site, dash')
    <3> DEFINE k == Cards[pub.card]
    <3>1. k \in CardSet /\ k \in Kinds
      BY <1>5, <2>1
    <3> HIDE DEF k
    <3>2. /\ site.html[k].build \in Nat /\ site.json[k].build \in Nat
          /\ dash[k].json.build \in Nat /\ dash'[k].json.build \in Nat
          /\ dash[k].json.build <= dash'[k].json.build
      BY <1>3, <1>4, <1>6, <2>1, <3>1
    <3>3. /\ Exists(site.html[k])
          /\ pub.step = "data" => site.html[k].build <= dash[k].json.build
          /\ pub.step = "payload" => InOrder(site, k, dash[k].json)
      BY <1>1, <2>1 DEF k
    <3>4. /\ Exists(site.html[k])
          /\ pub.step = "data" => site.html[k].build <= dash'[k].json.build
          /\ pub.step = "payload" => InOrder(site, k, dash'[k].json)
      BY <3>2, <3>3
    <3> QED
      BY <3>4 DEF k
  <2>2. pub # None => Current(pub, site, dash')
    BY <2>1
  <2> QED
    BY <1>1, <1>6, <2>2
<1>7. CASE UNCHANGED vars \/ (\E s \in Subjects : StartReport(s)) \/ (\E r \in reports : Advance(r))
           \/ (\E k \in Kinds : StartBuild(k)) \/ BuildStep \/ BuildCrash
  <2>1. pub' = pub /\ site' = site
    BY <1>7 DEF vars, StartReport, Advance, StartBuild, BuildStep, BuildCrash
  <2>2. ~ FreshCheckout => \A k \in Kinds : dash[k].json.build <= dash'[k].json.build
    BY DataIsReplacedByLater
  <2>3. FreshCheckout => pub = None
    BY DEF FreshCheckout
  <2>4. \A k \in Kinds : dash'[k].json.build \in Nat
    <3>1. BuildsInOrder'
      BY BuildsInductive
    <3> QED
      BY <3>1, PublishingAssumption DEF BuildsInOrder, FileOf, IsFile, Kinds
  <2> QED
    BY <1>6, <2>1, <2>2, <2>3, <2>4
<1>8. CASE StartPublication
  <2>1. /\ pub'.card = 1 /\ pub'.step = "card" /\ ~ site'.done
    BY <1>8 DEF StartPublication, Shapes
  <2> QED
    BY <1>5, <2>1
<1>9. CASE SkipCard \/ ReadPayload
  <2>1. PICK x : /\ AtCard("card") \/ AtCard("payload")
                 /\ pub' = NextCard(x) /\ dash' = dash /\ site' = site
                 /\ x # None => AtCard("payload") /\ x.build = dash[Card].json.build
    BY <1>9 DEF SkipCard, ReadPayload
  <2>2. /\ pub # None /\ pub.card \in DOMAIN Cards
        /\ pub'.card = pub.card + 1 /\ pub'.step \in {"card", "index"}
        /\ pub'.payload[Card] = x
        /\ \A k \in CardSet : k # Card => pub'.payload[k] = pub.payload[k]
    BY <2>1, AtACard, GoesOn
  <2>3. x # None => InOrder(site, Card, x)
    BY <1>1, <2>1, <2>2 DEF AtCard, Card
  <2>4. Done(pub', site')
    <3> SUFFICES ASSUME NEW i \in DOMAIN Cards, i < pub'.card, pub'.payload[Cards[i]] # None
                 PROVE  InOrder(site, Cards[i], pub'.payload[Cards[i]])
      BY <2>1
    <3>1. CASE i = pub.card
      BY <2>2, <2>3, <3>1 DEF Card
    <3>2. CASE i # pub.card
      <4>1. i < pub.card
        BY <1>5, <2>2, <3>2
      <4>2. pub'.payload[Cards[i]] = pub.payload[Cards[i]]
        BY <1>5, <2>2, <3>2 DEF Card
      <4> QED
        BY <1>1, <2>2, <4>1, <4>2
    <3> QED
      BY <3>1, <3>2
  <2>5. ~ Late(pub', site')
    BY <1>5, <2>1, <2>2
  <2> QED
    BY <2>2, <2>4, <2>5
<1>10. CASE CopyPage
  <2>1. /\ pub # None /\ AtCard("card") /\ Exists(dash[Card].html) /\ dash' = dash
        /\ pub'.step = "data" /\ pub'.card = pub.card /\ pub'.payload = pub.payload
        /\ \A k \in CardSet : site'.html[k] = IF k = Card THEN dash[Card].html ELSE site.html[k]
        /\ site'.json = site.json /\ site'.done = site.done
    BY <1>10, CopyEffect
  <2>2. Card \in CardSet /\ Card \in Kinds /\ pub.card \in DOMAIN Cards
    BY <2>1, AtACard
  <2>3. Current(pub', site', dash')
    BY <1>3, <2>1, <2>2 DEF Card
  <2>4. \A i \in DOMAIN Cards : i < pub.card => Cards[i] # Card /\ Cards[i] \in CardSet
    BY <1>5, <2>2 DEF Card
  <2>5. Done(pub', site')
    BY <1>1, <2>1, <2>4
  <2> QED
    BY <1>5, <2>1, <2>3, <2>5
<1>11. CASE CopyData
  <2>1. /\ pub # None /\ AtCard("data") /\ dash' = dash
        /\ pub'.step = "payload" /\ pub'.card = pub.card /\ pub'.payload = pub.payload
        /\ \A k \in CardSet : site'.json[k] = IF k = Card THEN dash[Card].json ELSE site.json[k]
        /\ site'.html = site.html /\ site'.done = site.done
    BY <1>11, CopyEffect
  <2>2. Card \in CardSet /\ Card \in Kinds /\ pub.card \in DOMAIN Cards
    BY <2>1, AtACard
  <2>3. Exists(site.html[Card]) /\ site.html[Card].build <= dash[Card].json.build
    BY <1>1, <2>1 DEF AtCard, Card
  <2>4. Current(pub', site', dash')
    BY <1>3, <2>1, <2>2, <2>3 DEF Card
  <2>5. \A i \in DOMAIN Cards : i < pub.card => Cards[i] # Card /\ Cards[i] \in CardSet
    BY <1>5, <2>2 DEF Card
  <2>6. Done(pub', site')
    BY <1>1, <2>1, <2>5
  <2> QED
    BY <1>5, <2>1, <2>4, <2>6
<1>12. CASE WriteIndex
  <2>1. /\ pub # None /\ AtCard("index")
        /\ pub'.step = "scan" /\ pub'.card = pub.card /\ pub'.payload = pub.payload
        /\ \A k \in CardSet : site'.index[k] # None =>
             pub.payload[k] # None /\ site'.index[k] = Tiles(k, pub.payload[k])
        /\ site'.html = site.html /\ site'.json = site.json
    BY <1>12, CopyEffect
  <2>2. pub.card = Len(Cards) + 1
    BY <1>5, <2>1 DEF AtCard
  <2>3. ASSUME NEW k \in CardSet, pub.payload[k] # None
        PROVE  InOrder(site, k, pub.payload[k])
    <3>1. PICK i \in DOMAIN Cards : Cards[i] = k
      BY CardFacts
    <3>2. i < pub.card
      BY <1>5, <2>2
    <3> QED
      BY <1>1, <2>1, <2>3, <3>1, <3>2
  <2>4. \A k, x : Tiles(k, x).build = x.build
    BY DEF Tiles
  <2>5. ASSUME NEW k \in CardSet, site'.index[k] # None
        PROVE  InOrder(site', k, site'.index[k])
    <3>1. /\ InOrder(site, k, pub.payload[k])
          /\ site'.index[k].build = pub.payload[k].build
      BY <2>1, <2>3, <2>4, <2>5
    <3> QED
      BY <2>1, <3>1
  <2>6. Index(site')
    BY <2>5
  <2>7. Done(pub', site') /\ Current(pub', site', dash')
    BY <1>1, <2>1
  <2> QED
    BY <2>6, <2>7
<1>13. CASE ScanReports \/ CopyAgentPage \/ EndPublication \/ PublicationCrash
  <2>1. /\ pub # None
        /\ site'.html = site.html /\ site'.json = site.json /\ site'.index = site.index
        /\ pub' # None => /\ pub'.payload = pub.payload /\ pub'.step = "pages"
                          /\ pub'.card = pub.card /\ pub.step \in {"scan", "pages"}
        /\ site'.done => site.done \/ pub.step \in {"scan", "pages"}
    BY <1>13, PagesEffect
  <2>2. pub' # None => Done(pub', site') /\ Current(pub', site', dash')
    BY <1>1, <2>1
  <2>3. Late(pub', site') => Late(pub, site)
    BY <2>1
  <2> QED
    BY <1>1, <2>1, <2>2, <2>3
<1>14. CASE FreshCheckout
  <2>1. pub = None /\ pub' = pub /\ site' = site
    BY <1>14 DEF FreshCheckout
  <2> QED
    BY <1>6, <2>1
<1> QED
  BY <1>7, <1>8, <1>9, <1>10, <1>11, <1>12, <1>13, <1>14 DEF Next

\* A page and its data hold what their build loaded, and so do their copies.
LEMMA FilesFit ==
  ASSUME NEW made, NEW k, NEW b, b.kind = k,
         b.loaded = made[b.build], b.rows = Rows(made, k, b.build)
  PROVE  DataFits(made, k, DataFile(b)) /\ PageFits(made, k, PageFile(b))
BY DEF DataFits, PageFits, DataFile, PageFile

\* Tiles that are drawn from data show its aggregates.
LEMMA TilesFitData ==
  ASSUME NEW made, NEW k, NEW x, DataFits(made, k, x)
  PROVE  TilesFit(made, k, Tiles(k, x))
<1> SUFFICES ASSUME x.whole, k # "agent", NEW c \in Cells
             PROVE  Tiles(k, x).tile[c] = Aggregate(GroupOf(Rows(made, k, x.build), c))
  BY DEF TilesFit, Tiles
<1>1. c \in Pairs
  BY DEF Pairs
<1>2. x.pairs[c] = Aggregate(GroupOf(Rows(made, k, x.build), c))
  BY <1>1 DEF DataFits, EnginePairs
<1>3. Tiles(k, x).tile[c] = x.pairs[c]
  BY DEF Tiles
<1> QED
  BY <1>2, <1>3

\* What later builds load says nothing of earlier ones.
LEMMA FitsStay ==
  ASSUME NEW made, NEW later, NEW k, NEW x, made[x.build] = later[x.build]
  PROVE  /\ PageFits(made, k, x) => PageFits(later, k, x)
         /\ DataFits(made, k, x) => DataFits(later, k, x)
         /\ TilesFit(made, k, x) => TilesFit(later, k, x)
<1>1. Rows(made, k, x.build) = Rows(later, k, x.build)
  BY DEF Rows
<1> QED
  BY <1>1 DEF PageFits, DataFits, TilesFit

\* Every step keeps the files to what their builds loaded.
LEMMA ContentsInductive ==
  ASSUME ReportsOK, Shapes, BuildsInOrder, ContentsFit, [Next]_vars
  PROVE  ContentsFit'
<1>1. PICK made \in [Nat -> SUBSET Report] : Contents(made)
  BY DEF ContentsFit
<1>2. /\ \A b \in Nat : Found(made[b])
      /\ building # None => /\ building.loaded = made[building.build]
                            /\ building.rows = Rows(made, building.kind, building.build)
      /\ \A k \in Kinds : PageFits(made, k, dash[k].html) /\ DataFits(made, k, dash[k].json)
      /\ \A k \in CardSet :
           /\ PageFits(made, k, site.html[k])
           /\ pub # None /\ pub.payload[k] # None => DataFits(made, k, pub.payload[k])
           /\ site.index[k] # None => TilesFit(made, k, site.index[k])
  BY <1>1 DEF Contents
<1>3. ASSUME NEW later \in [Nat -> SUBSET Report],
             \A b \in Nat : Found(later[b]),
             building' # None => /\ building'.loaded = later[building'.build]
                                 /\ building'.rows = Rows(later, building'.kind, building'.build),
             \A k \in Kinds : PageFits(later, k, dash'[k].html)
                              /\ DataFits(later, k, dash'[k].json),
             \A k \in CardSet :
               /\ PageFits(later, k, site'.html[k])
               /\ pub' # None /\ pub'.payload[k] # None => DataFits(later, k, pub'.payload[k])
               /\ site'.index[k] # None => TilesFit(later, k, site'.index[k])
      PROVE  ContentsFit'
  <2>1. Contents(later)'
    BY <1>3 DEF Contents, PageFits, DataFits, TilesFit, Rows, Found, Kinds, CardSet, Exists,
       RowsOf, LatestPerPair, Visible, EnginePairs, Aggregate, GroupOf
  <2> QED
    BY <2>1 DEF ContentsFit
<1> DEFINE Built == building' # None =>
                      /\ building'.loaded = made[building'.build]
                      /\ building'.rows = Rows(made, building'.kind, building'.build)
           Dash == \A k \in Kinds : PageFits(made, k, dash'[k].html)
                                    /\ DataFits(made, k, dash'[k].json)
           Site == \A k \in CardSet :
                     /\ PageFits(made, k, site'.html[k])
                     /\ pub' # None /\ pub'.payload[k] # None =>
                          DataFits(made, k, pub'.payload[k])
                     /\ site'.index[k] # None => TilesFit(made, k, site'.index[k])
<1>4. Built /\ Dash /\ Site => ContentsFit'
  BY <1>2, <1>3
<1>5. /\ building' = building => Built
      /\ dash' = dash => Dash
      /\ pub' = pub /\ site' = site => Site
  BY <1>2
<1>6. CASE UNCHANGED vars \/ (\E s \in Subjects : StartReport(s))
           \/ (\E r \in reports : Advance(r)) \/ BuildCrash
  <2>1. Built /\ Dash /\ Site
    BY <1>5, <1>6 DEF vars, StartReport, Advance, BuildCrash
  <2> QED
    BY <1>4, <2>1
<1>7. ASSUME NEW k \in Kinds, StartBuild(k) PROVE ContentsFit'
  <2> DEFINE loaded == {r \in reports : r.kind = k}
             n == count.builds
             later == [made EXCEPT ![n + 1] = loaded]
  <2>1. /\ n \in Nat /\ n + 1 \in Nat /\ \A i \in Nat : i <= n => i # n + 1
    BY ReportsInductive
  <2>2. loaded \in SUBSET Report /\ Found(loaded)
    <3>1. loaded \subseteq reports /\ Found(reports)
      BY DEF ReportsOK
    <3> HIDE DEF loaded
    <3> QED
      BY <3>1, FS_Subset DEF Found
  <2>3. /\ building' = [kind |-> k, build |-> n + 1, step |-> 1, loaded |-> loaded,
                        rows |-> RowsOf(k, loaded)]
        /\ dash' = dash /\ pub' = pub /\ site' = site
    BY <1>7 DEF StartBuild
  <2> HIDE DEF n, loaded
  <2>4. /\ later \in [Nat -> SUBSET Report] /\ later[n + 1] = loaded
        /\ \A i \in Nat : i # n + 1 => later[i] = made[i]
    BY <2>1, <2>2
  <2> HIDE DEF later
  <2>5. \A b \in Nat : Found(later[b])
    BY <1>2, <2>2, <2>4
  <2>6. \A x : FileOf(x, n) => made[x.build] = later[x.build]
    BY <2>1, <2>4, PublishingAssumption DEF FileOf, IsFile
  <2>7. \A kk \in Kinds : PageFits(later, kk, dash'[kk].html) /\ DataFits(later, kk, dash'[kk].json)
    <3>1. \A kk \in Kinds : FileOf(dash[kk].html, n) /\ FileOf(dash[kk].json, n)
      BY DEF BuildsInOrder, n
    <3> QED
      BY <1>2, <2>3, <2>6, <3>1, FitsStay
  <2>8. ASSUME NEW kk \in CardSet
        PROVE  /\ PageFits(later, kk, site'.html[kk])
               /\ pub' # None /\ pub'.payload[kk] # None => DataFits(later, kk, pub'.payload[kk])
               /\ site'.index[kk] # None => TilesFit(later, kk, site'.index[kk])
    <3>1. /\ FileOf(site.html[kk], n)
          /\ pub # None /\ pub.payload[kk] # None => FileOf(pub.payload[kk], n)
          /\ site.index[kk] # None => FileOf(site.index[kk], n)
      BY DEF BuildsInOrder, n
    <3> QED
      BY <1>2, <2>3, <2>6, <3>1, FitsStay
  <2>9. /\ building'.loaded = later[building'.build]
        /\ building'.rows = Rows(later, building'.kind, building'.build)
    BY <2>3, <2>4 DEF Rows
  <2> QED
    BY <1>3, <2>4, <2>5, <2>7, <2>8, <2>9
<1>8. CASE BuildStep
  <2>1. /\ building # None /\ building.kind \in Kinds /\ pub' = pub /\ site' = site
        /\ \A k \in Kinds :
             /\ dash'[k].json = dash[k].json
                \/ (k = building.kind /\ dash'[k].json = DataFile(building))
             /\ dash'[k].html = dash[k].html
                \/ (k = building.kind /\ dash'[k].html = PageFile(building))
        /\ building' # None => /\ building'.loaded = building.loaded
                               /\ building'.rows = building.rows
                               /\ building'.kind = building.kind
                               /\ building'.build = building.build
    BY <1>8, BuildEffect
  <2>2. /\ DataFits(made, building.kind, DataFile(building))
        /\ PageFits(made, building.kind, PageFile(building))
    BY <1>2, <2>1, FilesFit
  <2>3. Built /\ Dash
    BY <1>2, <2>1, <2>2
  <2> QED
    BY <1>4, <1>5, <2>1, <2>3
<1>9. CASE StartPublication
  <2>1. /\ dash' = dash /\ building' = building
        /\ \A k \in CardSet : pub'.payload[k] = None
        /\ site'.html = site.html /\ site'.index = site.index
    BY <1>9 DEF StartPublication, CardSet, Shapes
  <2>2. Site
    BY <1>2, <2>1
  <2> QED
    BY <1>4, <1>5, <2>1, <2>2
<1>10. CASE SkipCard \/ ReadPayload
  <2>1. PICK x : /\ AtCard("card") \/ AtCard("payload")
                 /\ pub' = NextCard(x) /\ dash' = dash /\ building' = building /\ site' = site
                 /\ x # None => LET j == dash[Card].json
                                IN  x.build = j.build /\ x.whole = j.whole
                                    /\ (x.whole => x.pairs = j.pairs)
    BY <1>10 DEF SkipCard, ReadPayload
  <2>2. /\ pub # None /\ Card \in CardSet /\ Card \in Kinds /\ pub'.payload[Card] = x
        /\ \A k \in CardSet : k # Card => pub'.payload[k] = pub.payload[k]
    BY <2>1, AtACard, GoesOn
  <2>3. x # None => DataFits(made, Card, x)
    <3>1. DataFits(made, Card, dash[Card].json)
      BY <1>2, <2>2
    <3> QED
      BY <2>1, <3>1 DEF DataFits
  <2>4. Site
    BY <1>2, <2>1, <2>2, <2>3
  <2> QED
    BY <1>4, <1>5, <2>1, <2>4
<1>11. CASE CopyPage \/ CopyData \/ WriteIndex
  <2>1. /\ pub # None /\ dash' = dash /\ building' = building
        /\ pub'.payload = pub.payload
    BY <1>11, CopyEffect
  <2>2. CASE CopyPage
    <3>1. /\ site'.index = site.index /\ Card \in Kinds
          /\ \A k \in CardSet : site'.html[k] = IF k = Card THEN dash[Card].html
                                                ELSE site.html[k]
      BY <2>2, CopyEffect, AtACard
    <3>2. Site
      BY <1>2, <2>1, <3>1
    <3> QED
      BY <1>4, <1>5, <2>1, <3>2
  <2>3. CASE CopyData
    <3>1. site'.html = site.html /\ site'.index = site.index
      BY <2>3, CopyEffect
    <3>2. Site
      BY <1>2, <2>1, <3>1
    <3> QED
      BY <1>4, <1>5, <2>1, <3>2
  <2>4. CASE WriteIndex
    <3>1. /\ site'.html = site.html
          /\ \A k \in CardSet : site'.index[k] # None =>
               pub.payload[k] # None /\ site'.index[k] = Tiles(k, pub.payload[k])
      BY <2>4, CopyEffect
    <3>2. Site
      BY <1>2, <2>1, <3>1, TilesFitData
    <3> QED
      BY <1>4, <1>5, <2>1, <3>2
  <2> QED
    BY <1>11, <2>2, <2>3, <2>4
<1>12. CASE ScanReports \/ CopyAgentPage \/ EndPublication \/ PublicationCrash
  <2>1. /\ pub # None /\ dash' = dash /\ building' = building
        /\ site'.html = site.html /\ site'.index = site.index
        /\ pub' # None => pub'.payload = pub.payload
    BY <1>12, PagesEffect
  <2>2. Site
    BY <1>2, <2>1
  <2> QED
    BY <1>4, <1>5, <2>1, <2>2
<1>13. CASE FreshCheckout
  <2>1. /\ \A k \in Kinds : dash'[k].json = Missing /\ dash'[k].html = Missing
        /\ building' = None /\ building = None /\ pub' = pub /\ site' = site
    BY <1>13 DEF FreshCheckout
  <2>2. \A k : PageFits(made, k, Missing) /\ DataFits(made, k, Missing)
    BY DEF PageFits, DataFits, Missing, Exists
  <2>3. Dash
    BY <2>1, <2>2
  <2> QED
    BY <1>4, <1>5, <2>1, <2>3
<1> QED
  BY <1>6, <1>7, <1>8, <1>9, <1>10, <1>11, <1>12, <1>13 DEF Next

\* For every pair and task that was found there is a latest report, which no later
\* one that does not overlap with it surpasses.
LEMMA ScanFindsTheLatest ==
  ASSUME ReportsOK
  PROVE  /\ LatestReports \subseteq WithPage /\ WithPage \subseteq Report
         /\ Names(LatestReports) = Names(WithPage)
         /\ \A f \in LatestReports : IsLatest(WithPage, f) /\ StillThere(f)
<1>1. /\ WithPage \subseteq reports /\ WithPage \subseteq Report /\ LatestReports \subseteq WithPage
      /\ \A r \in WithPage : r.kind = "agent"
      /\ IsFiniteSet(WithPage)
  <2>1. WithPage \subseteq reports
    BY DEF WithPage, AgentReports
  <2>2. IsFiniteSet(WithPage)
    BY <2>1, FS_Subset DEF ReportsOK, Found
  <2> QED
    BY <2>1, <2>2 DEF WithPage, AgentReports, LatestReports, ReportsOK, Found
<1>2. \A r \in Report : r.at \in Nat /\ r.began \in Nat /\ r.run \in Nat
  BY PublishingAssumption DEF Report
<1>3. ASSUME NEW r \in WithPage
      PROVE  \E f \in LatestReports : f.pair = r.pair /\ f.task = r.task
  <2> DEFINE group == {x \in WithPage : x.pair = r.pair /\ x.task = r.task}
  <2>1. group \subseteq WithPage /\ r \in group
    OBVIOUS
  <2>2. group \subseteq Report /\ IsFiniteSet(group)
    BY <1>1, <2>1, FS_Subset
  <2> HIDE DEF group
  <2>3. PICK f \in group : \A x \in group : x.at <= f.at
    BY <2>1, <2>2, LatestExists
  <2>4. \A x \in group : ~ x.at > f.at
    BY <1>2, <2>2, <2>3
  <2> QED
    BY <2>3, <2>4 DEF group, LatestReports, Newer
<1>4. Names(LatestReports) = Names(WithPage)
  BY <1>1, <1>3 DEF Names
<1>5. ASSUME NEW f \in LatestReports PROVE IsLatest(WithPage, f) /\ StillThere(f)
  <2>1. ASSUME NEW y \in WithPage, y.pair = f.pair, y.task = f.task, y.run > f.run
        PROVE  y.began < f.at
    <3>1. y \in reports /\ f \in reports /\ y \in Report /\ f \in Report
      BY <1>1
    <3>2. ~ y.at > f.at
      BY <2>1 DEF LatestReports, Newer
    <3>3. y # f
      BY <1>2, <2>1, <3>1
    <3>4. y.at # f.at /\ y.began <= y.at
      BY <3>1, <3>3 DEF ReportsOK
    <3> QED
      BY <1>2, <3>1, <3>2, <3>4
  <2>2. StillThere(f)
    BY <1>1 DEF StillThere
  <2> QED
    BY <2>1, <2>2 DEF IsLatest
<1> QED
  BY <1>1, <1>4, <1>5

\* A page takes the place of those of its name.
LEMMA CopyReplaces ==
  ASSUME ReportsOK, NEW found, StillThere(found)
  PROVE  /\ NamesOf(Replaced(found)) = NamesOf(site.pages) \cup Names({found})
         /\ Copied(found).run = found.run /\ Copied(found).pair = found.pair
         /\ Copied(found).name = SafeName[found.task]
         /\ found.stage = PageWritten => Copied(found).whole
<1>1. PICK r \in reports : /\ r.kind = "agent" /\ r.run = found.run
                           /\ found.stage = PageWritten => r.stage = PageWritten
  BY DEF StillThere
<1>2. \A x \in reports : x.run = found.run => x = r
  BY <1>1 DEF ReportsOK, Found
<1>3. (CHOOSE x \in reports : x.kind = "agent" /\ x.run = found.run) = r
  BY <1>1, <1>2
<1>4. /\ Copied(found).run = found.run /\ Copied(found).pair = found.pair
      /\ Copied(found).name = SafeName[found.task]
      /\ Copied(found).whole = (r.stage = PageWritten)
  BY <1>3 DEF Copied
<1>5. NamesOf(Replaced(found)) = NamesOf(site.pages) \cup Names({found})
  BY <1>4 DEF Replaced, NamesOf, Names
<1> QED
  BY <1>1, <1>4, <1>5

\* Every step keeps the agent pages to those that were found.
LEMMA PagesInductive ==
  ASSUME ReportsOK, Shapes, PagesOK, [Next]_vars
  PROVE  PagesOK'
<1> DEFINE Copying(p, known, pages) ==
             /\ \A f \in p.todo : f \in Report /\ f \in known /\ IsLatest(known, f)
             /\ NamesOf(pages) \cup Names(p.todo) = Names(known)
             /\ \A x \in pages : PageOK(known, x)
           Copies(known, pages) ==
             /\ NamesOf(pages) = Names(known)
             /\ \A x \in pages : PageOK(known, x)
           There == \A f \in pub'.todo : StillThere(f)'
<1>1. /\ pub # None /\ pub.step = "pages" => /\ Copying(pub, Known, site.pages)
                                             /\ \A f \in pub.todo : StillThere(f)
      /\ site.done /\ site.scanned # None => Copies(Known, site.pages)
      /\ pub # None => ~ site.done
  BY DEF PagesOK, Shapes
<1>2. SUFFICES
        /\ pub' # None /\ pub'.step = "pages" => Copying(pub', Known', site'.pages) /\ There
        /\ site'.done /\ site'.scanned # None => Copies(Known', site'.pages)
  BY DEF PagesOK, IsLatest, PageOK, NamesOf, Names, Report, Pairs, Opened, PageWritten
<1>3. site'.scanned = site.scanned => Known' = Known
  BY DEF Known, PageOpened
<1>4. CASE pub' = pub /\ site' = site /\ (pub # None => ~ FreshCheckout)
  <2>1. pub # None => \A f \in Report : StillThere(f) => StillThere(f)'
    BY <1>4, ReportsInductive
  <2>2. pub # None /\ pub.step = "pages" => There
    BY <1>1, <1>4, <2>1
  <2> QED
    BY <1>1, <1>3, <1>4, <2>2
<1>5. CASE UNCHANGED vars \/ (\E s \in Subjects : StartReport(s)) \/ (\E r \in reports : Advance(r))
           \/ (\E k \in Kinds : StartBuild(k)) \/ BuildStep \/ BuildCrash \/ FreshCheckout
  <2>1. pub' = pub /\ site' = site
    BY <1>5 DEF vars, StartReport, Advance, StartBuild, BuildStep, BuildCrash, FreshCheckout
  <2>2. pub # None => ~ FreshCheckout
    BY DEF FreshCheckout
  <2> QED
    BY <1>4, <2>1, <2>2
<1>6. CASE StartPublication
  <2>1. pub'.step = "card" /\ ~ site'.done
    BY <1>6 DEF StartPublication, Shapes
  <2> QED
    BY <2>1
<1>7. CASE SkipCard \/ ReadPayload
  <2>1. PICK x : /\ AtCard("card") \/ AtCard("payload")
                 /\ pub' = NextCard(x) /\ site' = site
    BY <1>7 DEF SkipCard, ReadPayload
  <2>2. pub # None /\ pub'.step \in {"card", "index"}
    BY <2>1, AtACard, GoesOn
  <2> QED
    BY <1>1, <2>1, <2>2
<1>8. CASE CopyPage \/ CopyData \/ WriteIndex
  <2>1. pub # None /\ site'.done = site.done /\ pub'.step # "pages"
    BY <1>8, CopyEffect
  <2> QED
    BY <1>1, <2>1
<1>9. CASE ScanReports
  <2>1. CASE AgentReports = {}
    <3>1. pub' = None /\ site'.scanned = None
      BY <1>9, <2>1 DEF ScanReports, Shapes
    <3> QED
      BY <3>1
  <2>2. CASE AgentReports # {}
    <3>1. /\ pub # None /\ reports' = reports
          /\ pub' = [pub EXCEPT !.step = "pages", !.todo = LatestReports]
          /\ site' = [site EXCEPT !.pages = {}, !.scanned = AgentReports]
      BY <1>9, <2>2 DEF ScanReports, AtCard
    <3>2. pub'.todo = LatestReports
      BY <3>1 DEF Shapes
    <3>3. site'.pages = {} /\ site'.scanned = AgentReports /\ site'.done = site.done
      BY <3>1 DEF Shapes
    <3>4. Known' = WithPage
      BY <3>3 DEF Known, WithPage, PageOpened
    <3>5. Copying(pub', Known', site'.pages)
      <4>1. NamesOf({}) \cup Names(LatestReports) = Names(WithPage)
        BY ScanFindsTheLatest DEF NamesOf
      <4> QED
        BY <3>2, <3>3, <3>4, <4>1, ScanFindsTheLatest
    <3>6. There
      BY <3>1, <3>2, ScanFindsTheLatest DEF StillThere
    <3> QED
      BY <1>1, <3>1, <3>3, <3>5, <3>6
  <2> QED
    BY <2>1, <2>2
<1>10. CASE CopyAgentPage
  <2>1. PICK found \in pub.todo :
          /\ pub # None /\ pub.step = "pages" /\ reports' = reports
          /\ pub' = [pub EXCEPT !.todo = pub.todo \ {found}]
          /\ site' = [site EXCEPT !.pages = Replaced(found)]
    BY <1>10 DEF CopyAgentPage, AtCard, Replaced, Copied
  <2>2. pub'.todo = pub.todo \ {found}
    BY <2>1 DEF Shapes
  <2>3. site'.pages = Replaced(found) /\ site'.scanned = site.scanned /\ site'.done = site.done
    BY <2>1 DEF Shapes
  <2>4. /\ found \in Known /\ IsLatest(Known, found) /\ StillThere(found)
        /\ Copying(pub, Known, site.pages) /\ \A f \in pub.todo : StillThere(f)
    BY <1>1, <2>1
  <2>5. NamesOf(Replaced(found)) \cup Names(pub.todo \ {found}) = Names(Known)
    <3>1. Names(pub.todo) = Names({found}) \cup Names(pub.todo \ {found})
      BY DEF Names
    <3> QED
      BY <2>4, <3>1, CopyReplaces
  <2>6. \A x \in Replaced(found) : PageOK(Known, x)
    <3>1. PageOK(Known, Copied(found))
      BY <2>4, CopyReplaces DEF PageOK
    <3> QED
      BY <2>4, <3>1 DEF Replaced
  <2>7. Copying(pub', Known', site'.pages)
    BY <1>3, <2>2, <2>3, <2>4, <2>5, <2>6
  <2>8. There
    BY <2>1, <2>2, <2>4 DEF StillThere
  <2> QED
    BY <1>1, <2>1, <2>3, <2>7, <2>8
<1>11. CASE EndPublication
  <2>1. /\ pub # None /\ pub.step = "pages" /\ pub.todo = {} /\ pub' = None
        /\ site'.pages = site.pages /\ site'.scanned = site.scanned
    BY <1>11 DEF EndPublication, AtCard, Shapes
  <2>2. Copies(Known, site.pages)
    BY <1>1, <2>1 DEF Names
  <2> QED
    BY <1>3, <2>1, <2>2
<1>12. CASE PublicationCrash
  BY <1>1, <1>12 DEF PublicationCrash
<1> QED
  BY <1>5, <1>6, <1>7, <1>8, <1>9, <1>10, <1>11, <1>12 DEF Next

-----------------------------------------------------------------------------
\* The inductive invariant and what follows from it

\* Nothing was started and no file exists.
LEMMA InitPublishing == Init => PublishingInv
<1> SUFFICES ASSUME Init PROVE PublishingInv
  OBVIOUS
<1>1. /\ count = [reports |-> 0, builds |-> 0, publications |-> 0] /\ reports = {}
      /\ dash = [k \in Kinds |-> [json |-> Missing, html |-> Missing]]
      /\ building = None /\ pub = None
      /\ site = [html |-> [k \in CardSet |-> Missing], json |-> [k \in CardSet |-> Missing],
                 index |-> [k \in CardSet |-> None], pages |-> {}, scanned |-> None,
                 done |-> FALSE]
  BY DEF Init, CardSet
<1>2. Found({})
  BY FS_EmptySet DEF Found
<1>3. ReportsOK
  BY <1>1, <1>2, PublishingAssumption DEF ReportsOK, Started
<1>4. Shapes
  BY <1>1 DEF Shapes
<1>5. BuildsInOrder
  <2>1. \A k \in Kinds : dash[k].json = Missing /\ dash[k].html = Missing
    BY <1>1
  <2>2. \A k \in CardSet : /\ site.html[k] = Missing /\ site.json[k] = Missing
                           /\ site.index[k] = None
    BY <1>1
  <2>3. FileOf(Missing, count.builds) /\ Missing.build <= Missing.build
    BY <1>1, MissingIsFile DEF Missing
  <2> QED
    BY <1>1, <2>1, <2>2, <2>3 DEF BuildsInOrder
<1>6. CardsInOrder /\ PagesOK
  BY <1>1 DEF CardsInOrder, PagesOK
<1>7. ContentsFit
  <2> DEFINE made == [b \in Nat |-> {}]
  <2>1. made \in [Nat -> SUBSET Report] /\ \A b \in Nat : Found(made[b])
    BY <1>2
  <2> HIDE DEF made
  <2>2. \A k : PageFits(made, k, Missing) /\ DataFits(made, k, Missing)
    BY DEF PageFits, DataFits, Missing, Exists
  <2>3. Contents(made)
    BY <1>1, <2>1, <2>2 DEF Contents
  <2> QED
    BY <2>1, <2>3 DEF ContentsFit
<1> QED
  BY <1>3, <1>4, <1>5, <1>6, <1>7 DEF PublishingInv

\* The invariant holds however labs, dashboard commands and publications interleave.
THEOREM PublishingInvariant == Spec => []PublishingInv
<1>1. Init => PublishingInv
  BY InitPublishing
<1>2. PublishingInv /\ [Next]_vars => PublishingInv'
  <2> SUFFICES ASSUME PublishingInv, [Next]_vars PROVE PublishingInv'
    OBVIOUS
  <2>1. ReportsOK /\ Shapes /\ BuildsInOrder /\ CardsInOrder /\ ContentsFit /\ PagesOK
    BY DEF PublishingInv
  <2>2. ReportsOK' /\ Shapes'
    BY <2>1, ReportsInductive, ShapesInductive
  <2>3. BuildsInOrder' /\ CardsInOrder'
    BY <2>1, BuildsInductive, CardsInductive
  <2>4. ContentsFit' /\ PagesOK'
    BY <2>1, ContentsInductive, PagesInductive
  <2> QED
    BY <2>2, <2>3, <2>4 DEF PublishingInv
<1> QED
  BY <1>1, <1>2, PTL DEF Spec

\* Every variable has its type, and every report and file is of a run that was
\* started.
THEOREM PublishingTypeCorrect == Spec => []TypeOK
<1>1. PublishingInv => TypeOK
  <2> SUFFICES ASSUME PublishingInv PROVE TypeOK
    OBVIOUS
  <2>1. ReportsOK /\ Shapes /\ BuildsInOrder
    BY DEF PublishingInv
  <2>2. count \in [reports : 0 .. MaxStarts, builds : 0 .. MaxStarts,
                   publications : 0 .. MaxStarts]
    <3>1. /\ count \in [reports : Nat, builds : Nat, publications : Nat]
          /\ MaxStarts \in Nat
          /\ count.reports + count.builds + count.publications <= MaxStarts
      BY <2>1, PublishingAssumption DEF ReportsOK, Started
    <3>2. /\ count.reports \in 0 .. MaxStarts /\ count.builds \in 0 .. MaxStarts
          /\ count.publications \in 0 .. MaxStarts
      BY <3>1
    <3> QED
      BY <3>1, <3>2
  <2>3. \A r \in reports : /\ [kind |-> r.kind, pair |-> r.pair, task |-> r.task] \in Subjects
                           /\ r.run \in 1 .. count.reports
                           /\ r.stage \in Opened .. PageWritten
                           /\ r.began <= r.at
    <3>1. \A r \in reports : r.run \in 1 .. MaxStarts /\ r.run <= count.reports
                             /\ r.stage \in Opened .. PageWritten
      BY <2>1 DEF ReportsOK, Found, Report
    <3>2. count.reports \in Nat /\ MaxStarts \in Nat
      BY <2>1, PublishingAssumption DEF ReportsOK
    <3>3. \A r \in reports : r.run \in 1 .. count.reports
      BY <3>1, <3>2
    <3> QED
      BY <2>1, <3>1, <3>3 DEF ReportsOK
  <2>4. \A r, x \in reports : r.run = x.run => r = x
    BY <2>1 DEF ReportsOK, Found
  <2>5. /\ \A k \in Kinds : IsFile(dash[k].json) /\ IsFile(dash[k].html)
        /\ \A k \in CardSet : /\ IsFile(site.html[k]) /\ IsFile(site.json[k])
                              /\ site.index[k] # None => IsFile(site.index[k])
    BY <2>1 DEF BuildsInOrder, FileOf
  <2>6. building # None => building.step \in 1 .. 4 /\ building.build <= count.builds
    BY <2>1 DEF Shapes, BuildsInOrder, ReportsOK
  <2>7. pub # None => /\ pub.step \in {"card", "data", "payload", "index", "scan", "pages"}
                      /\ pub.step \in {"card", "data", "payload"} <=> pub.card \in DOMAIN Cards
                      /\ ~ site.done
    BY <2>1 DEF Shapes
  <2> QED
    BY <2>2, <2>3, <2>4, <2>5, <2>6, <2>7 DEF TypeOK, CardSet
<1> QED
  BY <1>1, PublishingInvariant, PTL

\* What a build shows: the aggregates of a pair are those of its rows.
LEMMA AggregateOfShown ==
  ASSUME NEW R, Found(R), NEW k, NEW c, c \notin Blocked, k # "agent"
  PROVE  LET shown == {r.run : r \in {x \in Visible(k, RowsOf(k, R)) : x.pair = c}}
             tile == Aggregate(GroupOf(RowsOf(k, R), c))
         IN  IF shown = {} THEN tile = None
             ELSE /\ tile.count = Cardinality(shown)
                  /\ tile.sum = SumSet(shown)
                  /\ tile.worst = Max(shown)
<1> DEFINE rows == RowsOf(k, R)
           G == GroupOf(rows, c)
           shown == {r.run : r \in G}
           f == [r \in G |-> r.run]
<1>1. rows \subseteq R
  BY DEF RowsOf, LatestPerPair
<1>2. G \subseteq R
  BY <1>1 DEF GroupOf
<1>3. {x \in Visible(k, rows) : x.pair = c} = G
  BY DEF Visible, GroupOf
<1> HIDE DEF rows, G
<1>4. IsFiniteSet(G) /\ \A r, x \in G : r.run = x.run => r = x
  BY <1>2, FS_Subset DEF Found
<1>5. f \in [G -> shown] /\ shown = {f[r] : r \in G}
      /\ \A r, x \in G : f[r] = f[x] => r = x
  BY <1>4
<1> HIDE DEF f
<1>6. Cardinality(shown) = Cardinality(G)
  <2> HIDE DEF shown
  <2> QED
    BY <1>4, <1>5, Numbers
<1>7. CASE G = {}
  BY <1>3, <1>7 DEF Aggregate, G, rows
<1>8. CASE G # {}
  <2>1. shown # {}
    BY <1>8
  <2>2. Aggregate(G) = [count |-> Cardinality(G), sum |-> SumSet(shown), worst |-> Max(shown)]
    BY <1>8 DEF Aggregate
  <2> HIDE DEF shown
  <2>3. /\ Aggregate(G).count = Cardinality(shown)
        /\ Aggregate(G).sum = SumSet(shown) /\ Aggregate(G).worst = Max(shown)
    BY <1>6, <2>2
  <2> QED
    BY <1>3, <2>1, <2>3 DEF shown, G, rows
<1> QED
  BY <1>7, <1>8

\* A published index leads to pages and never tells of older data than they show;
\* where all are of one build, its tiles are the aggregates of the page's rows.
THEOREM SiteAgrees == Spec => []PublishedSiteAgrees
<1>1. PublishingInv => PublishedSiteAgrees
  <2> SUFFICES ASSUME PublishingInv, site.done, NEW k \in CardSet, site.index[k] # None
      PROVE  LET page == site.html[k]
                 index == site.index[k]
             IN  /\ Exists(page) /\ Exists(site.json[k])
                 /\ page.build <= site.json[k].build /\ site.json[k].build <= index.build
                 /\ k # "agent" /\ page.build = index.build /\ page.whole /\ index.whole =>
                      \A c \in Cells :
                        LET shown == {r.run : r \in {x \in page.rows : x.pair = c}}
                        IN  IF shown = {} THEN index.tile[c] = None
                            ELSE /\ index.tile[c].count = Cardinality(shown)
                                 /\ index.tile[c].sum = SumSet(shown)
                                 /\ index.tile[c].worst = Max(shown)
    BY DEF PublishedSiteAgrees, CardSet
  <2> DEFINE page == site.html[k]
             index == site.index[k]
  <2>1. /\ Exists(page)
        /\ page.build <= site.json[k].build /\ site.json[k].build <= index.build
    BY DEF PublishingInv, CardsInOrder, CardInOrder
  <2>2. page.build \in Nat /\ site.json[k].build \in Nat
    BY PublishingAssumption DEF PublishingInv, BuildsInOrder, FileOf, IsFile
  <2>3. Exists(site.json[k])
    BY <2>1, <2>2 DEF Exists
  <2>4. ASSUME k # "agent", page.build = index.build, page.whole, index.whole, NEW c \in Cells
        PROVE  LET shown == {r.run : r \in {x \in page.rows : x.pair = c}}
               IN  IF shown = {} THEN index.tile[c] = None
                   ELSE /\ index.tile[c].count = Cardinality(shown)
                        /\ index.tile[c].sum = SumSet(shown)
                        /\ index.tile[c].worst = Max(shown)
    <3>1. PICK made \in [Nat -> SUBSET Report] : Contents(made)
      BY DEF PublishingInv, ContentsFit
    <3> DEFINE R == made[page.build]
    <3>2. Found(R)
      BY <2>2, <3>1 DEF Contents
    <3>3. PageFits(made, k, page) /\ TilesFit(made, k, index)
      BY <3>1 DEF Contents
    <3>4. /\ page.rows = Visible(k, RowsOf(k, R))
          /\ index.tile[c] = Aggregate(GroupOf(RowsOf(k, R), c))
      BY <2>1, <2>4, <3>3 DEF PageFits, TilesFit, Rows
    <3>5. c \notin Blocked
      BY PublishingAssumption
    <3> HIDE DEF R, page, index
    <3> DEFINE shown == {r.run : r \in {x \in Visible(k, RowsOf(k, R)) : x.pair = c}}
               tile == Aggregate(GroupOf(RowsOf(k, R), c))
    <3>6. IF shown = {} THEN tile = None
          ELSE /\ tile.count = Cardinality(shown)
               /\ tile.sum = SumSet(shown)
               /\ tile.worst = Max(shown)
      BY <2>4, <3>2, <3>5, AggregateOfShown
    <3>7. {r.run : r \in {x \in page.rows : x.pair = c}} = shown /\ index.tile[c] = tile
      BY <3>4
    <3> HIDE DEF shown, tile
    <3> QED
      BY <3>6, <3>7 DEF page, index
  <2> QED
    BY <2>1, <2>3, <2>4
<1> QED
  BY <1>1, PublishingInvariant, PTL

\* The site shows the latest run of every agent task, but for labs that
\* overlapped, and the endpoint page the latest probe of every endpoint.
THEOREM LatestShown == Spec => []LatestReportsAreShown
<1>1. PublishingInv => PublishedPagesAreLatest
  BY DEF PublishingInv, PagesOK, PublishedPagesAreLatest, Known, Names, NamesOf, PageOK, IsLatest
<1>2. PublishingInv => ProbesShownAreLatest
  <2> SUFFICES ASSUME PublishingInv, "endpoint" \in Kinds, Exists(dash["endpoint"].html)
      PROVE  LET page == dash["endpoint"].html
             IN  /\ {r.pair : r \in page.rows} = {r.pair : r \in page.loaded} \ Blocked
                 /\ \A r \in page.rows, x \in page.loaded : x.pair = r.pair => x.run <= r.run
    BY DEF ProbesShownAreLatest
  <2> DEFINE page == dash["endpoint"].html
             R == page.loaded
  <2>1. PICK made \in [Nat -> SUBSET Report] : Contents(made)
    BY DEF PublishingInv, ContentsFit
  <2>2. page.build \in Nat
    BY PublishingAssumption DEF PublishingInv, BuildsInOrder, FileOf, IsFile
  <2>3. PageFits(made, "endpoint", page)
    BY <2>1 DEF Contents
  <2>4. /\ Found(R)
        /\ page.rows = {r \in LatestPerPair(R) : r.pair \notin Blocked}
    BY <2>1, <2>2, <2>3 DEF Contents, PageFits, Rows, RowsOf, Visible
  <2> HIDE DEF page
  <2>5. ASSUME NEW x \in R PROVE \E r \in LatestPerPair(R) : r.pair = x.pair
    <3> DEFINE group == {r \in R : r.pair = x.pair}
    <3>1. group \subseteq Report /\ IsFiniteSet(group) /\ x \in group
      BY <2>4, FS_Subset DEF Found
    <3> HIDE DEF group
    <3>2. PICK r \in group : \A y \in group : y.run <= r.run
      BY <3>1, LatestExists
    <3> QED
      BY <3>2 DEF group, LatestPerPair
  <2>6. {r.pair : r \in page.rows} = {r.pair : r \in R} \ Blocked
    BY <2>4, <2>5 DEF LatestPerPair
  <2>7. \A r \in page.rows, x \in R : x.pair = r.pair => x.run <= r.run
    BY <2>4 DEF LatestPerPair
  <2> QED
    BY <2>6, <2>7 DEF page
<1>3. PublishingInv => LatestReportsAreShown
  BY <1>1, <1>2 DEF LatestReportsAreShown
<1> QED
  BY <1>3, PublishingInvariant, PTL
============================================================================
