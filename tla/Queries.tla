------------------------------- MODULE Queries -------------------------------
(***************************************************************************)
(* The read commands and MCP tools: one query walks an official list page  *)
(* by page, perhaps a second one, joins them and answers.  Meanwhile the   *)
(* lists change: rows move, come and go between two pages.                 *)
(*                                                                         *)
(* Five ways to walk exist in the code: CollectPages, the video library's, *)
(* the unified reports', the authorized creators' and the cursor of a      *)
(* creator's videos.  They differ in what they refuse.                     *)
(***************************************************************************)
EXTENDS Integers, Sequences, FiniteSets, SequencesExt, Functions, Lists

CONSTANTS
    Ids,          \* keys of the rows: plans, products, videos, creators, ...
    Attributes,   \* what the rows may say: functions from Ids to Facts
    Selections,   \* IDs a request may ask for: sets of Ids
    Top,          \* --top, 0 for all
    PageSize,
    MaxPages,     \* --max-pages: the limits a request may set
    MaxChanges,   \* bound: changes of the official lists while a query runs
    None

Statuses == {"on", "off"}
Products == <<1, 2>>   \* of the product template a creator's videos are listed for

(* spend of a plan or unit; status of a plan, unit or product, of a        *)
(* creator's video whether it can be used, of a library video whether its  *)
(* file name has the text asked for; wanted: a creator with the visible ID *)
(* that was asked for; products of a video (countries of a city).          *)
Facts == [spend : Nat, status : Statuses, wanted : BOOLEAN, products : SUBSET {1, 2}]

ASSUME QueriesAssumption ==
    /\ Ids \subseteq Nat /\ IsFiniteSet(Ids) /\ PageSize \in Nat \ {0} /\ MaxPages \subseteq Nat \ {0} /\ Top \in Nat
    /\ \A f \in Attributes : DOMAIN f = Ids /\ \A i \in Ids : f[i] \in Facts
    /\ \A s \in Selections : s \subseteq Ids

VARIABLES
    fact,     \* what the rows say, for this behaviour
    server,   \* the official lists: "main" (the report or list) and "side" (its metadata)
    query,    \* the query under way and its answer
    steady,   \* history: no row came or went and no page was wrong since it was asked
    changes   \* changes of the lists so far

queryVars == <<fact, server, query, steady, changes>>

-----------------------------------------------------------------------------
(* Endpoints: the list a request of a query is about, as it is now         *)

(* The rows of a list that are about these, in its order.                  *)
Only(rows, ids) == Kept(rows, {k \in DOMAIN rows : rows[k] \in ids})

Where(list, ids) == Only(server[list], ids)
WithStatus(status) == {i \in Ids : status \in {"ALL", fact[i].status}}

FetchProducts(ask) == Where("main", ask.ids)
FetchPlans(ask) == Where("main", WithStatus(ask.status))
FetchPlanMaterials(ask) == Where("main", Ids)
FetchAuthorizedCreators(ask) == Where("side", ask.ids \cup {i \in Ids : fact[i].wanted})
FetchCreatorVideos(product) == Where("main", {i \in Ids : product \in fact[i].products})
FetchMaterialPage(ask) == Where("main", ask.ids)
FetchDataPage(ask) == Where("main", ask.ids)
FetchPlanMetricPage == Where("main", Ids)
FetchPlanMetadataPage == Where("side", Ids)      \* asked with status ALL
FetchRoomDimensionPage(ask) == Where("main", ask.ids)
FetchAuthorDimensionPage(ask) == Where("main", ask.ids)
FetchReportPage(ids) == Where("main", ids)
FetchPromotionPage(ask) == Where("side", ask.ids)
FetchLibraryVideos(ask) == Where("main", ask.ids)
FetchLibraryImages(ask) == Where("main", ask.ids)
FetchDPAProducts(ask) == Where("main", ask.ids)
FetchCreatorAuthorizations(ask) == Where("main", ask.ids)
FetchCreatorHomepage(ask) == Where("main", Ids)

FetchAdVideos(ask) == Where("main", ask.ids)
FetchAdImages(ask) == Where("main", ask.ids)
FetchCoverSuggestions(ask) == Where("main", ask.ids)   \* none while they are made
FetchAllPromotion == Where("main", Ids)                \* what the platform adds up
FetchUniPromotion == Where("main", Ids)
FetchDetail(ask) == Where("main", ask.ids)

(* Schemas: the topics the platform reports on.                            *)
FetchSchema(ask) == Where("side", ask.ids)
FetchSchemas(ask) == Where("side", ask.ids)

(* Diagnostic reads of the Marketing discovery commands.                   *)
FetchProjects(ask) == Where("main", WithStatus(ask.status))
FetchPromotions(ask) == Where("side", ask.ids \cap WithStatus(ask.status))
FetchDPA(ask) == Where("main", ask.ids)
FetchEvents(ask) == Where("main", ask.ids)
FetchDeepBids(ask) == Where("main", WithStatus(ask.status))
FetchGoals(ask) == Where("main", ask.ids \cap WithStatus(ask.status))

(* Of the cities asked for, those a country has, country by country.       *)
FetchAdminInfo(ask, country) == Where("main", ask.ids \cap {i \in Ids : country \in fact[i].products})

(* What the query reads from now.                                          *)
Rows(q) ==
    LET ask == q.ask
    IN CASE q.reads = "products" -> FetchProducts(ask)
         [] q.reads = "plans" -> FetchPlans(ask)
         [] q.reads = "plan materials" -> FetchPlanMaterials(ask)
         [] q.reads = "creators" -> FetchAuthorizedCreators(ask)
         [] q.reads = "videos" -> FetchCreatorVideos(q.product)
         [] q.reads = "materials" -> FetchMaterialPage(ask)
         [] q.reads = "data" -> FetchDataPage(ask)
         [] q.reads = "plan metrics" -> FetchPlanMetricPage
         [] q.reads = "plan metadata" -> FetchPlanMetadataPage
         [] q.reads = "room" -> FetchRoomDimensionPage(ask)
         [] q.reads = "author" -> FetchAuthorDimensionPage(ask)
         [] q.reads = "plan report" -> FetchReportPage(Ids)
         [] q.reads = "material report" -> FetchReportPage(ToSet(q.kept))
         [] q.reads = "promotions" -> FetchPromotionPage(ask)
         [] q.reads = "library" -> FetchLibraryVideos(ask)
         [] q.reads = "images" -> FetchLibraryImages(ask)
         [] q.reads = "dpa products" -> FetchDPAProducts(ask)
         [] q.reads = "authorizations" -> FetchCreatorAuthorizations(ask)
         [] q.reads = "homepage" -> FetchCreatorHomepage(ask)
         [] q.reads = "projects" -> FetchProjects(ask)
         [] q.reads = "project promotions" -> FetchPromotions(ask)
         [] q.reads = "dpa" -> FetchDPA(ask)
         [] q.reads = "events" -> FetchEvents(ask)
         [] q.reads = "deep bids" -> FetchDeepBids(ask)
         [] q.reads = "goals" -> FetchGoals(ask)
         [] q.reads = "ad videos" -> FetchAdVideos(ask)
         [] q.reads = "ad images" -> FetchAdImages(ask)
         [] q.reads = "covers" -> FetchCoverSuggestions(ask)
         [] q.reads = "overall" -> FetchAllPromotion
         [] q.reads = "unified" -> FetchUniPromotion
         [] q.reads = "plan" -> FetchDetail(ask)
         [] q.reads = "schema" -> FetchSchema(ask)
         [] q.reads = "unified schema" -> FetchSchemas(ask)
         [] q.reads \in {"plan schema", "project schema"} -> << >>   \* its fields: see SchemaMisses
         [] q.reads = "regions" -> FetchAdminInfo(ask, q.page)

Lesser(a, b) == IF a < b THEN a ELSE b
Slice(rows, from) == SubSeq(rows, from + 1, Lesser(from + PageSize, Len(rows)))

(* A numbered page: its rows, the totals it declares.                      *)
Page(rows, n) ==
    [pages |-> (Len(rows) + PageSize - 1) \div PageSize, total |-> Len(rows),
     rows |-> Slice(rows, (n - 1) * PageSize)]

(* A cursor page: the cursor is the offset of the next row.                *)
CursorPage(rows, cursor) ==
    LET from == IF cursor = None THEN 0 ELSE cursor
    IN [more |-> from + PageSize < Len(rows), next |-> from + PageSize, rows |-> Slice(rows, from)]

(* Pages the service may get wrong: another total, a row given twice, one  *)
(* left out; a cursor it gave before.                                      *)
Wrong(page) ==
    {[page EXCEPT !.total = @ + 1], [page EXCEPT !.rows = @ \o @]}
        \cup (IF page.rows = << >> THEN {} ELSE {[page EXCEPT !.rows = Tail(@)]})
WrongCursor(q, page) == {[page EXCEPT !.next = c] : c \in q.cursors}

-----------------------------------------------------------------------------
(* Walks: what a query becomes of a page                                   *)

Refuse(q) == [q EXCEPT !.pc = "refused"]
Turn(q, page) == [q EXCEPT !.page = @ + 1, !.got = @ \o page.rows, !.pages = page.pages, !.total = page.total]
End(q, page) == [Turn(q, page) EXCEPT !.pc = "walked"]

ChangedTotals(q, page) == q.pages # None /\ <<page.pages, page.total>> # <<q.pages, q.total>>
Contradicts(q, page) ==
    \/ page.pages = 0 /\ (q.page # 1 \/ page.total # 0 \/ page.rows # << >>)
    \/ page.pages > 0 /\ q.page > page.pages
    \/ ChangedTotals(q, page)
Repeats(q, page) == ~IsInjective(q.got \o page.rows)

(* Mutant: a row may come twice.                                           *)
CollectAnyRows(q, page) ==
    LET turned == Turn(q, page)
    IN IF Contradicts(q, page) THEN Refuse(q)
       ELSE IF page.pages = 0 \/ q.ask.single THEN End(q, page)
       ELSE IF q.page = page.pages
            THEN IF q.ask.start = 1 /\ Len(turned.got) # page.total THEN Refuse(q) ELSE End(q, page)
       ELSE IF q.page - q.ask.start + 1 = q.ask.cap THEN Refuse(q) ELSE turned

CollectPages(q, page) ==
    LET turned == Turn(q, page)
    IN IF Contradicts(q, page) \/ Repeats(q, page) THEN Refuse(q)
       ELSE IF page.pages = 0 \/ q.ask.single THEN End(q, page)
       ELSE IF q.page = page.pages
            THEN IF \/ q.ask.start = 1 /\ Len(turned.got) # page.total
                    \/ Len(turned.got) > page.total
                 THEN Refuse(q) ELSE End(q, page)
       ELSE IF q.page - q.ask.start + 1 = q.ask.cap THEN Refuse(q) ELSE turned

(* The rows of a library page are checked against its own totals, too.     *)
ValidateSinglePage(q, page) ==
    /\ ~Contradicts([q EXCEPT !.pages = None], page)
    /\ Len(page.rows) <= page.total
    /\ q.page = 1 /\ page.pages = 1 => Len(page.rows) = page.total
    /\ IsInjective(page.rows)

CollectVideos(q, page) ==
    LET turned == Turn(q, page)
    IN IF ~ValidateSinglePage(q, page) \/ ChangedTotals(q, page) \/ Repeats(q, page) THEN Refuse(q)
       ELSE IF q.ask.single THEN End(q, page)
       ELSE IF q.page >= page.pages
            THEN IF q.ask.start = 1 /\ Len(turned.got) # page.total THEN Refuse(q) ELSE End(q, page)
       ELSE IF q.page - q.ask.start + 1 = q.ask.cap THEN Refuse(q) ELSE turned

(* The unified reports compare totals and the number of rows, not keys.    *)
CollectUnified(q, page) ==
    LET turned == Turn(q, page)
    IN IF ChangedTotals(q, page) THEN Refuse(q)
       ELSE IF q.page >= page.pages
            THEN IF Len(turned.got) # page.total THEN Refuse(q) ELSE End(q, page)
       ELSE IF q.page = q.ask.cap THEN Refuse(q) ELSE turned

(* At the cap the creators read so far are returned and marked truncated.  *)
CollectAuthorizedCreators(q, page) ==
    LET turned == Turn(q, page)
    IN IF Contradicts(q, page) \/ Repeats(q, page) THEN Refuse(q)
       ELSE IF page.pages = 0 THEN End(q, page)
       ELSE IF q.page = page.pages
            THEN IF Len(turned.got) # page.total THEN Refuse(q) ELSE End(q, page)
       ELSE IF q.page = q.ask.cap THEN [End(q, page) EXCEPT !.truncated = TRUE] ELSE turned

Unseen(got, rows) == got \o Only(rows, Ids \ ToSet(got))

(* A cursor must be new; rows read before are skipped.                     *)
CollectCreatorVideos(q, page) ==
    LET turned == [q EXCEPT !.page = @ + 1, !.got = Unseen(@, page.rows),
                            !.cursor = page.next, !.cursors = @ \cup {page.next}]
    IN IF ~page.more THEN [turned EXCEPT !.pc = "walked"]
       ELSE IF page.next \in q.cursors \/ q.page = q.ask.cap THEN Refuse(q) ELSE turned

(* Diagnostic reads show what one request returned.                        *)
Diagnose(q, page) == End(q, page)

(* Country after country until one has every city; what the last one       *)
(* tried has is the answer, whatever those before it had.  Its page is all *)
(* the regions of the country.                                             *)
ResolveCountry(q, page) ==
    LET turned == [q EXCEPT !.page = @ + 1, !.got = page.rows]
    IN IF ToSet(page.rows) = q.ask.ids \/ q.page = q.ask.cap THEN [turned EXCEPT !.pc = "walked"] ELSE turned

(* Suggestions that are still made are asked for again; after the last     *)
(* attempt the answer is that they are.                                    *)
AwaitCovers(q, page) ==
    IF page.rows = << >> /\ q.page < q.ask.cap THEN [q EXCEPT !.page = @ + 1] ELSE End(q, page)

Walk(q, page) ==
    IF q.ask.walk = "one" \/ q.reads \in {"plan schema", "project schema", "plan"} THEN Diagnose(q, page)
    ELSE CASE q.ask.walk = "covers" -> AwaitCovers(q, page)
           [] q.ask.walk = "pages" -> CollectPages(q, page)
           [] q.ask.walk = "library" -> CollectVideos(q, page)
           [] q.ask.walk = "unified" -> CollectUnified(q, page)
           [] q.ask.walk = "cities" -> ResolveCountry(q, page)
           [] q.ask.walk = "creators" /\ q.reads = "creators" -> CollectAuthorizedCreators(q, page)
           [] q.ask.walk = "creators" /\ q.reads = "videos" -> CollectCreatorVideos(q, page)

-----------------------------------------------------------------------------
(* Answers                                                                 *)

Answer(q, rows, all) == [q EXCEPT !.pc = "answered", !.answer = [rows |-> rows, all |-> all]]
Read(q, reads, kept) ==
    [q EXCEPT !.pc = "walking", !.reads = reads, !.kept = kept, !.page = q.ask.start,
              !.got = << >>, !.pages = None, !.total = None, !.cursor = None, !.cursors = {None}]
Cut(rows) == IF Top = 0 \/ Len(rows) <= Top THEN rows ELSE SubSeq(rows, 1, Top)

(* Highest spend first; rows of equal spend keep their order.              *)
BySpend(rows) ==
    LET upTo(k) == {j \in DOMAIN rows : \/ fact[rows[j]].spend > fact[rows[k]].spend
                                        \/ fact[rows[j]].spend = fact[rows[k]].spend /\ j <= k}
    IN [n \in DOMAIN rows |-> rows[CHOOSE k \in DOMAIN rows : Cardinality(upTo(k)) = n]]

Joined(q) == Only(q.kept, WithStatus(q.ask.status))

(* Mutant: a plan whose metadata is missing is left out.                   *)
SkipUnresolved(q) ==
    LET known == Only(Joined(q), ToSet(q.got))
    IN Answer(q, Cut(BySpend(known)), known)

(* PlanReport: the metadata is read only when there are metrics; a plan    *)
(* without it is kept for status ALL and fails the report for any other.   *)
JoinPlans(q) ==
    IF q.ask.status # "ALL" /\ ~(ToSet(q.kept) \subseteq ToSet(q.got)) THEN Refuse(q)
    ELSE Answer(q, Cut(BySpend(Joined(q))), Joined(q))

RankPlans(q) == Answer(q, Cut(BySpend(q.got)), q.got)

(* Materials: the units asked for (status "on" for --active-only), then    *)
(* the report rows of their materials, if they have any; both walks start  *)
(* at the page asked for.                                                  *)
ExtractMaterials(q) ==
    LET materials == Only(q.got, WithStatus(q.ask.status))
    IN IF materials = << >> THEN Answer(q, << >>, << >>) ELSE Read(q, "material report", materials)
JoinMaterials(q) == Answer(q, q.kept, Only(q.kept, ToSet(q.got)))

(* Mutant: a truncated list of creators is searched all the same.          *)
ResolveInPrefix(q) == {i \in ToSet(q.got) : fact[i].wanted}

ResolveAuthorizedCreator(q) == IF q.truncated THEN {} ELSE {i \in ToSet(q.got) : fact[i].wanted}

(* QueryCreatorVideos: exactly one creator, then the videos of each        *)
(* product, merged.                                                        *)
ResolveCreator(q) ==
    LET matches == ResolveAuthorizedCreator(q)
    IN IF Cardinality(matches) # 1 THEN Refuse(q)
       ELSE [Read(q, "videos", << >>) EXCEPT !.creator = CHOOSE i \in matches : TRUE,
                                             !.product = Products[1]]
MergeVideos(q) ==
    LET merged == Unseen(q.kept, q.got)
    IN IF q.product = Products[1] THEN [Read(q, "videos", merged) EXCEPT !.product = Products[2]]
       ELSE Answer(q, merged, merged)

(* Creators' videos: those that can be used, "ALL" to include the others.  *)
Candidates(q) ==
    LET usable == Only(q.got, WithStatus(q.ask.status))
    IN Answer(q, usable, usable)

(* Videos of the library: a file name is looked for in the rows that were  *)
(* read, not on the platform; "ALL" asks for none.                         *)
WithFilename(q) ==
    LET named == Only(q.got, WithStatus(q.ask.status))
    IN Answer(q, named, named)

(* Every topic asked for must be there.                                    *)
ValidateSchemaTopics(q) == IF q.ask.ids \subseteq ToSet(q.got) THEN Answer(q, q.got, q.got) ELSE Refuse(q)

(* The detail of the plan asked for and, for the tool that wants them, the *)
(* plan's materials.                                                       *)
ShownPlan(q) ==
    IF Len(q.got) # 1 THEN Refuse(q)
    ELSE IF q.ask.name = "plan with materials" THEN Read(q, "plan materials", << >>)
    ELSE Answer(q, q.got, q.got)

Finish(q) ==
    CASE q.reads = "plan schema" -> Read(q, "plan metrics", << >>)
      [] q.reads = "project schema" -> Read(q, "plan report", << >>)
      [] q.reads \in {"authorizations", "homepage"} -> Candidates(q)
      [] q.reads = "library" -> WithFilename(q)
      [] q.reads \in {"schema", "unified schema"} -> ValidateSchemaTopics(q)
      [] q.reads = "plan" -> ShownPlan(q)
      [] q.reads = "plan metrics"
            -> IF q.got = << >> THEN Answer(q, << >>, << >>) ELSE Read(q, "plan metadata", q.got)
      [] q.reads = "plan metadata" -> JoinPlans(q)
      [] q.reads = "plan report" -> RankPlans(q)
      [] q.reads = "promotions" -> ExtractMaterials(q)
      [] q.reads = "material report" -> JoinMaterials(q)
      [] q.ask.name = "creator videos" /\ q.reads = "creators" -> ResolveCreator(q)
      [] q.reads = "videos" -> MergeVideos(q)
      [] q.reads \in {"plans", "materials", "data", "room", "author"} -> Answer(q, Cut(q.got), q.got)
      [] OTHER -> Answer(q, q.got, q.got)

-----------------------------------------------------------------------------
(* Asking                                                                  *)

Unasked == [pc |-> "idle", ask |-> None, reads |-> None, page |-> 0, got |-> << >>, pages |-> None,
            total |-> None, kept |-> << >>, truncated |-> FALSE, cursor |-> None, cursors |-> {None},
            creator |-> None, product |-> 0, answer |-> None]
Ask(name, reads, walk, ids, status, start, single) ==
    /\ query.pc = "idle"
    /\ \E cap \in IF single THEN {1} ELSE MaxPages :
          query' = Read([Unasked EXCEPT !.ask = [name |-> name, walk |-> walk, ids |-> ids, status |-> status,
                                                 start |-> start, single |-> single, cap |-> cap]],
                        reads, << >>)
    /\ UNCHANGED <<fact, server, steady, changes>>
AskAll(name, walk, ids) == Ask(name, name, walk, ids, "ALL", 1, FALSE)

QueryProducts == \E ids \in Selections : AskAll("products", "pages", ids)
ListPlans == \E status \in Statuses \cup {"ALL"} : Ask("plans", "plans", "pages", Ids, status, 1, FALSE)
ListPlanMaterials == AskAll("plan materials", "pages", Ids)
ShowPlan == \E i \in Ids : Ask("plan", "plan", "pages", {i}, "ALL", 1, TRUE)
ListAuthorizedCreators == \E ids \in Selections : AskAll("creators", "creators", ids)
QueryCreatorVideos == \E ids \in Selections : Ask("creator videos", "creators", "creators", ids, "ALL", 1, FALSE)

MaterialReport == \E ids \in Selections : AskAll("materials", "pages", ids)
PlanReport ==
    \E status \in Statuses \cup {"ALL"} : Ask("qianchuan plans", "plan schema", "pages", Ids, status, 1, FALSE)
QianchuanCustom == \E ids \in Selections : AskAll("data", "unified", ids)
QianchuanRoom == \E ids \in Selections : AskAll("room", "unified", ids)
QianchuanAuthor == \E ids \in Selections : AskAll("author", "unified", ids)
Whole(name, ids) == Ask(name, name, "one", ids, "ALL", 1, TRUE)
QianchuanSchema == \E ids \in Selections : Whole("unified schema", ids)
QianchuanAggregate == \E name \in {"overall", "unified"} : Whole(name, Ids)

Schema == \E ids \in Selections : Whole("schema", ids)
Plans == Ask("project plans", "project schema", "pages", Ids, "ALL", 1, FALSE)
Materials ==
    \E ids \in Selections, status \in {"on", "ALL"}, start \in 1..2, single \in BOOLEAN :
        Ask("unit materials", "promotions", "pages", ids, status, start, single)
Custom == \E ids \in Selections, start \in 1..2 : Ask("data", "data", "one", ids, "ALL", start, TRUE)

QueryVideos ==
    \E ids \in Selections, status \in {"on", "ALL"}, start \in 1..2, single \in BOOLEAN :
        Ask("library", "library", "library", ids, status, start, single)
AdVideos == \E ids \in Selections : Whole("ad videos", ids)
AdImages == \E ids \in Selections : Whole("ad images", ids)
Covers == \E i \in Ids : Ask("covers", "covers", "covers", {i}, "ALL", 1, FALSE)
QueryImages == \E ids \in Selections, start \in 1..2 : Ask("images", "images", "library", ids, "ALL", start, TRUE)
QueryDPAProducts ==
    \E ids \in Selections, start \in 1..2 : Ask("dpa products", "dpa products", "library", ids, "ALL", start, TRUE)
QueryCreatorAuthorizations ==
    \E ids \in Selections, status \in {"on", "ALL"} :
        Ask("authorizations", "authorizations", "pages", ids, status, 1, FALSE)
QueryCreatorHomepage ==
    \E status \in {"on", "ALL"} : Ask("homepage", "homepage", "pages", Ids, status, 1, FALSE)

Diagnostic(name) ==
    \E ids \in Selections, status \in Statuses, start \in 1..2 : Ask(name, name, "one", ids, status, start, TRUE)
QueryProjects == Diagnostic("projects")
QueryPromotions == Diagnostic("project promotions")
QueryDPA == Diagnostic("dpa")
QueryEvents == Diagnostic("events")
QueryDeepBids == Diagnostic("deep bids")
QueryGoals == Diagnostic("goals")
ResolveCities == \E ids \in Selections : AskAll("regions", "cities", ids)

Start ==
    \/ QueryProjects \/ QueryPromotions \/ QueryDPA \/ QueryEvents \/ QueryDeepBids \/ QueryGoals \/ ResolveCities
    \/ QueryProducts \/ ListPlans \/ ListPlanMaterials \/ ShowPlan \/ ListAuthorizedCreators \/ QueryCreatorVideos
    \/ MaterialReport \/ PlanReport \/ QianchuanCustom \/ QianchuanRoom \/ QianchuanAuthor
    \/ QianchuanSchema \/ QianchuanAggregate \/ Schema \/ Plans \/ Materials \/ Custom
    \/ AdVideos \/ AdImages \/ Covers
    \/ QueryVideos \/ QueryImages \/ QueryDPAProducts \/ QueryCreatorAuthorizations \/ QueryCreatorHomepage

-----------------------------------------------------------------------------
(* Reading a page: a read that fails is retried below and in the end fails *)
(* the query.                                                              *)
Settled(q) == IF q.pc = "walked" THEN Finish(q) ELSE q

AtOnce == {"regions", "plan", "plan schema", "project schema", "schema", "unified schema", "ad videos",
           "ad images", "covers", "overall", "unified"}
WholePage(rows) == [pages |-> 1, total |-> Len(rows), rows |-> rows]
NextPage ==
    CASE query.reads = "videos" -> CursorPage(Rows(query), query.cursor)
      [] query.reads \in AtOnce -> WholePage(Rows(query))
      [] OTHER -> Page(Rows(query), query.page)
WrongPages ==
    CASE query.reads = "videos" -> WrongCursor(query, NextPage)
      [] query.reads \in AtOnce -> {}
      [] OTHER -> Wrong(NextPage)

Receive ==
    /\ query.pc = "walking"
    /\ query' = Settled(Walk(query, NextPage))
    /\ UNCHANGED <<fact, server, steady, changes>>
ReceiveWrong ==
    /\ query.pc = "walking" /\ steady
    /\ \E page \in WrongPages : query' = Settled(Walk(query, page))
    /\ steady' = FALSE
    /\ UNCHANGED <<fact, server, changes>>
FetchFails ==
    /\ query.pc = "walking"
    /\ query' = Refuse(query)
    /\ UNCHANGED <<fact, server, steady, changes>>

SchemaMisses ==
    /\ query.pc = "walking" /\ query.reads \in {"plan schema", "project schema"}
    /\ query' = Refuse(query)
    /\ UNCHANGED <<fact, server, steady, changes>>

(* The official lists change while the query runs.                         *)
Change(list) ==
    /\ query.pc = "walking" /\ changes < MaxChanges
    /\ \/ \E k \in 1..(Len(server[list]) - 1) :
             /\ server' = [server EXCEPT ![list][k] = server[list][k + 1], ![list][k + 1] = server[list][k]]
             /\ UNCHANGED steady
       \/ \E k \in DOMAIN server[list] : server' = [server EXCEPT ![list] = RemoveAt(@, k)] /\ steady' = FALSE
       \/ \E i \in Ids \ ToSet(server[list]) : server' = [server EXCEPT ![list] = <<i>> \o @] /\ steady' = FALSE
    /\ changes' = changes + 1
    /\ UNCHANGED <<fact, query>>

(* Any rows in any order.                                                  *)
Orders == UNION {{rows \in [1..n -> Ids] : IsInjective(rows)} : n \in 0..Cardinality(Ids)}
QueriesInit ==
    /\ fact \in Attributes /\ server \in [main : Orders, side : Orders]
    /\ query = Unasked /\ steady = TRUE /\ changes = 0

QueriesNext == Start \/ Receive \/ ReceiveWrong \/ FetchFails \/ SchemaMisses \/ \E list \in {"main", "side"} : Change(list)

-----------------------------------------------------------------------------
(* Properties                                                              *)

Answered == query.pc = "answered" /\ steady /\ query.ask.start = 1 /\ ~query.ask.single

(* A walk that compares keys and totals returns every row of the list once *)
(* or fails, although rows changed their places between its pages.         *)
CompleteOrRefused ==
    Answered /\ ~query.truncated
      /\ (query.ask.walk \in {"pages", "library"} \/ query.reads = "creators")
    => ToSet(query.got) = ToSet(Rows(query)) /\ IsInjective(query.got)

(* A report covers in its summary exactly the plans it was asked for, and  *)
(* shows those with the highest spend; the units' materials are those of   *)
(* the units asked for, with the data of exactly those that have any.      *)
ReportIsTrue ==
    Answered /\ query.reads \in {"plan metrics", "plan metadata", "plan report", "promotions", "material report"}
    => LET shown == ToSet(query.answer.rows)
           all == ToSet(query.answer.all)
           asked == WithStatus(query.ask.status)
       IN IF query.reads \in {"promotions", "material report"}
          THEN /\ shown = ToSet(server.side) \cap query.ask.ids \cap asked
               /\ all = shown \cap ToSet(server.main)
          ELSE /\ all = ToSet(server.main) \cap asked
               /\ shown \subseteq all /\ (Top = 0 => shown = all)
               /\ \A i \in shown, j \in all \ shown : fact[i].spend >= fact[j].spend

(* Videos are listed for a creator who was the only match of the whole     *)
(* list of authorized creators, and none of them twice.                    *)
CreatorIsTheOnlyMatch ==
    query.creator # None /\ steady
    => /\ {i \in ToSet(server.side) : fact[i].wanted} = {query.creator}
       /\ IsInjective(query.kept)
=============================================================================
