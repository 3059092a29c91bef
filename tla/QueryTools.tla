------------------------------ MODULE QueryTools ------------------------------
(***************************************************************************)
(* The MCP tools that ask the queries: each with its own fixed parameters, *)
(* and an answer cut to the tool's limit that has to say so.               *)
(***************************************************************************)
EXTENDS Queries

VARIABLE tool   \* the tool that asked, None for a command

toolVars == <<queryVars, tool>>

MostPages == CHOOSE n \in MaxPages : \A m \in MaxPages : m <= n   \* what a tool may read

ToolsInit == QueriesInit /\ tool = None

Uses(name) == tool' = name /\ query'.ask.cap \in {1, MostPages}

-----------------------------------------------------------------------------
(* Requests                                                                *)

SearchQianchuanProducts == QueryProducts /\ Uses("products")
ListQianchuanPlans == ListPlans /\ Uses("plans")
GetQianchuanPlan ==
    \/ ShowPlan /\ Uses("plan")
    \/ /\ \E i \in Ids : Ask("plan with materials", "plan", "pages", {i}, "ALL", 1, FALSE)
       /\ Uses("plan")
ReportQianchuanAccount == QianchuanAggregate /\ Uses("account")
ReportQianchuanPlans == PlanReport /\ Uses("plan report")

SearchMarketingVideos ==
    /\ \E ids \in Selections, status \in {"on", "ALL"}, start \in 1..2 :
          Ask("library", "library", "library", ids, status, start, TRUE)
    /\ Uses("videos")
SearchMarketingCreatorMaterials ==
    /\ \E name \in {"authorizations", "homepage"}, status \in {"on", "ALL"}, start \in 1..2 :
          Ask(name, name, "pages", Ids, status, start, TRUE)
    /\ Uses("creator materials")
ReportMarketingPlans == Plans /\ Uses("project report")
ReportMarketingMaterials ==
    /\ \E ids \in Selections, status \in {"on", "ALL"} :
          Ask("unit materials", "promotions", "pages", ids, status, 1, FALSE)
    /\ Uses("material report")

UseTool ==
    \/ SearchQianchuanProducts \/ ListQianchuanPlans \/ GetQianchuanPlan
    \/ ReportQianchuanAccount \/ ReportQianchuanPlans
    \/ SearchMarketingVideos \/ SearchMarketingCreatorMaterials
    \/ ReportMarketingPlans \/ ReportMarketingMaterials

(* A row without its IDs, with a text too long or a value that is no       *)
(* number, fails the tool that shows Marketing rows.                       *)
PresentationFails ==
    /\ tool \in {"videos", "creator materials", "project report", "material report"}
    /\ query.pc = "answered" /\ query.answer.rows # << >>
    /\ query' = Refuse(query)
    /\ UNCHANGED <<fact, server, steady, changes, tool>>

ToolsNext ==
    \/ UseTool
    \/ PresentationFails
    \/ QueriesNext /\ UNCHANGED tool

-----------------------------------------------------------------------------
(* Answers                                                                 *)

(* The reports and the list of plans come cut, these two are cut here; one *)
(* page of the library or of a creator's videos is no longer than the      *)
(* limit, which is its size, and shorter by what the query filtered out.   *)
Items == IF tool \in {"products", "material report"} THEN Cut(query.answer.rows) ELSE query.answer.rows

(* Mutant: counted after the cut.                                          *)
CountShown == Len(Items)

(* Of a page, the platform's own total, whatever the filter.               *)
TotalCount ==
    CASE tool = "material report" -> Len(query.answer.rows)
      [] tool \in {"videos", "creator materials"} -> query.total
      [] OTHER -> Len(query.answer.all)

Truncated == Len(Items) < TotalCount

(* Mutant: what the filter leaves out counts as a further page.            *)
HasMoreRows == Truncated
HasMore == query.page - 1 < query.pages

(* truncated or has_more, whichever the tool's answer has.                 *)
SaysMore == IF tool \in {"videos", "creator materials"} THEN HasMore ELSE Truncated

-----------------------------------------------------------------------------
(* Properties                                                              *)

(* What the tool was asked for and the official lists have.                *)
AskedFor ==
    CASE tool = "products" -> ToSet(FetchProducts(query.ask))
      [] tool = "plans" -> ToSet(FetchPlans(query.ask))
      [] tool = "videos" -> ToSet(FetchLibraryVideos(query.ask)) \cap WithStatus(query.ask.status)
      [] tool = "creator materials" -> ToSet(server.main) \cap WithStatus(query.ask.status)
      [] tool \in {"plan report", "project report"} -> ToSet(server.main) \cap WithStatus(query.ask.status)
      [] tool = "material report" -> ToSet(server.side) \cap query.ask.ids \cap WithStatus(query.ask.status)

(* An agent that reads an answer without "truncated" or "has_more" may     *)
(* take it for all there is: of a first page, everything asked for is then *)
(* shown.  And what is cut is announced rightly: something asked for is    *)
(* not shown or, where the query filters the rows of one page itself, some *)
(* rows have not been looked at.                                           *)
ToolsTellWhatIsLeftOut ==
    /\ tool \notin {None, "plan", "account"}
    /\ query.pc = "answered" /\ steady /\ query.ask.start = 1
    => /\ ToSet(Items) \subseteq AskedFor
       /\ ~SaysMore => ToSet(Items) = AskedFor
       /\ SaysMore => IF tool \in {"videos", "creator materials"} THEN ToSet(query.got) # ToSet(Rows(query))
                      ELSE ToSet(Items) # AskedFor

(* Both: an answer of joined walks is what the lists say, by whichever     *)
(* walk each of them was read, and a tool's answer tells what it leaves    *)
(* out.                                                                    *)
AnswersAreTrue == ReportIsTrue /\ CreatorIsTheOnlyMatch /\ ToolsTellWhatIsLeftOut
=============================================================================
