----------------------------- MODULE DeployPages -----------------------------
(***************************************************************************)
(* Browsing the deploys page by page, newest first, while deploys are      *)
(* requested, settle, crash and are deleted.  A page is four reads, none   *)
(* atomic with another: the crashed processes (held in memory), the count, *)
(* the rows (in the database), and the live state each row is shown with.  *)
(* The HTTP API pages by offset alone; the embedding API lets its caller   *)
(* pin a browse to the newest deploy of its first page.                    *)
(***************************************************************************)
EXTENDS Integers, FiniteSets, Sequences

CONSTANTS
    DeployIds,   \* bound: deploys ever requested
    PageSize,    \* Limit
    Processes,   \* backends, each shared by the deploys with its hash
    RowChanges   \* bound: changes during a browse

ASSUME DeployPagesAssumption == DeployIds \in Nat /\ PageSize \in Nat \ {0} /\ RowChanges \in Nat

VARIABLES
    table,     \* the deploys: [id -> status and process]
    newest,    \* the last id given
    dead,      \* crashed processes: Runtime.CrashedKeys
    browse,    \* the browse: filter, pin, where it is, what it showed
    edits,   \* changes so far, and those that touch the browse
    untouched  \* rows it should show: matching when it began, not touched since

pagesVars == <<table, newest, dead, browse, edits, untouched>>

Filters == {"all", "ready", "crashed", "failed", "built"}

\* The HTTP API tells crashed previews from ready ones.  The embedding API asks
\* for the status on record: "built" is ready, whatever the process does.
FiltersOf(pins) == IF pins THEN {"all", "failed", "built"} ELSE Filters \ {"built"}
RowsOf(p) == [status : {"ready", "failed"}, process : {p}]
Closed == [pc |-> "closed", filter |-> "all", pins |-> FALSE, pin |-> 0, seen |-> {},
           total |-> 0, page |-> <<>>, shown |-> <<>>, wrong |-> 0]

PagesInit ==
    /\ newest = 2 /\ table \in [1 .. 2 -> UNION { RowsOf(p) : p \in Processes }]
    /\ dead = {} /\ browse = Closed
    /\ edits = [all |-> 0, touching |-> 0] /\ untouched = {}

-------------------------------------------------------------------------------
(* The listing *)

\* A bug to catch: the pin is not among the predicates.
MatchingUnpinned(filter, pin, crashed) ==
    { d \in DOMAIN table :
        CASE filter = "all"     -> TRUE
          [] filter = "failed"  -> table[d].status = "failed"
          [] filter = "built"   -> table[d].status = "ready"
          [] filter = "ready"   -> table[d].status = "ready" /\ table[d].process \notin crashed
          [] filter = "crashed" -> table[d].status = "ready" /\ table[d].process \in crashed }

\* deployWhere.
Matching(filter, pin, crashed) ==
    { d \in MatchingUnpinned(filter, pin, crashed) : pin = 0 \/ d <= pin }

Opens(filter, pins) ==
    /\ browse.pc = "closed" /\ filter \in FiltersOf(pins)
    /\ browse' = [Closed EXCEPT !.pc = "asks", !.filter = filter, !.pins = pins]
    /\ untouched' = Matching(filter, 0, dead) /\ edits' = [edits EXCEPT !.touching = 0]
    /\ UNCHANGED <<table, newest, dead>>

Asks ==
    /\ browse.pc = "asks" /\ browse' = [browse EXCEPT !.pc = "counts", !.seen = dead]
    /\ UNCHANGED <<table, newest, dead, edits, untouched>>

Counts ==
    /\ browse.pc = "counts"
    /\ browse' = [browse EXCEPT !.pc = "lists",
                    !.total = Cardinality(Matching(browse.filter, browse.pin, browse.seen))]
    /\ UNCHANGED <<table, newest, dead, edits, untouched>>

\* The i-th newest of them.
AtRank(ds, i) == CHOOSE d \in ds : Cardinality({ e \in ds : e >= d }) = i

\* ListDeploys: ORDER BY id DESC LIMIT PageSize OFFSET what was shown.
Lists ==
    /\ browse.pc = "lists"
    /\ LET rows == Matching(browse.filter, browse.pin, browse.seen)
           past == Len(browse.shown)
           left == Cardinality(rows) - past
       IN browse' = [browse EXCEPT !.pc = "shows",
                       !.page = [i \in 1 .. IF left < PageSize THEN left ELSE PageSize |->
                                   AtRank(rows, past + i)]]
    /\ UNCHANGED <<table, newest, dead, edits, untouched>>

\* deployJSON: a ready row is shown with its process's state of now.
ShownWrong(rows) ==
    Cardinality({ i \in DOMAIN rows : rows[i] \in DOMAIN table /\
        (table[rows[i]].process \in dead) # (browse.filter = "crashed") })

ShowsPage ==
    /\ browse.pc = "shows"
    /\ LET all == browse.shown \o browse.page
           newestShown == IF all = <<>> THEN 0 ELSE all[1]
       IN browse' = [browse EXCEPT
            !.pc = IF browse.page = <<>> \/ Len(all) >= browse.total THEN "done" ELSE "asks",
            !.shown = all, !.page = <<>>, !.pin = IF browse.pins THEN newestShown ELSE 0,
            !.wrong = @ + (IF browse.filter \in {"ready", "crashed"} THEN ShownWrong(browse.page) ELSE 0)]
    /\ UNCHANGED <<table, newest, dead, edits, untouched>>

-------------------------------------------------------------------------------
(* What happens to the deploys meanwhile *)

Browsing == browse.pc \notin {"closed", "done"}

\* The rows of ds changed in a way the browse's filter may look at.
Touches(ds, looked) ==
    /\ Browsing /\ edits.all < RowChanges
    /\ LET hit == IF looked THEN { d \in ds : browse.pin = 0 \/ d <= browse.pin } ELSE {}
       IN /\ edits' = [all |-> edits.all + 1, touching |-> edits.touching + Cardinality(hit)]
          /\ untouched' = untouched \ hit
    /\ UNCHANGED browse

\* RequestDeploy of a new commit; it may be on record as ready at once.
Requested(row) ==
    /\ newest < DeployIds /\ newest' = newest + 1 /\ Touches({newest'}, TRUE)
    /\ table' = [d \in DOMAIN table \cup {newest'} |-> IF d = newest' THEN row ELSE table[d]]
    /\ UNCHANGED dead

DeletedRow(d) ==
    /\ Touches({d}, TRUE) /\ table' = [e \in DOMAIN table \ {d} |-> table[e]]
    /\ UNCHANGED <<newest, dead>>

\* A rebuild settles the other way.
Settles(d) ==
    /\ Touches({d}, browse.filter # "all")
    /\ table' = [table EXCEPT ![d].status = IF @ = "ready" THEN "failed" ELSE "ready"]
    /\ UNCHANGED <<newest, dead>>

\* A process crashes, or is started again.
Flips(p) ==
    /\ Touches({ d \in DOMAIN table : table[d].process = p }, browse.filter \in {"ready", "crashed"})
    /\ dead' = (dead \cup {p}) \ (dead \cap {p}) /\ UNCHANGED <<table, newest>>

PagesNext ==
    \/ \E f \in Filters, pins \in BOOLEAN : Opens(f, pins)
    \/ Asks \/ Counts \/ Lists \/ ShowsPage
    \/ \E p \in Processes : Flips(p) \/ \E row \in RowsOf(p) : Requested(row)
    \/ \E d \in DOMAIN table : DeletedRow(d) \/ Settles(d)

PagesSpec == PagesInit /\ [][PagesNext]_pagesVars

-------------------------------------------------------------------------------
PagesTypeOK ==
    /\ newest \in Nat /\ DOMAIN table \subseteq 1 .. newest /\ dead \subseteq Processes
    /\ \A d \in DOMAIN table : table[d] \in UNION { RowsOf(p) : p \in Processes }
    /\ browse.pc \in {"closed", "asks", "counts", "lists", "shows", "done"}
    /\ browse.filter \in Filters /\ untouched \subseteq DOMAIN table

ShownSet == { browse.shown[i] : i \in DOMAIN browse.shown }

\* A change between two pages shifts the window and corrupts nothing
\* (deploys.go:205): the rows shown twice are no more than the changes of rows
\* the browse looks at, and so are the rows that should have been shown and were
\* not, and those shown with a state their filter excludes.  For a pinned browse
\* a deploy requested since its first page is no such change (deploys.go:209,
\* orchestrator.go:608).
WindowOnlyShifts ==
    /\ Len(browse.shown) - Cardinality(ShownSet) <= edits.touching
    /\ browse.pc = "done" => Cardinality(untouched \ ShownSet) <= edits.touching
    /\ browse.wrong <= edits.touching
=============================================================================
