------------------------------- MODULE Catalogue -------------------------------
(***************************************************************************)
(* The routes of server/app.ts that read the watches table.  A watch never *)
(* changes but for its stock; text and sort order are abstracted to the    *)
(* sets and numbers that the filters and ORDER BY clauses compare.         *)
(***************************************************************************)
EXTENDS Integers, FiniteSets

CONSTANTS
    Watch,          \* ids of watches
    brandOf, categoryOf, priceOf,
    found,          \* the watches that each search text matches
    MaxStock,       \* bound on the stock of a watch
    ListLimit,      \* the greatest limit of a page, 200
    SummaryMax      \* watches of a brand in the summary, 6

ASSUME WatchAssumption == Watch \subseteq Nat /\ IsFiniteSet(Watch) /\ priceOf \in [Watch -> Nat]
ASSUME BoundAssumption == MaxStock \in Nat /\ ListLimit \in Nat \ {0} /\ SummaryMax \in Nat

VARIABLE stock

All == "all"        \* a filter that is not set

CatalogueTypeOK == stock \in [Watch -> 0..MaxStock]

CatalogueInit == stock \in [Watch -> 0..MaxStock]

Least(m, n) == IF m <= n THEN m ELSE n

\* An order takes a unit; an administrator puts one back.
Sell(w) == stock[w] > 0 /\ stock' = [stock EXCEPT ![w] = @ - 1]
Restock(w) == stock[w] < MaxStock /\ stock' = [stock EXCEPT ![w] = @ + 1]

\* A row as it is sent: what its card and its page need of it.
Row(w) == [id |-> w, stock |-> stock[w]]
RowSet == [id : Watch, stock : 0..MaxStock]
Rows(ids) == {Row(w) : w \in ids}
Ids(rows) == {row.id : row \in rows}

-----------------------------------------------------------------------------
(* GET /watches.  A minimum or maximum of 0 is none.                        *)

Query == [category |-> All, brand |-> All, text |-> All, min |-> 0, max |-> 0,
          inStock |-> FALSE, sort |-> "id", page |-> 1, limit |-> 24]

\* The WHERE clause but for the stock, which alone changes.
Selects(q, w) == /\ q.category \in {All, categoryOf[w]}
                 /\ q.brand \in {All, brandOf[w]}
                 /\ q.text # All => w \in found[q.text]
                 /\ q.min > 0 => priceOf[w] >= q.min
                 /\ q.max > 0 => priceOf[w] <= q.max

Matches(q) == {w \in Watch : Selects(q, w) /\ (q.inStock => stock[w] > 0)}

\* The ORDER BY clause; watches of one price may come in any order, another one
\* for each query.
Before(sort, v, w) == CASE sort = "preis-asc" -> priceOf[v] < priceOf[w]
                        [] sort = "preis-desc" -> priceOf[v] > priceOf[w]
                        [] OTHER -> v > w

Orders(q) ==
    LET n == Cardinality(Matches(q))
    IN  {s \in [1..n -> Matches(q)] :
            \A i, j \in 1..n : i < j => s[i] # s[j] /\ ~Before(q.sort, s[j], s[i])}

PageSize(q) == Least(q.limit, ListLimit)

\* (Mutant: pages counted from 0.)
OffsetFromZero(q) == q.page * PageSize(q)
Offset(q) == (q.page - 1) * PageSize(q)

\* The possible rows of a page (LIMIT and OFFSET); total is that of its query.
Answers(q) ==
    LET first == Offset(q)
        total == Cardinality(Matches(q))
    IN  {Rows({s[i] : i \in (first + 1)..Least(first + PageSize(q), total)}) : s \in Orders(q)}

Total(q) == Cardinality(Matches(q))

-----------------------------------------------------------------------------
\* GET /watches/brands-summary: the newest watches of each brand.
Summary == Rows({w \in Watch :
                   Cardinality({v \in Watch : brandOf[v] = brandOf[w] /\ v > w}) < SummaryMax})

\* GET /watches/brands?category=...
BrandsIn(category) == {brandOf[w] : w \in {v \in Watch : category \in {All, categoryOf[v]}}}

\* GET /watches/:id
WatchById(w) == Row(w)
=============================================================================
