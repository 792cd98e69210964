------------------------------ MODULE Storefront ------------------------------
(***************************************************************************)
(* The pages that show watches, in one browser tab: Store ("/"),           *)
(* WatchCategoryPage ("/uhren") and ProductDetail ("/watch/:id"), with the *)
(* cart of App.tsx, over Catalogue.                                        *)
(*                                                                         *)
(* An effect of React sends a request whenever one of its dependencies has *)
(* changed.  No request is ever aborted, so the answers to a page come in  *)
(* any order, each over the one before.  What a page that is gone has      *)
(* asked for is ignored when it comes, except that a failure in            *)
(* ProductDetail still navigates.                                          *)
(***************************************************************************)
EXTENDS Catalogue, RequestQueue

CONSTANTS
    Url,            \* the addresses of /uhren: [category, brand], All for none
    suits,          \* the watches in whose text each gender's keywords occur
    Bound,          \* the prices the sliders of an instance can be moved to
    SliderEnd,      \* where the price slider of Store ends, 1000
    Sort,           \* the sort orders an instance chooses
    PerPage,        \* PER_PAGE
    NoWatch,
    MaxFilters,     \* bound on the filters that are set at once
    MaxFetches,     \* bound on the requests under way when the customer asks for more
    MaxCart         \* bound on the units in the cart

PlainUrl == [category |-> All, brand |-> All]

ASSUME PageAssumption == /\ PerPage \in 1..ListLimit /\ PlainUrl \in Url
                         /\ NoWatch \notin RowSet

VARIABLES
    view,       \* the page that is shown, with its state
    fetches,    \* the requests under way, in the order they were sent
    cart        \* the lines of the cart

vars == <<stock, view, fetches, cart>>

\* The fields of a page: list query, url, client-side filters, what it shows,
\* and whether it says "loading".  newest (auxiliary) tells what became of the
\* list request that was sent last: it is out, it is what the page shows, or its
\* answer failed or was overtaken by an older one.
Blank == [route |-> "elsewhere", q |-> Query, url |-> PlainUrl, gender |-> All, price |-> SliderEnd,
          rows |-> {}, summary |-> {}, brands |-> {}, total |-> 0,
          watch |-> NoWatch, id |-> 0, quantity |-> 1,
          loading |-> FALSE, busy |-> FALSE, newest |-> "shown"]

StorePage == [Blank EXCEPT !.route = "store", !.loading = TRUE, !.q.limit = 500]
CategoryPage(url) == [Blank EXCEPT !.route = "category", !.url = url, !.q.brand = url.brand,
                                   !.q.limit = PerPage]
DetailPage(w) == [Blank EXCEPT !.route = "detail", !.id = w, !.loading = TRUE]

Fetch(what, q, id) == [what |-> what, q |-> q, id |-> id, left |-> FALSE]

Init == CatalogueInit /\ view = Blank /\ fetches = << >> /\ cart = << >>

-----------------------------------------------------------------------------
(* What is shown.                                                           *)

\* Store: a brand or a text is a matter of the server, gender and price are not.
Asking(v) == v.q.brand # All \/ v.q.text # All
IsFiltering(v) == Asking(v) \/ v.gender # All \/ v.price < SliderEnd

\* A watch dearer than the end of the slider is in no filtered list of Store.
DisplayWatches(v) ==
    {row \in v.rows : /\ priceOf[row.id] <= v.price
                      /\ v.gender # All => row.id \in suits[v.gender]}

Cards == CASE view.route = "store" /\ IsFiltering(view) ->
                   IF view.busy THEN {} ELSE DisplayWatches(view)
           [] view.route = "store" /\ ~IsFiltering(view) -> view.summary
           [] view.route = "category" -> IF view.busy THEN {} ELSE view.rows
           [] OTHER -> {}

\* WatchCategoryPage: "all brands" means the brand of the address, if it has one.
CategoryQuery(v) ==
    [v.q EXCEPT !.category = v.url.category,
                !.brand = IF v.q.brand = All THEN v.url.brand ELSE v.q.brand]

ListQuery(v) == IF v.route = "store" THEN v.q ELSE CategoryQuery(v)

\* Pagination: the first page, the last one, two on either side, and the arrows.
Pages(total) == (total + PerPage - 1) \div PerPage
PageButtons(page, total) ==
    IF Pages(total) <= 1 THEN {}
    ELSE {p \in 1..Pages(total) : p \in {1, Pages(total)} \/ p \in (page - 2)..(page + 2)}
         \cup (IF page > 1 THEN {page - 1} ELSE {})

-----------------------------------------------------------------------------
(* Requests.                                                                *)

\* The page changes its state to v and its effect asks for the list again.
Ask(v) == /\ view' = [v EXCEPT !.busy = TRUE, !.newest = "out"]
          /\ fetches' = Append(fetches, Fetch("list", ListQuery(v), 0))

\* A page is left: only what ProductDetail has asked for still matters.
Details(sent) == Keep(sent, {i \in DOMAIN sent : sent[i].what = "detail"})

LeftFetches ==
    LET details == Details(fetches)
    IN  [i \in DOMAIN details |-> [details[i] EXCEPT !.left = TRUE]]

Room == Len(fetches) < MaxFetches

\* WatchCategoryPage is mounted, or its address changes.  One effect sets the
\* brand and the page anew, so the list is asked for twice: with the state of
\* before and with the new one.
EnterCategory(url, rest) ==
    LET mounted == view.route = "category"
        old == IF mounted THEN [view EXCEPT !.url = url] ELSE CategoryPage(url)
        new == [old EXCEPT !.q.brand = url.brand, !.q.page = 1, !.busy = TRUE, !.newest = "out"]
        lists == <<Fetch("list", ListQuery(old), 0), Fetch("list", ListQuery(new), 0)>>
        brands == <<Fetch("brands", [Query EXCEPT !.category = url.category], 0)>>
    IN  IF mounted /\ view.url = url
        THEN view' = view /\ fetches' = rest
        ELSE /\ view' = new
             /\ fetches' = rest \o (IF mounted /\ view.url.category = url.category
                                    THEN << >> ELSE brands) \o lists

-----------------------------------------------------------------------------
(* The customer moves.                                                      *)

\* "/?cat=..." has no link, but an address may be typed.
OpenStore(cat) ==
    /\ view.route # "store" /\ Room
    /\ LET asked == [StorePage EXCEPT !.q.brand = cat]
           summary == <<Fetch("summary", Query, 0)>>
       IN  IF cat = All
           THEN view' = StorePage /\ fetches' = LeftFetches \o summary
           ELSE /\ view' = [asked EXCEPT !.busy = TRUE, !.newest = "out"]
                /\ fetches' = LeftFetches \o summary \o <<Fetch("list", ListQuery(asked), 0)>>
    /\ UNCHANGED <<stock, cart>>

\* The bar of categories is above every page.
OpenCategory(url) ==
    /\ Room
    /\ EnterCategory(url, IF view.route = "category" THEN fetches ELSE LeftFetches)
    /\ UNCHANGED <<stock, cart>>

OpenDetail(w) ==
    /\ \E row \in Cards : row.id = w /\ Room
    /\ view' = DetailPage(w)
    /\ fetches' = Append(LeftFetches, Fetch("detail", Query, w))
    /\ UNCHANGED <<stock, cart>>

GoElsewhere == /\ view.route # "elsewhere"
               /\ view' = Blank /\ fetches' = LeftFetches
               /\ UNCHANGED <<stock, cart>>

-----------------------------------------------------------------------------
(* Store.                                                                   *)

\* A brand, a search, or everything reset.  The effect asks again, or forgets
\* the list, when brand or text has changed.
\* (Mutant: the effect does not depend on the text.)
TextForgotten(v) == v.q.brand # view.q.brand
QueryChanged(v) == v.q # view.q

StoreShows(v) ==
    IF ~QueryChanged(v) THEN view' = v /\ UNCHANGED fetches
    ELSE IF Asking(v) THEN Ask(v)
         ELSE view' = [v EXCEPT !.rows = {}, !.newest = "shown"] /\ UNCHANGED fetches

FilterStore ==
    /\ view.route = "store" /\ Room
    /\ \/ \E b \in {All} \cup {brandOf[w] : w \in Ids(view.summary)} :
             b # view.q.brand /\ StoreShows([view EXCEPT !.q.brand = b])
       \/ \E t \in {All} \cup DOMAIN found :
             t # view.q.text /\ StoreShows([view EXCEPT !.q.text = t])
       \/ IsFiltering(view) /\ StoreShows([view EXCEPT !.q.brand = All, !.q.text = All,
                                                       !.gender = All, !.price = SliderEnd])
    /\ UNCHANGED <<stock, cart>>

NarrowStore ==
    /\ view.route = "store"
    /\ \/ \E g \in {All} \cup DOMAIN suits : g # view.gender /\ view' = [view EXCEPT !.gender = g]
       \/ \E p \in {SliderEnd} \cup Bound : p # view.price /\ view' = [view EXCEPT !.price = p]
    /\ UNCHANGED <<stock, fetches, cart>>

-----------------------------------------------------------------------------
(* WatchCategoryPage: every change of a filter or of the order asks again,  *)
(* from page 1.                                                             *)

FilterCategory ==
    /\ view.route = "category" /\ Room
    /\ LET first == [view EXCEPT !.q.page = 1]
       IN  \/ \E b \in {All} \cup view.brands : Ask([first EXCEPT !.q.brand = b])
           \/ \E p \in {0} \cup Bound : p # view.q.max /\ Ask([first EXCEPT !.q.max = p])
           \/ \E p \in {0} \cup Bound :
                 p # view.q.min /\ (view.q.max > 0 => p < view.q.max)
                 /\ Ask([first EXCEPT !.q.min = p])
           \/ Ask([first EXCEPT !.q.inStock = ~@])
           \/ Ask([first EXCEPT !.q.brand = All, !.q.min = 0, !.q.max = 0, !.q.inStock = FALSE])
    /\ UNCHANGED <<stock, cart>>

SortCategory ==
    /\ view.route = "category" /\ Room
    /\ \E s \in Sort \ {view.q.sort} : Ask([view EXCEPT !.q.sort = s, !.q.page = 1])
    /\ UNCHANGED <<stock, cart>>

\* The buttons are those of the total that was answered last.
TurnPage ==
    /\ view.route = "category" /\ Room
    /\ \E p \in PageButtons(view.q.page, view.total) \ {view.q.page} :
          Ask([view EXCEPT !.q.page = p])
    /\ UNCHANGED <<stock, cart>>

-----------------------------------------------------------------------------
(* The cart: addToCart of App, once from a card, "quantity" times from the  *)
(* product page.                                                            *)

Units(lines) == LET f[i \in 0..Len(lines)] == IF i = 0 THEN 0 ELSE f[i - 1] + lines[i].quantity
                IN  f[Len(lines)]

AddLine(lines, w, n) ==
    IF \E i \in DOMAIN lines : lines[i].id = w
    THEN [i \in DOMAIN lines |-> IF lines[i].id = w
                                 THEN [lines[i] EXCEPT !.quantity = @ + n] ELSE lines[i]]
    ELSE Append(lines, [id |-> w, quantity |-> n])

AddCard == /\ \E row \in Cards : row.stock > 0 /\ cart' = AddLine(cart, row.id, 1)
           /\ Units(cart') <= MaxCart
           /\ UNCHANGED <<stock, view, fetches>>

InStock == view.watch # NoWatch /\ view.watch.stock > 0

ChangeQuantity ==
    /\ InStock
    /\ \E n \in {view.quantity - 1, Least(view.quantity + 1, view.watch.stock)} :
          n >= 1 /\ n # view.quantity /\ view' = [view EXCEPT !.quantity = n]
    /\ UNCHANGED <<stock, fetches, cart>>

AddDetail == /\ InStock
             /\ cart' = AddLine(cart, view.watch.id, view.quantity)
             /\ Units(cart') <= MaxCart
             /\ UNCHANGED <<stock, view, fetches>>

\* updateQuantity and removeFromCart.
WithQuantity(lines, i, n) ==
    IF n < 1 THEN SelectSeq(lines, LAMBDA line : line.id # lines[i].id)
    ELSE [lines EXCEPT ![i].quantity = n]

ChangeLine ==
    /\ \E i \in DOMAIN cart, n \in {-1, 1} :
          cart' = WithQuantity(cart, i, cart[i].quantity + n)
    /\ Units(cart') <= MaxCart
    /\ UNCHANGED <<stock, view, fetches>>

-----------------------------------------------------------------------------
(* Answers.                                                                 *)

Others(i) == SubSeq(fetches, 1, i - 1) \o SubSeq(fetches, i + 1, Len(fetches))

\* The request sent last is still out if no later one is among the others.
IsNewest(i) == /\ view.newest = "out"
               /\ \A j \in (i + 1)..Len(fetches) : fetches[j].what # "list"
Outcome(i, best) == IF IsNewest(i) THEN best
                    ELSE IF view.newest = "out" THEN "out" ELSE "lost"

Listed(i, rows, total) ==
    view' = [view EXCEPT !.rows = rows, !.busy = FALSE,
                         !.total = IF view.route = "category" THEN total ELSE 0,
                         !.newest = Outcome(i, "shown")]

Answered(i) ==
    LET f == fetches[i]
    IN  /\ ~f.left
        /\ \/ f.what = "list" /\ \E rows \in Answers(f.q) : Listed(i, rows, Total(f.q))
           \/ f.what = "summary" /\ view' = [view EXCEPT !.summary = Summary, !.loading = FALSE]
           \/ f.what = "brands" /\ view' = [view EXCEPT !.brands = BrandsIn(f.q.category)]
           \/ f.what = "detail" /\ view' = [view EXCEPT !.watch = WatchById(f.id),
                                                       !.loading = FALSE]
        /\ fetches' = Others(i)
        /\ UNCHANGED <<stock, cart>>

\* The database fails: the answer is a JSON object, which the lists take for an
\* empty one.
Refused(i) ==
    LET f == fetches[i]
    IN  /\ \/ /\ f.what = "list"
              /\ view' = [view EXCEPT !.rows = {}, !.total = 0, !.busy = FALSE,
                                      !.newest = Outcome(i, "lost")]
           \/ f.what = "summary" /\ view' = [view EXCEPT !.summary = {}, !.loading = FALSE]
           \/ f.what = "brands" /\ view' = [view EXCEPT !.brands = {}]
        /\ fetches' = Others(i)
        /\ UNCHANGED <<stock, cart>>

\* The request fails: a list stays as it was.
Lost(i) ==
    LET f == fetches[i]
    IN  /\ \/ f.what = "list" /\ view' = [view EXCEPT !.busy = FALSE,
                                                      !.newest = Outcome(i, "lost")]
           \/ f.what = "summary" /\ view' = [view EXCEPT !.loading = FALSE]
           \/ f.what = "brands" /\ UNCHANGED view
        /\ fetches' = Others(i)
        /\ UNCHANGED <<stock, cart>>

\* A product that cannot be fetched: on to /uhren, from wherever the customer is
\* by now.
NotFound(i) ==
    /\ fetches[i].what = "detail"
    /\ EnterCategory(PlainUrl, IF view.route = "category" THEN Others(i)
                               ELSE Details(Others(i)))
    /\ UNCHANGED <<stock, cart>>

Ignored(i) == /\ fetches[i].left
              /\ fetches' = Others(i)
              /\ UNCHANGED <<stock, view, cart>>

Settles == \E i \in DOMAIN fetches : Answered(i) \/ Refused(i) \/ Lost(i) \/ NotFound(i) \/ Ignored(i)

StockMoves == /\ \E w \in Watch : Sell(w) \/ Restock(w)
              /\ UNCHANGED <<view, fetches, cart>>

Moves == \/ \E cat \in {All} \cup {brandOf[w] : w \in Watch} : OpenStore(cat)
         \/ \E url \in Url : OpenCategory(url)
         \/ \E w \in Watch : OpenDetail(w)
         \/ GoElsewhere

Filters(v) == {name \in {"brand", "text", "min", "max", "inStock", "sort"} : v.q[name] # Query[name]}
              \cup {name \in {"gender", "price"} : v[name] # Blank[name]}

Browses == /\ FilterStore \/ NarrowStore \/ FilterCategory \/ SortCategory \/ TurnPage
           /\ Cardinality(Filters(view)') <= MaxFilters

Buys == AddCard \/ ChangeQuantity \/ AddDetail \/ ChangeLine

Next == Moves \/ Browses \/ Buys \/ Settles \/ StockMoves

Spec == Init /\ [][Next]_vars

-----------------------------------------------------------------------------
(* Properties.                                                              *)

\* The shape of the state.
TypeOK ==
    /\ CatalogueTypeOK
    /\ view.rows \subseteq RowSet /\ view.summary \subseteq RowSet
    /\ view.watch \in RowSet \cup {NoWatch}
    /\ view.route \in {"elsewhere", "store", "category", "detail"}
    /\ \A i \in DOMAIN fetches : fetches[i].what \in {"list", "summary", "brands", "detail"}
    /\ \A i \in DOMAIN cart : cart[i].id \in Watch /\ cart[i].quantity \in 1..MaxCart

\* When the answer that was asked for last is the one that is shown, the page
\* shows the watches of the filters on its screen: every change of a filter, of
\* the order, of the page or of the address has been asked for.
ShownIsAsked ==
    view.newest = "shown" =>
        CASE view.route = "store" /\ ~Asking(view) -> view.rows = {}
          [] view.route = "store" /\ Asking(view) ->
                Ids(view.rows) = {w \in Watch : Selects(view.q, w)}
          [] view.route = "category" ->
                \A row \in view.rows : /\ Selects(ListQuery(view), row.id)
                                       /\ view.q.inStock => row.stock > 0
          [] OTHER -> TRUE

\* The pages that the buttons lead to are together the whole list, and no watch
\* is on two of them, if the order of the list is that of the ids.
PagesPartition ==
    \A inStock \in BOOLEAN :
        LET q(p) == [Query EXCEPT !.inStock = inStock, !.page = p, !.limit = PerPage]
            all == Matches(q(1))
            page(p) == Ids(UNION Answers(q(p)))
            pages == 1..Pages(Cardinality(all))
        IN  /\ UNION {page(p) : p \in pages} = all
            /\ \A p, r \in pages : p # r => page(p) \cap page(r) = {}
            /\ \A p \in pages : \A r \in PageButtons(p, Cardinality(all)) : r \in pages
=============================================================================
