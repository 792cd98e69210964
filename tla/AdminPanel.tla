------------------------------ MODULE AdminPanel ------------------------------
(***************************************************************************)
(* The administrator's page (client/src/pages/AdminPanel.tsx) and the      *)
(* routes it calls (server/routes/admin.ts), beside customers who buy and  *)
(* payments that arrive.  Of a watch only the stock is modelled.           *)
(*                                                                         *)
(* A request is sent, takes effect on the server, and is answered; it can  *)
(* be refused, and it or its answer can get lost.  Two routes refuse       *)
(* whatever they are sent, because the migrations make watch_id a UUID     *)
(* without a default: PUT /watches/:id parses the id as an integer, and    *)
(* POST /watches inserts a row without one.                                *)
(***************************************************************************)
EXTENDS Integers, FiniteSets, SequencesExt, RequestQueue

CONSTANTS
    Order,          \* ids of orders
    Watch,          \* the watches, numbered in the order of their names
    Status,         \* the statuses used by an instance
    Text,           \* search texts and brands that can be typed, All for none
    All,
    found,          \* the watches that each of them selects
    Limit,          \* LIMIT, watches on a page
    MaxStock,       \* bound on the stock
    MaxRequests     \* bound on the requests under way when one more is sent

ASSUME AdminAssumption ==
    /\ Watch \subseteq Nat /\ {"pending", "processing"} \subseteq Status
    /\ All \in Text /\ found \in [Text -> SUBSET Watch] /\ found[All] = Watch
    /\ Limit \in Nat \ {0} /\ MaxStock \in Nat /\ MaxRequests \in Nat \ {0}

VARIABLES
    status,     \* orders.status
    stock,      \* watches.stock_quantity
    was,        \* auxiliary: every status and every stock there has been
    panel,      \* the page
    edit,       \* the WatchEditRow of each watch on it
    requests    \* the requests under way, in the order they were sent

vars == <<status, stock, was, panel, edit, requests>>

Tabs == {"dashboard", "orders", "inventory", "new-product"}

\* rows maps the watches of the loaded page to the stock they are shown with,
\* statuses the orders to the status they are shown with; timer: the 350 ms of
\* the search are running.  listed and newest are auxiliary: the page of the list
\* that is shown; whether the list asked for last is out, or shown, or failed or
\* overtaken.
Closed == [open |-> FALSE, tab |-> "dashboard", loading |-> FALSE, text |-> All, page |-> 1,
           timer |-> FALSE, rows |-> << >>, total |-> 0, listed |-> 1, statuses |-> << >>,
           creating |-> FALSE, newest |-> "shown"]

NoRow == [mounted |-> FALSE, editing |-> FALSE, saving |-> FALSE, stock |-> 0]

Init == /\ status = [o \in Order |-> "pending"]
        /\ stock \in [Watch -> 0..MaxStock]
        /\ was = [statuses |-> [o \in Order |-> {"pending"}],
                  stocks |-> [w \in Watch |-> {stock[w]}]]
        /\ panel = Closed
        /\ edit = [w \in Watch |-> NoRow]
        /\ requests = << >>

-----------------------------------------------------------------------------
(* The database.                                                            *)

SetStatus(o, s) == /\ status' = [status EXCEPT ![o] = s]
                   /\ was' = [was EXCEPT !.statuses[o] = @ \cup {s}]
                   /\ UNCHANGED stock

SetStock(w, n) == /\ stock' = [stock EXCEPT ![w] = n]
                  /\ was' = [was EXCEPT !.stocks[w] = @ \cup {n}]
                  /\ UNCHANGED status

\* A customer buys, the stock is counted (PUT /watches/:id/stock), the webhook
\* reports a payment.
Sell(w) == /\ stock[w] > 0
           /\ SetStock(w, stock[w] - 1)
           /\ UNCHANGED <<panel, edit, requests>>

Count(w, n) == SetStock(w, n) /\ UNCHANGED <<panel, edit, requests>>

Paid(o) == SetStatus(o, "processing") /\ UNCHANGED <<panel, edit, requests>>

\* ORDER BY watch_name LIMIT Limit OFFSET (page - 1) * Limit, and COUNT(*).
Selected(text) == found[text]
PageOf(page, text) ==
    {w \in Selected(text) :
        Cardinality({v \in Selected(text) : v < w}) \in (page - 1) * Limit .. page * Limit - 1}
PagesFor(total) == (total + Limit - 1) \div Limit

-----------------------------------------------------------------------------
(* Rendering.  A row of the inventory takes its input from the watch when   *)
(* it is mounted, and keeps it while it stays on the page, whatever the     *)
(* list says later.                                                         *)

\* old: another list was asked for after this one.  of: who awaits the answer,
\* the row or the form that asked, the page (they are unmounted), or nobody.
Request(what, id, value) ==
    [what |-> what, id |-> id, value |-> value, page |-> 1, old |-> FALSE,
     of |-> IF what \in {"save", "create"} THEN "part" ELSE "page", reply |-> [kind |-> "none"]]

\* loadInventory: when the page is opened, and later.
Lists == {"first", "list"}

Shows(p, w) == p.open /\ p.tab = "inventory" /\ w \in DOMAIN p.rows

\* What is under way for the page p.
Awaits(p, r) == IF ~p.open \/ r.of = "nobody" THEN "nobody"
                ELSE IF r.what = "save" /\ ~Shows(p, r.id) THEN "page"
                ELSE IF r.what = "create" /\ p.tab # "new-product" THEN "page"
                ELSE r.of

Render(p, e, sent) ==
    /\ panel' = [p EXCEPT !.creating = @ /\ p.tab = "new-product"]
    /\ edit' = [w \in Watch |->
                  IF ~Shows(p, w) THEN NoRow
                  ELSE IF e[w].mounted THEN e[w]
                  ELSE [NoRow EXCEPT !.mounted = TRUE, !.stock = p.rows[w]]]
    /\ requests' = [i \in DOMAIN sent |-> [sent[i] EXCEPT !.of = Awaits(p, sent[i])]]

CanSend == Len(requests) < MaxRequests

AskList(p, what, page, text, sent) ==
    Render([p EXCEPT !.newest = "out"], edit,
           Append([i \in DOMAIN sent |-> [sent[i] EXCEPT !.old = @ \/ sent[i].what \in Lists]],
                  [Request(what, 0, text) EXCEPT !.page = page]))

-----------------------------------------------------------------------------
(* What the administrator does.                                             *)

\* The page is mounted: the statistics and the orders are asked for, and the
\* search runs its timer without anything typed.
OpenPanel == /\ ~panel.open /\ CanSend
             /\ Render([Closed EXCEPT !.open = TRUE, !.loading = TRUE, !.timer = TRUE], edit,
                       Append(requests, Request("dashboard", 0, 0)))
             /\ UNCHANGED <<status, stock, was>>

\* What was asked for only to be shown is dropped with the page; what changes
\* something still arrives.
LeavePanel == /\ panel.open
              /\ Render(Closed, edit,
                        Keep(requests, {i \in DOMAIN requests :
                                          requests[i].what \notin Lists \cup {"dashboard"}}))
              /\ UNCHANGED <<status, stock, was>>

Ready == panel.open /\ ~panel.loading

ChooseTab(t) == /\ Ready
                /\ Render([panel EXCEPT !.tab = t], edit, requests)
                /\ UNCHANGED <<status, stock, was>>

\* Every key restarts the timer.
TypeSearch(text) == /\ Ready /\ panel.tab = "inventory" /\ text # panel.text
                    /\ Render([panel EXCEPT !.text = text, !.timer = TRUE], edit, requests)
                    /\ UNCHANGED <<status, stock, was>>

\* (Mutant: the page of the list before is kept.)
TimerKeepsPage == /\ panel.timer /\ CanSend
                  /\ AskList([panel EXCEPT !.timer = FALSE], "list", 1, panel.text, requests)
                  /\ UNCHANGED <<status, stock, was>>
TimerFires == /\ panel.timer /\ CanSend
              /\ AskList([panel EXCEPT !.timer = FALSE, !.page = 1], "list", 1, panel.text,
                      requests)
              /\ UNCHANGED <<status, stock, was>>

\* The buttons under the list: at most seven numbers, and the arrows.
PageButtons ==
    LET pages == PagesFor(panel.total)
        low == IF pages <= 7 \/ panel.page <= 4 THEN 1 ELSE panel.page - 3
    IN  IF pages <= 1 THEN {}
        ELSE ({low + i : i \in 0..6} \cap 1..pages)
                \cup {p \in {panel.page - 1} : panel.page > 1}
                \cup {p \in {panel.page + 1} : panel.page < pages}

ChangePage(p) == /\ Ready /\ panel.tab = "inventory" /\ CanSend
                 /\ AskList([panel EXCEPT !.page = p], "list", p, panel.text, requests)
                 /\ UNCHANGED <<status, stock, was>>

ChooseStatus(o, s) ==
    /\ Ready /\ panel.tab = "orders" /\ o \in DOMAIN panel.statuses
    /\ s # panel.statuses[o] /\ CanSend
    /\ Render(panel, edit, Append(requests, Request("status", o, s)))
    /\ UNCHANGED <<status, stock, was>>

\* EDIT and the cross next to SAVE, which keeps what was typed.
ToggleEdit(w) == /\ edit[w].mounted
                 /\ edit' = [edit EXCEPT ![w].editing = ~@]
                 /\ UNCHANGED <<status, stock, was, panel, requests>>

TypeStock(w, n) == /\ edit[w].mounted /\ edit[w].editing /\ n # edit[w].stock
                   /\ edit' = [edit EXCEPT ![w].stock = n]
                   /\ UNCHANGED <<status, stock, was, panel, requests>>

\* SAVE sends all the fields of the row, the stock as it was when the row was
\* mounted if nobody has typed another.
Save(w) == /\ edit[w].mounted /\ edit[w].editing /\ ~edit[w].saving /\ CanSend
           /\ Render(panel, [edit EXCEPT ![w].saving = TRUE],
                     Append(requests, Request("save", w, edit[w].stock)))
           /\ UNCHANGED <<status, stock, was>>

Create == /\ Ready /\ panel.tab = "new-product" /\ ~panel.creating /\ CanSend
          /\ Render([panel EXCEPT !.creating = TRUE], edit,
                    Append(requests, Request("create", 0, 0)))
          /\ UNCHANGED <<status, stock, was>>

-----------------------------------------------------------------------------
(* The routes.  adminAuth answers 403 to whoever is no administrator any    *)
(* more, the schemas 400 and a failing query 500: all of them "refused".    *)

Reply(i, answer) ==
    \E got \in {answer, [kind |-> "lost"]} : requests' = [requests EXCEPT ![i].reply = got]

ServeReads(i) ==
    LET r == requests[i]
    IN  /\ \/ r.what = "dashboard" /\ Reply(i, [kind |-> "ok", statuses |-> status])
           \/ /\ r.what \in Lists
              /\ Reply(i, [kind |-> "ok", total |-> Cardinality(Selected(r.value)),
                           rows |-> [w \in PageOf(r.page, r.value) |-> stock[w]]])
        /\ UNCHANGED <<status, stock, was>>

ServeStatus(i) == /\ requests[i].what = "status"
                  /\ SetStatus(requests[i].id, requests[i].value)
                  /\ Reply(i, [kind |-> "ok"])

Unanswered(i) == requests[i].reply.kind = "none"

Serve(i) == Unanswered(i) /\ (ServeReads(i) \/ ServeStatus(i)) /\ UNCHANGED <<panel, edit>>

RefuseOrLose(i) == /\ Unanswered(i)
                   /\ \E kind \in {"refused", "lost"} :
                         requests' = [requests EXCEPT ![i].reply = [kind |-> kind]]
                   /\ UNCHANGED <<status, stock, was, panel, edit>>

-----------------------------------------------------------------------------
(* What the page does with the answers.                                     *)

Without(i) == RemoveAt(requests, i)

\* The orders are shown and the first list is asked for, or the page says what
\* failed; the two requests of loadDashboard count as one.  (An answer of 403
\* leaves the page.)
DashboardAnswered(r, sent) ==
    /\ r.what = "dashboard"
    /\ IF r.reply.kind = "ok"
       THEN AskList([panel EXCEPT !.statuses = r.reply.statuses], "first", 1, All, sent)
       ELSE Render([panel EXCEPT !.loading = FALSE], edit, sent)

\* (Mutant: loading ends only where everything went well.)
EndsLoadingIfOk(r) == panel.loading /\ ~(r.what = "first" /\ r.reply.kind = "ok")
StillLoading(r) == panel.loading /\ r.what # "first"

\* The list takes the place of the one before, filters and page stay as they are.
ListAnswered(r, sent) ==
    LET ok == r.reply.kind = "ok"
        newest == IF r.old THEN IF ok /\ panel.newest = "shown" THEN "lost" ELSE panel.newest
                  ELSE IF ok THEN "shown" ELSE "lost"
        p == [panel EXCEPT !.newest = newest, !.loading = StillLoading(r)]
    IN  /\ r.what \in Lists
        /\ Render(IF ok THEN [p EXCEPT !.rows = r.reply.rows, !.total = r.reply.total,
                                       !.listed = r.page]
                  ELSE p, edit, sent)

\* (Mutant: the new status is shown without waiting for the answer to be good.)
ShowChosen(r) == IF r.of = "page" THEN [panel.statuses EXCEPT ![r.id] = r.value]
                 ELSE panel.statuses
ShownStatuses(r) == IF r.reply.kind = "ok" /\ r.of = "page"
                    THEN [panel.statuses EXCEPT ![r.id] = r.value]
                    ELSE panel.statuses

StatusAnswered(r, sent) == /\ r.what = "status"
                           /\ Render([panel EXCEPT !.statuses = ShownStatuses(r)], edit, sent)

\* A save that is refused ends the edit as one that is done would; the row then
\* shows its watch as before.  A save whose answer is lost throws out of save():
\* the row stays "saving".
SaveAnswered(r, sent) ==
    LET done == r.of = "part" /\ r.reply.kind # "lost"
        shown == r.of # "nobody" /\ r.reply.kind = "ok" /\ r.id \in DOMAIN panel.rows
    IN  /\ r.what = "save"
        /\ Render(IF shown THEN [panel EXCEPT !.rows[r.id] = r.reply.stock] ELSE panel,
                  IF done THEN [edit EXCEPT ![r.id].saving = FALSE, ![r.id].editing = FALSE]
                  ELSE edit, sent)

\* A creation that is done leads to the inventory, also from a tab chosen
\* meanwhile, with a list that is not filtered.
CreateAnswered(r, sent) ==
    /\ r.what = "create"
    /\ IF r.of # "nobody" /\ r.reply.kind = "ok"
       THEN AskList([panel EXCEPT !.tab = "inventory"], "list", 1, All, sent)
       ELSE Render([panel EXCEPT !.creating = @ /\ r.of # "part"], edit, sent)

Answered(i) ==
    LET r == requests[i]
    IN  /\ ~Unanswered(i)
        /\ \/ DashboardAnswered(r, Without(i)) \/ ListAnswered(r, Without(i))
           \/ StatusAnswered(r, Without(i)) \/ SaveAnswered(r, Without(i))
           \/ CreateAnswered(r, Without(i))
        /\ UNCHANGED <<status, stock, was>>

-----------------------------------------------------------------------------
Visits == OpenPanel \/ LeavePanel \/ TimerFires

Searches == \E text \in Text : TypeSearch(text)

Pages == \E p \in PageButtons : ChangePage(p)

Orders == \E o \in Order : Paid(o) \/ \E s \in Status : ChooseStatus(o, s)

Edits(w) == \/ Sell(w) \/ ToggleEdit(w) \/ Save(w)
            \/ \E n \in 0..MaxStock : Count(w, n) \/ TypeStock(w, n)

Settles == \E i \in DOMAIN requests : Serve(i) \/ RefuseOrLose(i) \/ Answered(i)

Next == \/ Visits \/ \E t \in Tabs : ChooseTab(t)
        \/ Searches \/ Pages \/ Orders \/ Create
        \/ \E w \in Watch : Edits(w)
        \/ Settles

\* A request is answered or fails some day, and then the page is told.
Fairness == /\ WF_vars(requests # << >> /\ (Serve(1) \/ RefuseOrLose(1)))
            /\ WF_vars(requests # << >> /\ Answered(1))

Spec == Init /\ [][Next]_vars /\ Fairness

-----------------------------------------------------------------------------
(* Properties.                                                              *)

\* The shape of the state.
TypeOK ==
    /\ status \in [Order -> Status]
    /\ stock \in [Watch -> 0..MaxStock]
    /\ panel.tab \in Tabs /\ panel.text \in Text
    /\ panel.page \in 1..Cardinality(Watch) /\ panel.listed \in 1..Cardinality(Watch)
    /\ DOMAIN panel.rows \subseteq Watch /\ panel.total \in 0..Cardinality(Watch)
    /\ panel.newest \in {"out", "shown", "lost"}
    /\ DOMAIN panel.statuses \in {{}, Order}
    /\ edit \in [Watch -> [mounted : BOOLEAN, editing : BOOLEAN, saving : BOOLEAN,
                           stock : 0..MaxStock]]

\* When the search has settled and the list asked for last is shown, the rows are
\* those of the page and the text that the page says, whatever answers overtook
\* which: the debounced search starts over at page 1, a page button asks for
\* the text as it is.
ListOfInputs ==
    panel.open /\ ~panel.timer /\ panel.newest = "shown" =>
        /\ DOMAIN panel.rows \subseteq found[panel.text]
        /\ panel.listed = panel.page

\* A stock and a status on the page were in the database at some time: a change
\* that is refused or lost is never shown as done.
ShownWasStored ==
    /\ \A o \in DOMAIN panel.statuses : panel.statuses[o] \in was.statuses[o]
    /\ \A w \in DOMAIN panel.rows : panel.rows[w] \in was.stocks[w]

\* The page comes out of "loading" and the form of a new product can be sent
\* again, whatever fails.  (A row of the inventory need not come out of "saving".)
PanelFrees == []<>~panel.loading /\ []<>~panel.creating
=============================================================================
