--------------------------- MODULE AdminPanel_proofs ---------------------------
(***************************************************************************)
(* Theorems about AdminPanel, for any orders, watches, search texts and    *)
(* page size, and any number of requests under way.                        *)
(***************************************************************************)
EXTENDS AdminPanel, SetInduction

-----------------------------------------------------------------------------
(* Types.                                                                   *)

\* What maps some of the watches to a stock, and some of the orders to a status.
RowMaps == UNION {[D -> 0..MaxStock] : D \in SUBSET Watch}
StatusMaps == UNION {[D -> Status] : D \in SUBSET Order}

Whats == {"dashboard", "first", "list", "status", "save", "create"}

Totals == {0} \cup {Cardinality(found[text]) : text \in Text}

Replies == [kind : {"none", "refused", "lost", "ok"}]
           \cup [kind : {"ok"}, statuses : StatusMaps]
           \cup [kind : {"ok"}, total : Totals, rows : RowMaps]

Requests == [what : Whats, id : Order \cup Watch \cup {0},
             value : Status \cup Text \cup 0..MaxStock, page : Int, old : BOOLEAN,
             of : {"part", "page", "nobody"}, reply : Replies]

Panels == [open : BOOLEAN, tab : Tabs, loading : BOOLEAN, text : Text, page : Int,
           timer : BOOLEAN, rows : RowMaps, total : Totals, listed : Int,
           statuses : StatusMaps, creating : BOOLEAN, newest : {"out", "shown", "lost"}]

RowStates == [mounted : BOOLEAN, editing : BOOLEAN, saving : BOOLEAN, stock : 0..MaxStock]

Typed == /\ status \in [Order -> Status]
         /\ stock \in [Watch -> 0..MaxStock]
         /\ was \in [statuses : [Order -> SUBSET Status],
                     stocks : [Watch -> SUBSET (0..MaxStock)]]
         /\ panel \in Panels
         /\ edit \in [Watch -> RowStates]
         /\ requests \in Seq(Requests)

\* Membership in the sets of maps, and the map of nothing.
LEMMA Maps ==
    /\ \A f \in RowMaps : /\ DOMAIN f \subseteq Watch
                          /\ f \in [DOMAIN f -> 0..MaxStock]
    /\ \A D \in SUBSET Watch : \A f \in [D -> 0..MaxStock] : f \in RowMaps
    /\ \A f \in StatusMaps : /\ DOMAIN f \subseteq Order
                             /\ f \in [DOMAIN f -> Status]
    /\ \A D \in SUBSET Order : \A f \in [D -> Status] : f \in StatusMaps
    /\ << >> \in RowMaps /\ << >> \in StatusMaps /\ DOMAIN << >> = {}
<1>1. \A S : << >> \in [{} -> S]
  OBVIOUS
<1> QED BY <1>1 DEF RowMaps, StatusMaps

LEMMA ClosedTyped == Closed \in Panels
  BY Maps, AdminAssumption DEF Closed, Panels, Tabs, Totals

\* Rendering changes nothing of a request but who awaits it.
LEMMA RenderEffect ==
    ASSUME NEW p \in Panels, NEW e \in [Watch -> RowStates], NEW sent \in Seq(Requests),
           Render(p, e, sent)
    PROVE  /\ panel' \in Panels /\ edit' \in [Watch -> RowStates] /\ requests' \in Seq(Requests)
           /\ \E c \in BOOLEAN : panel' = [p EXCEPT !.creating = c]
           /\ DOMAIN requests' = 1..Len(sent) /\ Len(requests') = Len(sent)
           /\ \A i \in 1..Len(sent) :
                 \E of \in {"part", "page", "nobody"} : requests'[i] = [sent[i] EXCEPT !.of = of]
<1>1. /\ Len(sent) \in Nat /\ DOMAIN sent = 1..Len(sent)
      /\ \A i \in 1..Len(sent) : sent[i] \in Requests
  BY LenProperties, ElementOfSeq
<1>2. PICK c \in BOOLEAN : panel' = [p EXCEPT !.creating = c]
  <2>1. (p.creating /\ p.tab = "new-product") \in BOOLEAN
    OBVIOUS
  <2>2. panel' = [p EXCEPT !.creating = p.creating /\ p.tab = "new-product"]
    BY DEF Render
  <2> QED BY <2>1, <2>2
<1>3. panel' \in Panels
  BY <1>2 DEF Panels
<1>4. edit' \in [Watch -> RowStates]
  <2>1. edit' = [w \in Watch |->
                  IF ~Shows(p, w) THEN NoRow
                  ELSE IF e[w].mounted THEN e[w]
                  ELSE [NoRow EXCEPT !.mounted = TRUE, !.stock = p.rows[w]]]
    BY DEF Render
  <2>2. NoRow \in RowStates
    BY AdminAssumption DEF NoRow, RowStates
  <2>3. ASSUME NEW w \in Watch, Shows(p, w)
        PROVE  [NoRow EXCEPT !.mounted = TRUE, !.stock = p.rows[w]] \in RowStates
    <3>1. p.rows \in RowMaps /\ w \in DOMAIN p.rows
      BY <2>3 DEF Shows, Panels
    <3>2. p.rows[w] \in 0..MaxStock
      BY <3>1, Maps
    <3> QED BY <3>2 DEF NoRow, RowStates
  <2> QED BY <2>1, <2>2, <2>3
<1>5. \A i \in 1..Len(sent) : Awaits(p, sent[i]) \in {"part", "page", "nobody"}
  BY <1>1 DEF Awaits, Requests
<1>6. requests' = [i \in 1..Len(sent) |-> [sent[i] EXCEPT !.of = Awaits(p, sent[i])]]
  BY <1>1 DEF Render
<1>7. requests' \in [1..Len(sent) -> Requests]
  <2>1. ASSUME NEW i \in 1..Len(sent)
        PROVE  [sent[i] EXCEPT !.of = Awaits(p, sent[i])] \in Requests
    BY <1>1, <1>5 DEF Requests
  <2> QED BY <1>6, <2>1
<1>8. requests' \in Seq(Requests) /\ Len(requests') = Len(sent)
  BY <1>1, <1>7, IsASeq, LenProperties
<1> QED BY <1>2, <1>3, <1>4, <1>5, <1>6, <1>8

-----------------------------------------------------------------------------
(* The invariant.                                                           *)

\* What loading waits for.
Loader(r) == r.what \in {"dashboard", "first"}

\* The request r suits the page p: the page waits for its loader, lists are asked
\* for by an open page, and the list asked for last is that of the inputs unless
\* the timer of the search will ask again.
FitsPage(r, p) ==
    /\ Loader(r) => p.open /\ p.loading
    /\ r.what \in Lists => p.open /\ r.value \in Text
    /\ r.what \in Lists /\ ~r.old /\ ~p.timer => r.value = p.text /\ r.page = p.page

\* The answer of r says what was in the database at some time, past being the
\* history of it, and nothing is said to be saved or created.
Truthful(r, past) ==
    /\ r.what = "status" => r.id \in Order /\ r.value \in Status
    /\ r.reply.kind = "ok" =>
          /\ r.what \in {"dashboard", "first", "list", "status"}
          /\ r.what = "dashboard" =>
                /\ r.reply.statuses \in StatusMaps
                /\ \A o \in DOMAIN r.reply.statuses : r.reply.statuses[o] \in past.statuses[o]
          /\ r.what \in Lists =>
                /\ r.reply.total \in Totals /\ r.reply.rows \in RowMaps
                /\ DOMAIN r.reply.rows \subseteq found[r.value]
                /\ \A w \in DOMAIN r.reply.rows : r.reply.rows[w] \in past.stocks[w]
          /\ r.what = "status" => r.value \in past.statuses[r.id]

Fine(sent, p, past) ==
    \A i \in 1..Len(sent) : FitsPage(sent[i], p) /\ Truthful(sent[i], past)

NoLoader(sent) == \A i \in 1..Len(sent) : ~Loader(sent[i])

OneLoader(sent) ==
    \A i, j \in 1..Len(sent) : Loader(sent[i]) /\ Loader(sent[j]) => i = j

\* Nothing is typed and no page is turned while the page is loading, and the
\* timer runs on an open page only.
Untouched(p) == /\ p.loading => p.open /\ p.text = All /\ p.page = 1
                /\ p.timer => p.open

Listed(p) == p.open /\ ~p.timer /\ p.newest = "shown" =>
                DOMAIN p.rows \subseteq found[p.text] /\ p.listed = p.page

Stored(p, past) == /\ \A o \in DOMAIN p.statuses : p.statuses[o] \in past.statuses[o]
                   /\ \A w \in DOMAIN p.rows : p.rows[w] \in past.stocks[w]

PanelFine(p, past) == Untouched(p) /\ Listed(p) /\ Stored(p, past)

History == /\ \A o \in Order : status[o] \in was.statuses[o]
           /\ \A w \in Watch : stock[w] \in was.stocks[w]

IInv == /\ Typed /\ History
        /\ Fine(requests, panel, was) /\ OneLoader(requests)
        /\ PanelFine(panel, was)

-----------------------------------------------------------------------------
(* The requests under way.                                                  *)

\* An answered request is taken away.
LEMMA WithoutFine ==
    ASSUME requests \in Seq(Requests), NEW i \in 1..Len(requests),
           Fine(requests, panel, was), OneLoader(requests)
    PROVE  /\ Without(i) \in Seq(Requests)
           /\ Fine(Without(i), panel, was) /\ OneLoader(Without(i))
           /\ Loader(requests[i]) => NoLoader(Without(i))
<1> DEFINE t == Without(i)
           at(j) == IF j < i THEN j ELSE j + 1
<1>1. /\ t \in Seq(Requests)
      /\ \A j \in 1..Len(t) : t[j] = requests[at(j)] /\ at(j) \in 1..Len(requests)
  BY Removed DEF Without, RemoveAt
<1>2. Len(t) \in Nat
  BY <1>1, LenProperties
<1> HIDE DEF t
<1>3. \A j, k \in 1..Len(t) : at(j) = at(k) => j = k
  BY <1>2
<1>4. \A j \in 1..Len(t) : at(j) # i
  BY <1>2
<1> HIDE DEF at
<1>5. Fine(t, panel, was)
  BY <1>1 DEF Fine
<1>6. OneLoader(t)
  BY <1>1, <1>3 DEF OneLoader
<1>7. Loader(requests[i]) => NoLoader(t)
  BY <1>1, <1>4 DEF NoLoader, OneLoader
<1> QED BY <1>1, <1>5, <1>6, <1>7 DEF t

\* A request is sent.
LEMMA AppendFine ==
    ASSUME NEW s \in Seq(Requests), NEW new \in Requests, NEW p, NEW past,
           Fine(s, p, past), OneLoader(s), FitsPage(new, p), Truthful(new, past),
           Loader(new) => NoLoader(s)
    PROVE  /\ Append(s, new) \in Seq(Requests)
           /\ Fine(Append(s, new), p, past) /\ OneLoader(Append(s, new))
<1> DEFINE t == Append(s, new)
<1>1. /\ t \in Seq(Requests) /\ Len(t) = Len(s) + 1 /\ Len(s) \in Nat
      /\ t[Len(s) + 1] = new
      /\ \A j \in 1..Len(s) : t[j] = s[j]
  BY AppendProperties, LenProperties
<1> HIDE DEF t
<1>2. \A j \in 1..Len(t) : j \in 1..Len(s) \/ j = Len(s) + 1
  BY <1>1
<1>3. Fine(t, p, past)
  BY <1>1, <1>2 DEF Fine
<1>4. OneLoader(t)
  BY <1>1, <1>2 DEF OneLoader, NoLoader
<1> QED BY <1>1, <1>3, <1>4 DEF t

\* The page changes its state and the inputs stay, or will be asked for.
LEMMA PageFine ==
    ASSUME NEW s, NEW p, NEW q, NEW past, Fine(s, p, past),
           q.open = p.open, p.loading => q.loading,
           q.timer \/ (q.timer = p.timer /\ q.text = p.text /\ q.page = p.page)
    PROVE  Fine(s, q, past)
  BY DEF Fine, FitsPage

\* The page is rendered with a state that is fine.
LEMMA RenderStep ==
    ASSUME IInv, NEW p \in Panels, NEW e \in [Watch -> RowStates], NEW sent \in Seq(Requests),
           Render(p, e, sent), UNCHANGED <<status, stock, was>>,
           Fine(sent, p, was), OneLoader(sent), PanelFine(p, was)
    PROVE  IInv'
<1>1. /\ panel' \in Panels /\ edit' \in [Watch -> RowStates] /\ requests' \in Seq(Requests)
      /\ Len(requests') = Len(sent)
  BY RenderEffect
<1>2. PICK c \in BOOLEAN : panel' = [p EXCEPT !.creating = c]
  BY RenderEffect
<1>3. /\ panel'.open = p.open /\ panel'.loading = p.loading /\ panel'.text = p.text
      /\ panel'.page = p.page /\ panel'.timer = p.timer /\ panel'.rows = p.rows
      /\ panel'.listed = p.listed /\ panel'.statuses = p.statuses
      /\ panel'.newest = p.newest
  BY <1>2 DEF Panels
<1>4. ASSUME NEW i \in 1..Len(sent)
      PROVE  /\ requests'[i].what = sent[i].what /\ requests'[i].id = sent[i].id
             /\ requests'[i].value = sent[i].value /\ requests'[i].page = sent[i].page
             /\ requests'[i].old = sent[i].old /\ requests'[i].reply = sent[i].reply
  <2>1. PICK of \in {"part", "page", "nobody"} : requests'[i] = [sent[i] EXCEPT !.of = of]
    BY RenderEffect
  <2>2. sent[i] \in Requests
    BY ElementOfSeq
  <2> QED BY <2>1, <2>2 DEF Requests
<1>5. Fine(requests', panel', was)
  <2> SUFFICES ASSUME NEW i \in 1..Len(sent)
               PROVE  FitsPage(requests'[i], panel') /\ Truthful(requests'[i], was)
    BY <1>1 DEF Fine
  <2>1. FitsPage(sent[i], p) /\ Truthful(sent[i], was)
    BY DEF Fine
  <2>2. FitsPage(requests'[i], panel')
    BY <1>3, <1>4, <2>1 DEF FitsPage, Loader
  <2>3. Truthful(requests'[i], was)
    BY <1>4, <2>1 DEF Truthful
  <2> QED BY <2>2, <2>3
<1>6. OneLoader(requests')
  BY <1>1, <1>4 DEF OneLoader, Loader
<1>7. PanelFine(panel', was)
  BY <1>3 DEF PanelFine, Untouched, Listed, Stored
<1>8. Typed'
  BY <1>1 DEF IInv, Typed
<1>9. History'
  BY DEF IInv, History
<1> QED BY <1>5, <1>6, <1>7, <1>8, <1>9 DEF IInv, Fine, OneLoader, PanelFine

\* A request for the list is sent: the ones before are overtaken.
LEMMA AskStep ==
    ASSUME IInv, NEW p \in Panels, NEW what \in Lists, NEW page \in Int, NEW text \in Text,
           NEW sent \in Seq(Requests), AskList(p, what, page, text, sent),
           UNCHANGED <<status, stock, was>>,
           Fine(sent, panel, was), OneLoader(sent),
           p.open, panel.open, panel.loading => p.loading,
           what = "first" => p.loading /\ NoLoader(sent),
           ~p.timer => text = p.text /\ page = p.page,
           Untouched(p), Stored(p, was)
    PROVE  IInv'
<1> DEFINE q == [p EXCEPT !.newest = "out"]
           new == [Request(what, 0, text) EXCEPT !.page = page]
           marked == [i \in DOMAIN sent |-> [sent[i] EXCEPT !.old = @ \/ sent[i].what \in Lists]]
<1>1. /\ Len(sent) \in Nat /\ DOMAIN sent = 1..Len(sent)
      /\ \A i \in 1..Len(sent) : sent[i] \in Requests
  BY LenProperties, ElementOfSeq
<1>2. q \in Panels /\ edit \in [Watch -> RowStates]
  BY DEF Panels, IInv, Typed
<1>3. /\ q.open = p.open /\ q.loading = p.loading /\ q.timer = p.timer /\ q.text = p.text
      /\ q.page = p.page /\ q.newest = "out" /\ q.statuses = p.statuses /\ q.rows = p.rows
  BY DEF Panels
<1>4. new \in Requests
  BY DEF Requests, Request, Lists, Whats, Replies
<1>5. /\ new.what = what /\ new.value = text /\ new.page = page /\ new.reply.kind = "none"
  BY DEF Request
<1>6. ASSUME NEW i \in 1..Len(sent)
      PROVE  /\ marked[i] \in Requests
             /\ marked[i].what = sent[i].what /\ marked[i].id = sent[i].id
             /\ marked[i].value = sent[i].value /\ marked[i].page = sent[i].page
             /\ marked[i].reply = sent[i].reply
             /\ sent[i].what \in Lists => marked[i].old
  <2>1. sent[i] \in Requests
    BY <1>1
  <2> DEFINE old == sent[i].old \/ sent[i].what \in Lists
  <2>2. marked[i] = [sent[i] EXCEPT !.old = old]
    BY <1>1
  <2>3. sent[i].what \in Lists => old
    OBVIOUS
  <2>4. old \in BOOLEAN
    BY <2>1 DEF Requests
  <2> HIDE DEF old, marked
  <2>5. /\ marked[i] \in Requests
        /\ marked[i].what = sent[i].what /\ marked[i].id = sent[i].id
        /\ marked[i].value = sent[i].value /\ marked[i].page = sent[i].page
        /\ marked[i].reply = sent[i].reply
        /\ marked[i].old = old
    BY <2>1, <2>2, <2>4 DEF Requests
  <2> QED BY <2>3, <2>5
<1>7. marked \in Seq(Requests) /\ Len(marked) = Len(sent)
  <2>1. marked \in [1..Len(sent) -> Requests]
    BY <1>1, <1>6
  <2> QED BY <1>1, <2>1, LenProperties, SeqDef
<1>8. Fine(marked, q, was)
  <2> SUFFICES ASSUME NEW i \in 1..Len(sent)
               PROVE  FitsPage(marked[i], q) /\ Truthful(marked[i], was)
    BY <1>7 DEF Fine
  <2>1. FitsPage(sent[i], panel) /\ Truthful(sent[i], was)
    BY DEF Fine
  <2> HIDE DEF marked, q
  <2>2. FitsPage(marked[i], q)
    BY <1>3, <1>6, <2>1 DEF FitsPage, Loader
  <2>3. Truthful(marked[i], was)
    BY <1>6, <2>1 DEF Truthful
  <2> QED BY <2>2, <2>3
<1>9. OneLoader(marked) /\ (NoLoader(sent) => NoLoader(marked))
  <2> HIDE DEF marked
  <2> QED BY <1>6, <1>7 DEF OneLoader, NoLoader, Loader
<1>10. FitsPage(new, q) /\ Truthful(new, was) /\ (Loader(new) => NoLoader(sent))
  <2> HIDE DEF new, q
  <2> QED BY <1>3, <1>5 DEF FitsPage, Truthful, Loader, Lists
<1>11. PanelFine(q, was)
  <2> HIDE DEF q
  <2> QED BY <1>3 DEF PanelFine, Untouched, Listed, Stored
<1>12. Render(q, edit, Append(marked, new))
  BY DEF AskList
<1> HIDE DEF q, new, marked
<1>13. /\ Append(marked, new) \in Seq(Requests)
       /\ Fine(Append(marked, new), q, was) /\ OneLoader(Append(marked, new))
  BY <1>4, <1>7, <1>8, <1>9, <1>10, AppendFine
<1> QED BY <1>2, <1>11, <1>12, <1>13, RenderStep

-----------------------------------------------------------------------------
(* The steps of the administrator.                                          *)

LEMMA Opens == ASSUME IInv, OpenPanel PROVE IInv'
<1> DEFINE p == [Closed EXCEPT !.open = TRUE, !.loading = TRUE, !.timer = TRUE]
           new == Request("dashboard", 0, 0)
<1>1. /\ ~panel.open /\ Render(p, edit, Append(requests, new))
      /\ UNCHANGED <<status, stock, was>>
  BY DEF OpenPanel
<1>2. Closed \in Panels /\ requests \in Seq(Requests) /\ edit \in [Watch -> RowStates]
  BY ClosedTyped DEF IInv, Typed
<1>3. p \in Panels
  BY <1>2 DEF Panels
<1>4. /\ p.open /\ p.loading /\ p.timer /\ p.text = All /\ p.page = 1
      /\ p.statuses = << >> /\ p.rows = << >>
  BY DEF Closed
<1>5. new \in Requests /\ new.what = "dashboard" /\ new.reply.kind = "none"
  BY AdminAssumption DEF Requests, Request, Whats, Replies
<1> HIDE DEF p, new
<1>6. NoLoader(requests) /\ Fine(requests, p, was)
  BY <1>1 DEF IInv, Fine, FitsPage, NoLoader
<1>7. FitsPage(new, p) /\ Truthful(new, was)
  BY <1>4, <1>5 DEF FitsPage, Truthful, Loader, Lists
<1>8. PanelFine(p, was)
  BY <1>4, Maps DEF PanelFine, Untouched, Listed, Stored
<1>9. /\ Append(requests, new) \in Seq(Requests)
      /\ Fine(Append(requests, new), p, was) /\ OneLoader(Append(requests, new))
  BY <1>2, <1>5, <1>6, <1>7, AppendFine DEF IInv
<1> QED BY <1>1, <1>2, <1>3, <1>8, <1>9, RenderStep

LEMMA Leaves == ASSUME IInv, LeavePanel PROVE IInv'
<1> DEFINE K == {i \in DOMAIN requests : requests[i].what \notin Lists \cup {"dashboard"}}
           sent == Keep(requests, K)
           T == {requests[i] : i \in K \cap (1..Len(requests))}
<1>1. Render(Closed, edit, sent) /\ UNCHANGED <<status, stock, was>>
  BY DEF LeavePanel
<1>2. requests \in Seq(Requests) /\ edit \in [Watch -> RowStates]
  BY DEF IInv, Typed
<1>3. sent \in Seq(T)
  BY <1>2, KeepElements
<1>4. ASSUME NEW r \in T
      PROVE  r \in Requests /\ FitsPage(r, Closed) /\ Truthful(r, was) /\ ~Loader(r)
  <2>1. PICK i \in K \cap (1..Len(requests)) : r = requests[i]
    OBVIOUS
  <2>2. r \in Requests /\ Truthful(r, was)
    BY <1>2, <2>1, ElementOfSeq DEF IInv, Fine
  <2>3. r.what \notin Lists \cup {"dashboard"}
    BY <2>1
  <2> QED BY <2>2, <2>3 DEF Loader, FitsPage, Lists
<1> HIDE DEF T, sent
<1>5. sent \in Seq(Requests)
  <2>1. T \subseteq Requests
    BY <1>4
  <2> QED BY <1>3, <2>1, SeqMonotonic
<1>6. \A i \in 1..Len(sent) : sent[i] \in T
  BY <1>3, ElementOfSeq
<1>7. Fine(sent, Closed, was) /\ OneLoader(sent)
  BY <1>4, <1>6 DEF Fine, OneLoader
<1>8. PanelFine(Closed, was)
  BY Maps DEF PanelFine, Untouched, Listed, Stored, Closed
<1> QED BY <1>1, <1>2, <1>5, <1>7, <1>8, ClosedTyped, RenderStep

\* A request that neither loads the page nor asks for a list is sent.
LEMMA SendStep ==
    ASSUME IInv, NEW p \in Panels, NEW e \in [Watch -> RowStates], NEW new \in Requests,
           Render(p, e, Append(requests, new)), UNCHANGED <<status, stock, was>>,
           new.what \in {"status", "save", "create"}, Truthful(new, was),
           Fine(requests, p, was), PanelFine(p, was)
    PROVE  IInv'
<1>1. requests \in Seq(Requests) /\ OneLoader(requests)
  BY DEF IInv, Typed
<1>2. FitsPage(new, p) /\ ~Loader(new)
  BY DEF FitsPage, Loader, Lists
<1>3. /\ Append(requests, new) \in Seq(Requests)
      /\ Fine(Append(requests, new), p, was) /\ OneLoader(Append(requests, new))
  BY <1>1, <1>2, AppendFine
<1> QED BY <1>3, RenderStep

LEMMA Chooses ==
    ASSUME IInv, NEW t \in Tabs, ChooseTab(t)
    PROVE  IInv'
<1> DEFINE p == [panel EXCEPT !.tab = t]
<1>1. Render(p, edit, requests) /\ UNCHANGED <<status, stock, was>>
  BY DEF ChooseTab
<1>2. /\ panel \in Panels /\ requests \in Seq(Requests) /\ edit \in [Watch -> RowStates]
      /\ Fine(requests, panel, was) /\ OneLoader(requests) /\ PanelFine(panel, was)
  BY DEF IInv, Typed
<1>3. /\ p \in Panels
      /\ p.open = panel.open /\ p.loading = panel.loading /\ p.text = panel.text
      /\ p.page = panel.page /\ p.timer = panel.timer /\ p.rows = panel.rows
      /\ p.listed = panel.listed /\ p.statuses = panel.statuses /\ p.newest = panel.newest
  BY <1>2 DEF Panels
<1> HIDE DEF p
<1>4. Fine(requests, p, was) /\ PanelFine(p, was)
  BY <1>2, <1>3, PageFine DEF PanelFine, Untouched, Listed, Stored
<1> QED BY <1>1, <1>2, <1>3, <1>4, RenderStep

LEMMA Types ==
    ASSUME IInv, NEW text \in Text, TypeSearch(text)
    PROVE  IInv'
<1> DEFINE p == [panel EXCEPT !.text = text, !.timer = TRUE]
<1>1. /\ Render(p, edit, requests) /\ UNCHANGED <<status, stock, was>>
      /\ panel.open /\ ~panel.loading
  BY DEF TypeSearch, Ready
<1>2. /\ panel \in Panels /\ requests \in Seq(Requests) /\ edit \in [Watch -> RowStates]
      /\ Fine(requests, panel, was) /\ OneLoader(requests) /\ PanelFine(panel, was)
  BY DEF IInv, Typed
<1>3. /\ p \in Panels
      /\ p.open = panel.open /\ p.loading = panel.loading /\ p.timer = TRUE
      /\ p.rows = panel.rows
      /\ p.statuses = panel.statuses
  BY <1>2 DEF Panels
<1> HIDE DEF p
<1>4. p.timer
  BY <1>3
<1>5. Fine(requests, p, was)
  BY <1>2, <1>3, <1>4 DEF Fine, FitsPage
<1>6. PanelFine(p, was)
  BY <1>1, <1>2, <1>3, <1>4 DEF PanelFine, Untouched, Listed, Stored
<1> QED BY <1>1, <1>2, <1>3, <1>5, <1>6, RenderStep

LEMMA Fires == ASSUME IInv, TimerFires PROVE IInv'
<1> DEFINE p == [panel EXCEPT !.timer = FALSE, !.page = 1]
<1>1. /\ panel.timer /\ AskList(p, "list", 1, panel.text, requests)
      /\ UNCHANGED <<status, stock, was>>
  BY DEF TimerFires
<1>2. /\ panel \in Panels /\ requests \in Seq(Requests)
      /\ Fine(requests, panel, was) /\ OneLoader(requests) /\ PanelFine(panel, was)
  BY DEF IInv, Typed
<1>3. /\ p \in Panels
      /\ p.open = panel.open /\ p.loading = panel.loading /\ p.text = panel.text
      /\ p.page = 1 /\ ~p.timer /\ p.rows = panel.rows /\ p.statuses = panel.statuses
  <2> DEFINE q == [panel EXCEPT !.timer = FALSE]
  <2>1. q \in Panels /\ ~q.timer
    BY <1>2 DEF Panels
  <2>2. p = [q EXCEPT !.page = 1]
    BY <1>2 DEF Panels
  <2>3. /\ q.open = panel.open /\ q.loading = panel.loading /\ q.text = panel.text
        /\ q.rows = panel.rows /\ q.statuses = panel.statuses
    BY <1>2 DEF Panels
  <2> HIDE DEF p, q
  <2> QED BY <2>1, <2>2, <2>3 DEF Panels
<1> HIDE DEF p
<1>4. Untouched(p) /\ Stored(p, was) /\ panel.text \in Text /\ "list" \in Lists
  BY <1>2, <1>3 DEF PanelFine, Untouched, Stored, Panels, Lists
<1>5. panel.open /\ p.open /\ (panel.loading => p.loading)
  BY <1>1, <1>2, <1>3 DEF PanelFine, Untouched
<1>6. ~p.timer => panel.text = p.text /\ 1 = p.page
  BY <1>3
<1> QED BY <1>1, <1>2, <1>3, <1>4, <1>5, <1>6, AskStep

LEMMA Turns ==
    ASSUME IInv, NEW k \in PageButtons, ChangePage(k)
    PROVE  IInv'
<1> DEFINE p == [panel EXCEPT !.page = k]
<1>1. /\ panel.open /\ ~panel.loading /\ AskList(p, "list", k, panel.text, requests)
      /\ UNCHANGED <<status, stock, was>>
  BY DEF ChangePage, Ready
<1>2. /\ panel \in Panels /\ requests \in Seq(Requests)
      /\ Fine(requests, panel, was) /\ OneLoader(requests) /\ PanelFine(panel, was)
  BY DEF IInv, Typed
<1>3. k \in Int
  <2>1. panel.page \in Int
    BY <1>2 DEF Panels
  <2> QED BY <2>1 DEF PageButtons
<1>4. /\ p \in Panels
      /\ p.open = panel.open /\ p.loading = panel.loading /\ p.text = panel.text
      /\ p.page = k /\ p.timer = panel.timer /\ p.rows = panel.rows
      /\ p.statuses = panel.statuses
  BY <1>2, <1>3 DEF Panels
<1> HIDE DEF p
<1>5. Untouched(p) /\ Stored(p, was) /\ panel.text \in Text /\ "list" \in Lists
  BY <1>1, <1>2, <1>4 DEF PanelFine, Untouched, Stored, Panels, Lists
<1> QED BY <1>1, <1>2, <1>3, <1>4, <1>5, AskStep

LEMMA ChoosesStatus ==
    ASSUME IInv, NEW o \in Order, NEW s \in Status, ChooseStatus(o, s)
    PROVE  IInv'
<1> DEFINE new == Request("status", o, s)
<1>1. Render(panel, edit, Append(requests, new)) /\ UNCHANGED <<status, stock, was>>
  BY DEF ChooseStatus
<1>2. new \in Requests
  BY DEF Requests, Request, Whats, Replies
<1>3. new.what = "status" /\ new.id = o /\ new.value = s /\ new.reply.kind = "none"
  BY DEF Request
<1> HIDE DEF new
<1>4. Truthful(new, was)
  BY <1>3 DEF Truthful
<1>5. /\ panel \in Panels /\ edit \in [Watch -> RowStates]
      /\ Fine(requests, panel, was) /\ PanelFine(panel, was)
  BY DEF IInv, Typed
<1> QED BY <1>1, <1>2, <1>3, <1>4, <1>5, SendStep

LEMMA Saves ==
    ASSUME IInv, NEW w \in Watch, Save(w)
    PROVE  IInv'
<1> DEFINE new == Request("save", w, edit[w].stock)
           e == [edit EXCEPT ![w].saving = TRUE]
<1>1. Render(panel, e, Append(requests, new)) /\ UNCHANGED <<status, stock, was>>
  BY DEF Save
<1>2. /\ panel \in Panels /\ edit \in [Watch -> RowStates]
      /\ Fine(requests, panel, was) /\ PanelFine(panel, was)
  BY DEF IInv, Typed
<1>3. e \in [Watch -> RowStates] /\ edit[w].stock \in 0..MaxStock
  BY <1>2 DEF RowStates
<1>4. new \in Requests
  BY <1>3 DEF Requests, Request, Whats, Replies
<1>5. new.what = "save" /\ new.reply.kind = "none"
  BY DEF Request
<1> HIDE DEF new, e
<1>6. Truthful(new, was)
  BY <1>5 DEF Truthful
<1> QED BY <1>1, <1>2, <1>3, <1>4, <1>5, <1>6, SendStep

LEMMA Creates == ASSUME IInv, Create PROVE IInv'
<1> DEFINE new == Request("create", 0, 0)
           p == [panel EXCEPT !.creating = TRUE]
<1>1. Render(p, edit, Append(requests, new)) /\ UNCHANGED <<status, stock, was>>
  BY DEF Create
<1>2. /\ panel \in Panels /\ edit \in [Watch -> RowStates]
      /\ Fine(requests, panel, was) /\ PanelFine(panel, was)
  BY DEF IInv, Typed
<1>3. /\ p \in Panels
      /\ p.open = panel.open /\ p.loading = panel.loading /\ p.text = panel.text
      /\ p.page = panel.page /\ p.timer = panel.timer /\ p.rows = panel.rows
      /\ p.listed = panel.listed /\ p.statuses = panel.statuses /\ p.newest = panel.newest
  BY <1>2 DEF Panels
<1>4. new \in Requests
  BY AdminAssumption DEF Requests, Request, Whats, Replies
<1>5. new.what = "create" /\ new.reply.kind = "none"
  BY DEF Request
<1> HIDE DEF new, p
<1>6. Truthful(new, was)
  BY <1>5 DEF Truthful
<1>7. Fine(requests, p, was) /\ PanelFine(p, was)
  BY <1>2, <1>3, PageFine DEF PanelFine, Untouched, Listed, Stored
<1> QED BY <1>1, <1>2, <1>3, <1>4, <1>5, <1>6, <1>7, SendStep

\* Typing in a row is a matter of the row alone.
LEMMA Edited ==
    ASSUME IInv, NEW w \in Watch,
           ToggleEdit(w) \/ \E n \in 0..MaxStock : TypeStock(w, n)
    PROVE  IInv'
<1>1. UNCHANGED <<status, stock, was, panel, requests>>
  BY DEF ToggleEdit, TypeStock
<1>2. edit \in [Watch -> RowStates]
  BY DEF IInv, Typed
<1>3. edit' \in [Watch -> RowStates]
  <2>1. CASE ToggleEdit(w)
    BY <1>2, <2>1 DEF ToggleEdit, RowStates
  <2>2. CASE \E n \in 0..MaxStock : TypeStock(w, n)
    BY <1>2, <2>2 DEF TypeStock, RowStates
  <2> QED BY <2>1, <2>2
<1> QED BY <1>1, <1>3 DEF IInv, Typed, History, Fine, OneLoader, PanelFine

-----------------------------------------------------------------------------
(* The steps of the server.                                                 *)

\* The history only grows.
LEMMA HistoryGrows ==
    ASSUME IInv,
           \/ \E o \in Order, s \in Status : SetStatus(o, s)
           \/ \E w \in Watch, n \in 0..MaxStock : SetStock(w, n)
    PROVE  /\ status' \in [Order -> Status] /\ stock' \in [Watch -> 0..MaxStock]
           /\ was' \in [statuses : [Order -> SUBSET Status],
                        stocks : [Watch -> SUBSET (0..MaxStock)]]
           /\ \A o \in Order : was.statuses[o] \subseteq was'.statuses[o]
           /\ \A w \in Watch : was.stocks[w] \subseteq was'.stocks[w]
           /\ History'
<1>1. /\ status \in [Order -> Status] /\ stock \in [Watch -> 0..MaxStock]
      /\ was \in [statuses : [Order -> SUBSET Status],
                  stocks : [Watch -> SUBSET (0..MaxStock)]]
      /\ History
  BY DEF IInv, Typed
<1>2. ASSUME NEW o \in Order, NEW s \in Status, SetStatus(o, s)
      PROVE  /\ status' \in [Order -> Status] /\ stock' = stock
             /\ \A x \in Order : was.statuses[x] \subseteq was'.statuses[x]
             /\ was'.stocks = was.stocks
             /\ was' \in [statuses : [Order -> SUBSET Status],
                          stocks : [Watch -> SUBSET (0..MaxStock)]]
             /\ History'
  <2>1. status' = [status EXCEPT ![o] = s] /\ stock' = stock
    BY <1>2 DEF SetStatus
  <2> DEFINE past == [was.statuses EXCEPT ![o] = @ \cup {s}]
  <2>2. past \in [Order -> SUBSET Status]
    BY <1>1
  <2>3. was' = [was EXCEPT !.statuses = past]
    BY <1>1, <1>2 DEF SetStatus
  <2>4. \A x \in Order : past[x] = IF x = o THEN was.statuses[x] \cup {s} ELSE was.statuses[x]
    BY <1>1
  <2> HIDE DEF past
  <2>5. was'.statuses = past /\ was'.stocks = was.stocks
    BY <1>1, <2>3
  <2>6. was' \in [statuses : [Order -> SUBSET Status],
                  stocks : [Watch -> SUBSET (0..MaxStock)]]
    BY <1>1, <2>2, <2>3
  <2>7. History'
    BY <1>1, <2>1, <2>4, <2>5 DEF History
  <2> QED BY <1>1, <2>1, <2>4, <2>5, <2>6, <2>7
<1>3. ASSUME NEW w \in Watch, NEW n \in 0..MaxStock, SetStock(w, n)
      PROVE  /\ stock' \in [Watch -> 0..MaxStock] /\ status' = status
             /\ \A x \in Watch : was.stocks[x] \subseteq was'.stocks[x]
             /\ was'.statuses = was.statuses
             /\ was' \in [statuses : [Order -> SUBSET Status],
                          stocks : [Watch -> SUBSET (0..MaxStock)]]
             /\ History'
  <2>1. stock' = [stock EXCEPT ![w] = n] /\ status' = status
    BY <1>3 DEF SetStock
  <2> DEFINE past == [was.stocks EXCEPT ![w] = @ \cup {n}]
  <2>2. past \in [Watch -> SUBSET (0..MaxStock)]
    BY <1>1
  <2>3. was' = [was EXCEPT !.stocks = past]
    BY <1>1, <1>3 DEF SetStock
  <2>4. \A x \in Watch : past[x] = IF x = w THEN was.stocks[x] \cup {n} ELSE was.stocks[x]
    BY <1>1
  <2> HIDE DEF past
  <2>5. was'.stocks = past /\ was'.statuses = was.statuses
    BY <1>1, <2>3
  <2>6. was' \in [statuses : [Order -> SUBSET Status],
                  stocks : [Watch -> SUBSET (0..MaxStock)]]
    BY <1>1, <2>2, <2>3
  <2>7. History'
    BY <1>1, <2>1, <2>4, <2>5 DEF History
  <2> QED BY <1>1, <2>1, <2>4, <2>5, <2>6, <2>7
<1>4. CASE \E o \in Order, s \in Status : SetStatus(o, s)
  BY <1>1, <1>2, <1>4
<1>5. CASE \E w \in Watch, n \in 0..MaxStock : SetStock(w, n)
  BY <1>1, <1>3, <1>5
<1> QED BY <1>4, <1>5

\* What was true of the past stays true.
LEMMA PastFine ==
    ASSUME NEW s, NEW p \in Panels, NEW past, NEW later, Fine(s, p, past), Stored(p, past),
           \A o \in Order : past.statuses[o] \subseteq later.statuses[o],
           \A w \in Watch : past.stocks[w] \subseteq later.stocks[w]
    PROVE  Fine(s, p, later) /\ Stored(p, later)
<1>1. ASSUME NEW i \in 1..Len(s) PROVE Truthful(s[i], later)
  <2>1. Truthful(s[i], past)
    BY DEF Fine
  <2> QED BY <2>1, Maps DEF Truthful
<1>2. p.rows \in RowMaps /\ p.statuses \in StatusMaps
  BY DEF Panels
<1>3. DOMAIN p.rows \subseteq Watch /\ DOMAIN p.statuses \subseteq Order
  BY <1>2, Maps
<1> QED BY <1>1, <1>3 DEF Fine, Stored

\* Others change the database.
LEMMA Others ==
    ASSUME IInv, UNCHANGED <<panel, edit, requests>>,
           \/ \E o \in Order, s \in Status : SetStatus(o, s)
           \/ \E w \in Watch, n \in 0..MaxStock : SetStock(w, n)
    PROVE  IInv'
<1>1. panel \in Panels /\ Fine(requests, panel, was) /\ PanelFine(panel, was)
  BY DEF IInv, Typed
<1>2. Fine(requests, panel, was') /\ Stored(panel, was')
  BY <1>1, HistoryGrows, PastFine DEF PanelFine
<1>3. Typed' /\ History'
  BY HistoryGrows DEF IInv, Typed
<1>4. OneLoader(requests') /\ PanelFine(panel', was')
  BY <1>2 DEF IInv, PanelFine, OneLoader
<1> QED BY <1>2, <1>3, <1>4 DEF IInv

\* A request is answered, and the answer is true.
LEMMA ReplyFine ==
    ASSUME requests \in Seq(Requests), NEW i \in 1..Len(requests), NEW got \in Replies,
           NEW p, NEW past, Fine(requests, p, past), OneLoader(requests),
           Truthful([requests[i] EXCEPT !.reply = got], past),
           requests' = [requests EXCEPT ![i].reply = got]
    PROVE  requests' \in Seq(Requests) /\ Fine(requests', p, past) /\ OneLoader(requests')
<1> DEFINE r == [requests[i] EXCEPT !.reply = got]
<1>1. requests[i] \in Requests
  BY ElementOfSeq
<1>2. /\ r \in Requests /\ r.what = requests[i].what /\ r.value = requests[i].value
      /\ r.page = requests[i].page /\ r.old = requests[i].old
  BY <1>1 DEF Requests
<1>3. requests' = [requests EXCEPT ![i] = r]
  BY LenProperties
<1>4. FitsPage(requests[i], p)
  BY DEF Fine
<1> HIDE DEF r
<1>5. /\ requests' \in Seq(Requests) /\ Len(requests') = Len(requests)
      /\ \A j \in 1..Len(requests) : requests'[j] = IF j = i THEN r ELSE requests[j]
  BY <1>2, <1>3, ExceptSeq
<1>6. FitsPage(r, p)
  BY <1>2, <1>4 DEF FitsPage, Loader
<1>7. Fine(requests', p, past)
  BY <1>5, <1>6 DEF Fine, r
<1>8. OneLoader(requests')
  BY <1>2, <1>5 DEF OneLoader, Loader
<1> QED BY <1>5, <1>7, <1>8

LEMMA Serves ==
    ASSUME IInv, NEW i \in DOMAIN requests, Serve(i)
    PROVE  IInv'
<1> DEFINE r == requests[i]
<1>1. /\ requests \in Seq(Requests) /\ i \in 1..Len(requests) /\ r \in Requests
      /\ panel \in Panels /\ edit \in [Watch -> RowStates]
      /\ Fine(requests, panel, was) /\ OneLoader(requests) /\ PanelFine(panel, was)
      /\ History
  BY LenProperties, ElementOfSeq DEF IInv, Typed
<1>2. /\ r.what = "status" => r.id \in Order /\ r.value \in Status
      /\ r.what \in Lists => r.value \in Text
  BY <1>1 DEF Fine, FitsPage, Truthful
<1>3. UNCHANGED <<panel, edit>>
  BY DEF Serve
\* What is answered is a reply, and true.
<1>4. ASSUME NEW got \in Replies, got.kind # "ok", NEW past,
             \A o \in Order : was.statuses[o] \subseteq past.statuses[o],
             \A w \in Watch : was.stocks[w] \subseteq past.stocks[w]
      PROVE  Truthful([r EXCEPT !.reply = got], past)
  <2> DEFINE q == [r EXCEPT !.reply = got]
  <2>1. q.reply.kind # "ok" /\ q.what = r.what /\ q.id = r.id /\ q.value = r.value
    BY <1>1, <1>4 DEF Requests
  <2> HIDE DEF q
  <2>2. Truthful(q, past)
    BY <1>2, <2>1 DEF Truthful
  <2> QED BY <2>2 DEF q
<1>5. [kind |-> "lost"] \in Replies
  BY DEF Replies
<1>6. CASE ServeReads(i)
  <2>1. UNCHANGED <<status, stock, was>>
    BY <1>6 DEF ServeReads
  <2>2. ASSUME NEW got \in Replies, Truthful([r EXCEPT !.reply = got], was),
               requests' = [requests EXCEPT ![i].reply = got]
        PROVE  IInv'
    <3>1. requests' \in Seq(Requests) /\ Fine(requests', panel, was) /\ OneLoader(requests')
      BY <1>1, <2>2, ReplyFine
    <3> QED BY <1>1, <1>3, <2>1, <3>1 DEF IInv, Typed, History, PanelFine, Fine, OneLoader
  <2>3. ASSUME r.what = "dashboard", Reply(i, [kind |-> "ok", statuses |-> status])
        PROVE  IInv'
    <3> DEFINE answer == [kind |-> "ok", statuses |-> status]
               q == [r EXCEPT !.reply = answer]
    <3>1. status \in [Order -> Status]
      BY DEF IInv, Typed
    <3>2. status \in StatusMaps
      BY <3>1, Maps
    <3>3. answer \in Replies
      BY <3>2 DEF Replies
    <3>4. q.what = r.what /\ q.id = r.id /\ q.value = r.value
      BY <1>1 DEF Requests
    <3>5. q.reply = answer /\ answer.kind = "ok" /\ answer.statuses = status
      BY <1>1 DEF Requests
    <3>6. DOMAIN status = Order
      BY <3>1
    <3>7. \E got \in {answer, [kind |-> "lost"]} : requests' = [requests EXCEPT ![i].reply = got]
      BY <2>3 DEF Reply
    <3> HIDE DEF answer, q
    <3>8. Truthful(q, was)
      BY <1>1, <2>3, <3>2, <3>4, <3>5, <3>6 DEF Truthful, History, Lists
    <3>9. CASE requests' = [requests EXCEPT ![i].reply = answer]
      BY <2>2, <3>3, <3>8, <3>9 DEF q
    <3>10. CASE requests' = [requests EXCEPT ![i].reply = [kind |-> "lost"]]
      <4>1. Truthful([r EXCEPT !.reply = [kind |-> "lost"]], was)
        BY <1>4, <1>5
      <4> QED BY <1>5, <2>2, <3>10, <4>1
    <3> QED BY <3>7, <3>9, <3>10
  <2>4. ASSUME r.what \in Lists,
               Reply(i, [kind |-> "ok", total |-> Cardinality(Selected(r.value)),
                         rows |-> [w \in PageOf(r.page, r.value) |-> stock[w]]])
        PROVE  IInv'
    <3> DEFINE rows == [w \in PageOf(r.page, r.value) |-> stock[w]]
               total == Cardinality(Selected(r.value))
               answer == [kind |-> "ok", total |-> total, rows |-> rows]
               q == [r EXCEPT !.reply = answer]
    <3>1. stock \in [Watch -> 0..MaxStock] /\ r.value \in Text
      BY <1>2, <2>4 DEF IInv, Typed
    <3>2. PageOf(r.page, r.value) \subseteq found[r.value] /\ found[r.value] \in SUBSET Watch
      BY <3>1, AdminAssumption DEF PageOf, Selected
    <3>3. /\ DOMAIN rows \subseteq found[r.value] /\ DOMAIN rows \in SUBSET Watch
          /\ rows \in [DOMAIN rows -> 0..MaxStock]
          /\ \A w \in DOMAIN rows : rows[w] = stock[w]
      BY <3>1, <3>2
    <3>4. total \in Totals
      BY <3>1 DEF Totals, Selected
    <3> HIDE DEF rows, total
    <3>5. rows \in RowMaps
      BY <3>3, Maps
    <3>6. answer \in Replies
      BY <3>4, <3>5 DEF Replies
    <3>7. q.what = r.what /\ q.id = r.id /\ q.value = r.value
      BY <1>1 DEF Requests
    <3>8. q.reply = answer /\ answer.kind = "ok" /\ answer.rows = rows /\ answer.total = total
      BY <1>1 DEF Requests
    <3>9. \E got \in {answer, [kind |-> "lost"]} : requests' = [requests EXCEPT ![i].reply = got]
      BY <2>4 DEF Reply, rows, total
    <3> HIDE DEF answer, q
    <3>10. Truthful(q, was)
      BY <1>1, <2>4, <3>3, <3>4, <3>5, <3>7, <3>8 DEF Truthful, History, Lists
    <3>11. CASE requests' = [requests EXCEPT ![i].reply = answer]
      BY <2>2, <3>6, <3>10, <3>11 DEF q
    <3>12. CASE requests' = [requests EXCEPT ![i].reply = [kind |-> "lost"]]
      <4>1. Truthful([r EXCEPT !.reply = [kind |-> "lost"]], was)
        BY <1>4, <1>5
      <4> QED BY <1>5, <2>2, <3>12, <4>1
    <3> QED BY <3>9, <3>11, <3>12
  <2> QED BY <1>6, <2>3, <2>4 DEF ServeReads
<1>7. CASE ServeStatus(i)
  <2>1. r.what = "status" /\ SetStatus(r.id, r.value) /\ Reply(i, [kind |-> "ok"])
    BY <1>7 DEF ServeStatus
  <2>2. r.id \in Order /\ r.value \in Status
    BY <1>2, <2>1
  <2>3. /\ status' \in [Order -> Status] /\ stock' \in [Watch -> 0..MaxStock]
        /\ was' \in [statuses : [Order -> SUBSET Status],
                     stocks : [Watch -> SUBSET (0..MaxStock)]]
        /\ \A o \in Order : was.statuses[o] \subseteq was'.statuses[o]
        /\ \A w \in Watch : was.stocks[w] \subseteq was'.stocks[w]
        /\ History'
    BY <2>1, <2>2, HistoryGrows
  <2>4. Fine(requests, panel, was') /\ Stored(panel, was')
    BY <1>1, <2>3, PastFine DEF PanelFine
  <2>5. r.value \in was'.statuses[r.id]
    <3>1. was' = [was EXCEPT !.statuses[r.id] = @ \cup {r.value}]
      BY <2>1 DEF SetStatus
    <3>2. was \in [statuses : [Order -> SUBSET Status],
                   stocks : [Watch -> SUBSET (0..MaxStock)]]
      BY DEF IInv, Typed
    <3>3. was'.statuses = [was.statuses EXCEPT ![r.id] = @ \cup {r.value}]
      BY <3>1, <3>2
    <3> QED BY <2>2, <3>2, <3>3
  <2>6. ASSUME NEW got \in {[kind |-> "ok"], [kind |-> "lost"]},
               requests' = [requests EXCEPT ![i].reply = got]
        PROVE  IInv'
    <3> DEFINE q == [r EXCEPT !.reply = got]
    <3>1. got \in Replies
      BY DEF Replies
    <3>2. q.what = r.what /\ q.id = r.id /\ q.value = r.value
      BY <1>1 DEF Requests
    <3> HIDE DEF q
    <3>3. Truthful(q, was')
      BY <2>1, <2>2, <2>5, <3>2 DEF Truthful, Lists
    <3>4. requests' \in Seq(Requests) /\ Fine(requests', panel, was') /\ OneLoader(requests')
      BY <1>1, <2>4, <2>6, <3>1, <3>3, ReplyFine DEF q
    <3> QED BY <1>1, <1>3, <2>3, <2>4, <3>4 DEF IInv, Typed, PanelFine, Fine, OneLoader
  <2> QED BY <2>1, <2>6 DEF Reply
<1> QED BY <1>6, <1>7 DEF Serve

LEMMA Refuses ==
    ASSUME IInv, NEW i \in DOMAIN requests, RefuseOrLose(i)
    PROVE  IInv'
<1> DEFINE r == requests[i]
<1>1. /\ requests \in Seq(Requests) /\ i \in 1..Len(requests) /\ r \in Requests
      /\ Fine(requests, panel, was) /\ OneLoader(requests)
  BY LenProperties, ElementOfSeq DEF IInv, Typed
<1>2. PICK kind \in {"refused", "lost"} :
         requests' = [requests EXCEPT ![i].reply = [kind |-> kind]]
  BY DEF RefuseOrLose
<1>3. UNCHANGED <<status, stock, was, panel, edit>>
  BY DEF RefuseOrLose
<1> DEFINE got == [kind |-> kind]
           q == [r EXCEPT !.reply = got]
<1>4. got \in Replies /\ got.kind # "ok"
  BY DEF Replies
<1>5. q.what = r.what /\ q.id = r.id /\ q.value = r.value /\ q.reply = got
  BY <1>1 DEF Requests
<1>6. Truthful(r, was)
  BY <1>1 DEF Fine
<1> HIDE DEF q, got
<1>7. Truthful(q, was)
  BY <1>4, <1>5, <1>6 DEF Truthful
<1>8. requests' \in Seq(Requests) /\ Fine(requests', panel, was) /\ OneLoader(requests')
  BY <1>1, <1>2, <1>4, <1>7, ReplyFine DEF q, got
<1> QED BY <1>3, <1>8 DEF IInv, Typed, History, PanelFine, Fine, OneLoader

-----------------------------------------------------------------------------
(* The answers.                                                             *)

\* What is known of a request that is answered, and of those that stay.
LEMMA Answering ==
    ASSUME IInv, NEW i \in DOMAIN requests
    PROVE  /\ requests[i] \in Requests
           /\ FitsPage(requests[i], panel) /\ Truthful(requests[i], was)
           /\ Without(i) \in Seq(Requests)
           /\ Fine(Without(i), panel, was) /\ OneLoader(Without(i))
           /\ Loader(requests[i]) => NoLoader(Without(i))
           /\ panel \in Panels /\ edit \in [Watch -> RowStates] /\ PanelFine(panel, was)
<1>1. /\ requests \in Seq(Requests) /\ i \in 1..Len(requests)
      /\ Fine(requests, panel, was) /\ OneLoader(requests)
  BY LenProperties DEF IInv, Typed
<1>2. requests[i] \in Requests /\ FitsPage(requests[i], panel) /\ Truthful(requests[i], was)
  BY <1>1, ElementOfSeq DEF Fine
<1> QED BY <1>1, <1>2, WithoutFine DEF IInv, Typed

LEMMA DashboardStep ==
    ASSUME IInv, NEW i \in DOMAIN requests, DashboardAnswered(requests[i], Without(i)),
           UNCHANGED <<status, stock, was>>
    PROVE  IInv'
<1> DEFINE r == requests[i]
           sent == Without(i)
<1>1. /\ r \in Requests /\ FitsPage(r, panel) /\ Truthful(r, was)
      /\ sent \in Seq(Requests) /\ Fine(sent, panel, was) /\ OneLoader(sent)
      /\ Loader(r) => NoLoader(sent)
      /\ panel \in Panels /\ edit \in [Watch -> RowStates] /\ PanelFine(panel, was)
  BY Answering
<1> HIDE DEF r, sent
<1>2. r.what = "dashboard" /\ NoLoader(sent) /\ panel.open /\ panel.loading
  BY <1>1 DEF DashboardAnswered, Loader, FitsPage, r
<1>3. CASE r.reply.kind = "ok"
  <2> DEFINE p == [panel EXCEPT !.statuses = r.reply.statuses]
  <2>1. AskList(p, "first", 1, All, sent)
    BY <1>3 DEF DashboardAnswered, r, sent
  <2>2. /\ r.reply.statuses \in StatusMaps
        /\ \A o \in DOMAIN r.reply.statuses : r.reply.statuses[o] \in was.statuses[o]
    BY <1>1, <1>2, <1>3 DEF Truthful
  <2>3. /\ p \in Panels
        /\ p.open = panel.open /\ p.loading = panel.loading /\ p.text = panel.text
        /\ p.page = panel.page /\ p.timer = panel.timer /\ p.rows = panel.rows
        /\ p.statuses = r.reply.statuses
    BY <1>1, <2>2 DEF Panels
  <2> HIDE DEF p
  <2>4. Untouched(p) /\ Stored(p, was) /\ p.text = All /\ p.page = 1
    BY <1>1, <1>2, <2>2, <2>3 DEF PanelFine, Untouched, Stored
  <2>5. "first" \in Lists /\ All \in Text /\ 1 \in Int
    BY AdminAssumption DEF Lists
  <2> QED BY <1>1, <1>2, <2>1, <2>3, <2>4, <2>5, AskStep
<1>4. CASE r.reply.kind # "ok"
  <2> DEFINE p == [panel EXCEPT !.loading = FALSE]
  <2>1. Render(p, edit, sent)
    BY <1>4 DEF DashboardAnswered, r, sent
  <2>2. /\ p \in Panels /\ ~p.loading
        /\ p.open = panel.open /\ p.text = panel.text
        /\ p.page = panel.page /\ p.timer = panel.timer /\ p.rows = panel.rows
        /\ p.listed = panel.listed /\ p.newest = panel.newest /\ p.statuses = panel.statuses
    BY <1>1 DEF Panels
  <2> HIDE DEF p
  <2>3. Fine(sent, p, was)
    BY <1>1, <1>2, <2>2 DEF Fine, FitsPage, NoLoader
  <2>4. PanelFine(p, was)
    BY <1>1, <2>2 DEF PanelFine, Untouched, Listed, Stored
  <2> QED BY <1>1, <2>1, <2>2, <2>3, <2>4, RenderStep
<1> QED BY <1>3, <1>4

LEMMA ListStep ==
    ASSUME IInv, NEW i \in DOMAIN requests, ListAnswered(requests[i], Without(i)),
           UNCHANGED <<status, stock, was>>
    PROVE  IInv'
<1> DEFINE r == requests[i]
           sent == Without(i)
           ok == r.reply.kind = "ok"
           newest == IF r.old THEN IF ok /\ panel.newest = "shown" THEN "lost" ELSE panel.newest
                     ELSE IF ok THEN "shown" ELSE "lost"
           p == [panel EXCEPT !.newest = newest, !.loading = StillLoading(r)]
           q == IF ok THEN [p EXCEPT !.rows = r.reply.rows, !.total = r.reply.total,
                                     !.listed = r.page]
                ELSE p
<1>1. /\ r \in Requests /\ FitsPage(r, panel) /\ Truthful(r, was)
      /\ sent \in Seq(Requests) /\ Fine(sent, panel, was) /\ OneLoader(sent)
      /\ Loader(r) => NoLoader(sent)
      /\ panel \in Panels /\ edit \in [Watch -> RowStates] /\ PanelFine(panel, was)
  BY Answering
<1>2. r.what \in Lists /\ Render(q, edit, sent)
  BY DEF ListAnswered
<1>3. /\ newest \in {"out", "shown", "lost"} /\ r.page \in Int
      /\ StillLoading(r) \in BOOLEAN
      /\ StillLoading(r) => panel.loading
      /\ StillLoading(r) \/ NoLoader(sent) \/ ~panel.loading
  BY <1>1 DEF StillLoading, Loader, Panels, Requests
<1>4. newest = "shown" => (~r.old /\ ok) \/ (panel.newest = "shown" /\ ~ok)
  OBVIOUS
<1>5. ok => /\ r.reply.total \in Totals /\ r.reply.rows \in RowMaps
            /\ DOMAIN r.reply.rows \subseteq found[r.value]
            /\ \A w \in DOMAIN r.reply.rows : r.reply.rows[w] \in was.stocks[w]
  BY <1>1, <1>2 DEF Truthful, Lists
<1> HIDE DEF r, sent, ok, newest
<1>6. /\ p \in Panels /\ p.loading = StillLoading(r) /\ p.newest = newest
      /\ p.open = panel.open /\ p.text = panel.text
      /\ p.page = panel.page /\ p.timer = panel.timer /\ p.rows = panel.rows
      /\ p.listed = panel.listed /\ p.statuses = panel.statuses
  BY <1>1, <1>3 DEF Panels
<1> HIDE DEF p
<1>7. /\ q \in Panels /\ q.loading = p.loading /\ q.newest = p.newest
      /\ q.open = p.open /\ q.text = p.text
      /\ q.page = p.page /\ q.timer = p.timer /\ q.statuses = p.statuses
      /\ ok => q.rows = r.reply.rows /\ q.listed = r.page
      /\ ~ok => q.rows = p.rows /\ q.listed = p.listed
  BY <1>3, <1>5, <1>6 DEF Panels
<1> HIDE DEF q
<1>8. Fine(sent, q, was)
  BY <1>1, <1>3, <1>6, <1>7 DEF Fine, FitsPage, NoLoader
<1>9. Untouched(q)
  BY <1>1, <1>3, <1>6, <1>7 DEF PanelFine, Untouched
<1>10. Listed(q)
  <2>1. CASE ok
    BY <1>1, <1>2, <1>4, <1>5, <1>6, <1>7, <2>1 DEF Listed, FitsPage
  <2>2. CASE ~ok
    BY <1>1, <1>4, <1>6, <1>7, <2>2 DEF Listed, PanelFine
  <2> QED BY <2>1, <2>2
<1>11. Stored(q, was)
  BY <1>1, <1>5, <1>6, <1>7 DEF PanelFine, Stored
<1> QED BY <1>1, <1>2, <1>7, <1>8, <1>9, <1>10, <1>11, RenderStep DEF PanelFine

LEMMA StatusStep ==
    ASSUME IInv, NEW i \in DOMAIN requests, StatusAnswered(requests[i], Without(i)),
           UNCHANGED <<status, stock, was>>
    PROVE  IInv'
<1> DEFINE r == requests[i]
           sent == Without(i)
           p == [panel EXCEPT !.statuses = ShownStatuses(r)]
<1>1. /\ r \in Requests /\ FitsPage(r, panel) /\ Truthful(r, was)
      /\ sent \in Seq(Requests) /\ Fine(sent, panel, was) /\ OneLoader(sent)
      /\ panel \in Panels /\ edit \in [Watch -> RowStates] /\ PanelFine(panel, was)
  BY Answering
<1>2. r.what = "status" /\ Render(p, edit, sent)
  BY DEF StatusAnswered
<1> HIDE DEF r, sent
<1>3. /\ panel.statuses \in StatusMaps
      /\ \A o \in DOMAIN panel.statuses : panel.statuses[o] \in was.statuses[o]
  BY <1>1 DEF Panels, PanelFine, Stored
<1>4. /\ ShownStatuses(r) \in StatusMaps
      /\ \A o \in DOMAIN ShownStatuses(r) : ShownStatuses(r)[o] \in was.statuses[o]
  <2>1. CASE r.reply.kind = "ok" /\ r.of = "page"
    <3> DEFINE shown == [panel.statuses EXCEPT ![r.id] = r.value]
    <3>1. ShownStatuses(r) = shown
      BY <2>1 DEF ShownStatuses
    <3>2. r.value \in Status /\ r.value \in was.statuses[r.id]
      BY <1>1, <1>2, <2>1 DEF Truthful
    <3>3. /\ DOMAIN panel.statuses \in SUBSET Order
          /\ panel.statuses \in [DOMAIN panel.statuses -> Status]
      BY <1>3, Maps
    <3>4. DOMAIN shown = DOMAIN panel.statuses /\ shown \in [DOMAIN panel.statuses -> Status]
      BY <3>2, <3>3
    <3>5. shown \in StatusMaps
      BY <3>3, <3>4, Maps
    <3>6. \A o \in DOMAIN panel.statuses :
             shown[o] = IF o = r.id THEN r.value ELSE panel.statuses[o]
      BY <3>3
    <3> QED BY <1>3, <3>1, <3>2, <3>4, <3>5, <3>6
  <2>2. CASE ~(r.reply.kind = "ok" /\ r.of = "page")
    BY <1>3, <2>2 DEF ShownStatuses
  <2> QED BY <2>1, <2>2
<1>5. /\ p \in Panels /\ p.loading = panel.loading /\ p.newest = panel.newest
      /\ p.open = panel.open /\ p.text = panel.text
      /\ p.page = panel.page /\ p.timer = panel.timer /\ p.rows = panel.rows
      /\ p.listed = panel.listed /\ p.statuses = ShownStatuses(r)
  BY <1>1, <1>4 DEF Panels
<1> HIDE DEF p
<1>6. Fine(sent, p, was)
  BY <1>1, <1>5, PageFine
<1>7. PanelFine(p, was)
  BY <1>1, <1>4, <1>5 DEF PanelFine, Untouched, Listed, Stored
<1> QED BY <1>1, <1>2, <1>5, <1>6, <1>7, RenderStep

LEMMA SaveStep ==
    ASSUME IInv, NEW i \in DOMAIN requests, SaveAnswered(requests[i], Without(i)),
           UNCHANGED <<status, stock, was>>
    PROVE  IInv'
<1> DEFINE r == requests[i]
           sent == Without(i)
           done == r.of = "part" /\ r.reply.kind # "lost"
           e == IF done THEN [edit EXCEPT ![r.id].saving = FALSE, ![r.id].editing = FALSE]
                ELSE edit
<1>1. /\ r \in Requests /\ Truthful(r, was)
      /\ sent \in Seq(Requests) /\ Fine(sent, panel, was) /\ OneLoader(sent)
      /\ panel \in Panels /\ edit \in [Watch -> RowStates] /\ PanelFine(panel, was)
  BY Answering
<1>2. r.what = "save" /\ r.reply.kind # "ok"
  BY <1>1 DEF SaveAnswered, Truthful, Lists
<1>3. Render(panel, e, sent)
  BY <1>2 DEF SaveAnswered
<1>4. e \in [Watch -> RowStates]
  BY <1>1 DEF RowStates
<1> QED BY <1>1, <1>3, <1>4, RenderStep

LEMMA CreateStep ==
    ASSUME IInv, NEW i \in DOMAIN requests, CreateAnswered(requests[i], Without(i)),
           UNCHANGED <<status, stock, was>>
    PROVE  IInv'
<1> DEFINE r == requests[i]
           sent == Without(i)
           p == [panel EXCEPT !.creating = @ /\ r.of # "part"]
<1>1. /\ r \in Requests /\ Truthful(r, was)
      /\ sent \in Seq(Requests) /\ Fine(sent, panel, was) /\ OneLoader(sent)
      /\ panel \in Panels /\ edit \in [Watch -> RowStates] /\ PanelFine(panel, was)
  BY Answering
<1>2. r.what = "create" /\ r.reply.kind # "ok"
  BY <1>1 DEF CreateAnswered, Truthful, Lists
<1>3. Render(p, edit, sent)
  BY <1>2 DEF CreateAnswered
<1> HIDE DEF r, sent
<1>4. /\ p \in Panels /\ p.loading = panel.loading /\ p.newest = panel.newest
      /\ p.open = panel.open /\ p.text = panel.text
      /\ p.page = panel.page /\ p.timer = panel.timer /\ p.rows = panel.rows
      /\ p.listed = panel.listed /\ p.statuses = panel.statuses
  <2>1. (panel.creating /\ r.of # "part") \in BOOLEAN
    OBVIOUS
  <2> QED BY <1>1, <2>1 DEF Panels
<1> HIDE DEF p
<1>5. Fine(sent, p, was)
  BY <1>1, <1>4, PageFine
<1>6. PanelFine(p, was)
  BY <1>1, <1>4 DEF PanelFine, Untouched, Listed, Stored
<1> QED BY <1>1, <1>3, <1>4, <1>5, <1>6, RenderStep

-----------------------------------------------------------------------------
(* The theorems.                                                            *)

LEMMA InvInit == Init => IInv
<1> SUFFICES ASSUME Init PROVE IInv
  OBVIOUS
<1>1. Typed
  <2>1. << >> \in Seq(Requests)
    BY EmptySeq
  <2>2. NoRow \in RowStates
    BY AdminAssumption DEF NoRow, RowStates
  <2>3. status \in [Order -> Status] /\ stock \in [Watch -> 0..MaxStock]
    BY AdminAssumption DEF Init
  <2>4. was \in [statuses : [Order -> SUBSET Status],
                 stocks : [Watch -> SUBSET (0..MaxStock)]]
    BY <2>3, AdminAssumption DEF Init
  <2> QED BY <2>1, <2>2, <2>3, <2>4, ClosedTyped DEF Init, Typed
<1>2. History
  BY DEF Init, History
<1>3. Len(requests) = 0
  BY EmptySeq DEF Init
<1>4. Fine(requests, panel, was) /\ OneLoader(requests)
  BY <1>3 DEF Fine, OneLoader
<1>5. PanelFine(panel, was)
  BY Maps DEF Init, Closed, PanelFine, Untouched, Listed, Stored
<1> QED BY <1>1, <1>2, <1>4, <1>5 DEF IInv

LEMMA InvStep == IInv /\ [Next]_vars => IInv'
<1> SUFFICES ASSUME IInv, [Next]_vars PROVE IInv'
  OBVIOUS
<1>1. CASE Visits
  BY <1>1, Opens, Leaves, Fires DEF Visits
<1>2. CASE \E t \in Tabs : ChooseTab(t)
  BY <1>2, Chooses
<1>3. CASE Searches
  BY <1>3, Types DEF Searches
<1>4. CASE Pages
  BY <1>4, Turns DEF Pages
<1>5. CASE Orders
  <2>1. ASSUME NEW o \in Order, Paid(o) PROVE IInv'
    BY <2>1, Others, AdminAssumption DEF Paid
  <2>2. ASSUME NEW o \in Order, NEW s \in Status, ChooseStatus(o, s) PROVE IInv'
    BY <2>2, ChoosesStatus
  <2> QED BY <1>5, <2>1, <2>2 DEF Orders
<1>6. CASE Create
  BY <1>6, Creates
<1>7. ASSUME NEW w \in Watch, Edits(w) PROVE IInv'
  <2>1. CASE Sell(w)
    <3>1. stock[w] \in 0..MaxStock /\ stock[w] > 0
      BY <2>1 DEF Sell, IInv, Typed
    <3>2. stock[w] - 1 \in 0..MaxStock
      BY <3>1, AdminAssumption
    <3> QED BY <2>1, <3>2, Others DEF Sell
  <2>2. CASE \E n \in 0..MaxStock : Count(w, n)
    BY <2>2, Others DEF Count
  <2>3. CASE ToggleEdit(w) \/ \E n \in 0..MaxStock : TypeStock(w, n)
    BY <2>3, Edited
  <2>4. CASE Save(w)
    BY <2>4, Saves
  <2> QED BY <1>7, <2>1, <2>2, <2>3, <2>4 DEF Edits
<1>8. CASE Settles
  <2> SUFFICES ASSUME NEW i \in DOMAIN requests, Serve(i) \/ RefuseOrLose(i) \/ Answered(i)
               PROVE  IInv'
    BY <1>8 DEF Settles
  <2>1. CASE Answered(i)
    BY <2>1, DashboardStep, ListStep, StatusStep, SaveStep, CreateStep DEF Answered
  <2> QED BY <2>1, Serves, Refuses
<1>9. CASE UNCHANGED vars
  BY <1>9 DEF vars, IInv, Typed, History, Fine, OneLoader, PanelFine
<1> QED BY <1>1, <1>2, <1>3, <1>4, <1>5, <1>6, <1>7, <1>8, <1>9 DEF Next

\* The invariant holds of every behaviour, fair or not.
LEMMA Invariant == Init /\ [][Next]_vars => []IInv
  BY InvInit, InvStep, PTL

\* However the answers of the list overtake each other, once the search has
\* settled the rows are those of the text and the page that the page says.
THEOREM ListIsOfInputs == Spec => []ListOfInputs
<1>1. IInv => ListOfInputs
  BY DEF IInv, PanelFine, Listed, ListOfInputs
<1> QED BY <1>1, Invariant, PTL DEF Spec

\* Every stock and status on the page was in the database at some time: a change
\* that was refused or whose answer was lost is never shown as done.
THEOREM ShownIsHistory == Spec => []ShownWasStored
<1>1. IInv => ShownWasStored
  BY DEF IInv, PanelFine, Stored, ShownWasStored
<1> QED BY <1>1, Invariant, PTL DEF Spec
=============================================================================
