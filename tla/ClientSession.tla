---------------------------- MODULE ClientSession ----------------------------
(***************************************************************************)
(* Who is logged in, in one browser tab: client/src/utils/auth.ts, the     *)
(* state customer of App.tsx, the pages Login, Register, MyOrders and the  *)
(* loading of AdminPanel, over Accounts.                                   *)
(*                                                                         *)
(* Three places say who is logged in: the tokens and the customer in       *)
(* localStorage, and the customer in the state of App.  Exchanges with the *)
(* server overlap: sign-ins, calls through fetchWithAuth, and the refresh  *)
(* they share.  The refresh route and refresh tokens are external: the     *)
(* client asks for them, this server does not have them, so an answer may  *)
(* or may not carry one.                                                   *)
(***************************************************************************)
EXTENDS Accounts, FiniteSets

CONSTANTS
    MyPassword, \* what is typed into the forms of this tab
    SignIn,     \* sign-in requests that may run at once
    Call,       \* fetchWithAuth calls that may run at once
    Refresh     \* refresh requests that may run at once

ASSUME SlotAssumption == Refresh \subseteq Nat \ {0} /\ Call \subseteq Nat
ASSUME PasswordAssumption == MyPassword \in Password

VARIABLES
    store,      \* localStorage
    user,       \* the customer in the state of App
    page,       \* the route that is shown
    shown,      \* whose orders the page MyOrders shows
    signIn,     \* handleSubmit of Login and Register
    call,       \* fetchWithAuth
    refresh,    \* runRefreshRequest
    promise,    \* refreshPromise: the refresh the next caller will wait for
    raced       \* auxiliary: a sign-in began during a sign-in, or a logout
                \* happened during a refresh

vars == <<accounts, tokens, store, user, page, shown, signIn, call, refresh,
          promise, raced>>

\* "home" stands for every page that loads nothing of the user, "address" for
\* step 2 of Register, "cart" for the route of that name, which nothing answers.
Pages == {"home", "login", "register", "address", "orders", "cart", "admin"}

NoSession == [token |-> 0, refresh |-> Nobody, customer |-> Nobody]

NoSignIn == [pc |-> "idle", email |-> Nobody,
             token |-> 0, live |-> FALSE, mounted |-> FALSE]
NoCall == [pc |-> "idle", used |-> 0, refused |-> 0, on |-> 0, mounted |-> FALSE]
NoRefresh == Nobody

SignInRow == [pc : {"idle", "lookup", "select", "insert", "ok", "refused"},
              email : Email \cup {Nobody},
              token : Token \cup {0}, live : BOOLEAN, mounted : BOOLEAN]

\* used is the token of the request in flight, refused the one that got a 401,
\* on the refresh that is awaited; mounted: the page that made the call is shown.
CallRow == [pc : {"idle", "first", "wait", "second"}, used : Token \cup {0},
            refused : Token \cup {0}, on : Refresh \cup {0}, mounted : BOOLEAN]

Init == /\ AccountsInit
        /\ store = NoSession /\ user = Nobody /\ page = "home" /\ shown = Nobody
        /\ signIn = [s \in SignIn |-> NoSignIn]
        /\ call = [c \in Call |-> NoCall]
        /\ refresh = [r \in Refresh |-> NoRefresh]     \* the owner of the token sent
        /\ promise = 0
        /\ raced = FALSE

-----------------------------------------------------------------------------
(* localStorage: clearAuthData and storeAuthSession.                        *)

\* (Mutant: the customer is forgotten.)
ClearTokens == store' = [store EXCEPT !.token = 0, !.refresh = Nobody]
ClearAuth == store' = NoSession

\* (Mutant: a token that the answer lacks is stored as the text "undefined".)
StoreUndefined(token, refreshToken, customer) ==
    store' = [token |-> token, customer |-> customer,
              refresh |-> IF refreshToken = Nobody THEN "undefined" ELSE refreshToken]
StoreSession(token, refreshToken, customer) ==
    store' = [token |-> token, refresh |-> refreshToken, customer |-> customer]

\* React unmounts the page: what its calls bring is ignored from now on.
UnmountedSignIns == [s \in SignIn |-> [signIn[s] EXCEPT !.mounted = FALSE]]
UnmountedCalls == [c \in Call |-> [call[c] EXCEPT !.mounted = FALSE]]

\* A document load: App reads the customer from localStorage, the client's half
\* of everything in flight is gone.
AbandonedSignIns ==
    [s \in SignIn |-> IF signIn[s].pc \in {"lookup", "select", "insert"}
                      THEN [signIn[s] EXCEPT !.live = FALSE, !.mounted = FALSE]
                      ELSE NoSignIn]

Load(p, calls) == /\ page' = p /\ shown' = Nobody
                  /\ signIn' = AbandonedSignIns
                  /\ call' = calls
                  /\ refresh' = [r \in Refresh |-> NoRefresh] /\ promise' = 0

NoCalls == [c \in Call |-> NoCall]

\* clearAuthData(true): forget the session, and load /login unless it is shown;
\* there only the given calls end.
Expel(calls) ==
    /\ ClearAuth
    /\ IF page # "login"
       THEN Load("login", NoCalls) /\ user' = Nobody
       ELSE /\ call' = calls
            /\ UNCHANGED <<user, page, shown, signIn>>
    /\ UNCHANGED <<accountVars, raced>>

-----------------------------------------------------------------------------
(* Routes.                                                                  *)

\* The bar above every page: Login and Register are for nobody who is logged in,
\* the orders and Logout for somebody.
Offered == {"home"} \cup IF user = Nobody THEN {"login", "register"} ELSE {"orders"}

\* Links to pages that load nothing.
GoTo(p) ==
    /\ p \in Offered \ {"orders"} /\ p # page /\ ~(p = "register" /\ page = "address")
    /\ page' = p /\ shown' = Nobody
    /\ signIn' = UnmountedSignIns /\ call' = UnmountedCalls
    /\ UNCHANGED <<accountVars, store, user, refresh, promise, raced>>

Request == [NoCall EXCEPT !.pc = "first", !.used = store.token, !.mounted = TRUE]

\* MyOrders is mounted: without a token to /login, otherwise loadOrders.
OpenOrders(c) ==
    /\ "orders" \in Offered /\ page # "orders" /\ call[c].pc = "idle"
    /\ signIn' = UnmountedSignIns
    /\ IF store.token = 0
       THEN page' = "login" /\ shown' = Nobody /\ call' = UnmountedCalls
       ELSE /\ page' = "orders" /\ shown' = Nobody
            /\ call' = [UnmountedCalls EXCEPT ![c] = Request]
    /\ UNCHANGED <<accountVars, store, user, refresh, promise, raced>>

\* AdminPanel has no link: its address is loaded.  It sends two calls at once.
OpenAdmin(c, d) ==
    /\ c # d /\ page # "admin"
    /\ user' = store.customer
    /\ IF store.token = 0 THEN Load("login", NoCalls)
       ELSE Load("admin", [NoCalls EXCEPT ![c] = Request, ![d] = Request])
    /\ UNCHANGED <<accountVars, store, raced>>

\* MyOrders with orders to show; before, and without any, it offers the store.
OrdersShown == page = "orders" /\ shown # Nobody

\* "Buy Again", of an order that is not cancelled: GET /orders/my sends items
\* without a watch_id, so nothing is added to any cart; on to /cart.
BuyAgain ==
    /\ OrdersShown
    /\ page' = "cart" /\ shown' = Nobody
    /\ UNCHANGED <<accountVars, store, user, signIn, call, refresh, promise, raced>>

\* handleLogout; the page stays, with what it shows.
LogOut ==
    /\ user # Nobody
    /\ ClearAuth
    /\ user' = Nobody
    /\ raced' = (raced \/ promise # 0)
    /\ UNCHANGED <<accountVars, page, shown, signIn, call, refresh, promise>>

-----------------------------------------------------------------------------
(* handleSubmit of Login and Register: one request at a time of a mounted   *)
(* form, whose button is disabled meanwhile.                                *)

\* "Continue" and "Back" of Register, also while its request is under way; the
\* required fields of step 1 are not there to be checked in step 2.
ChangeStep ==
    /\ page \in {"register", "address"}
    /\ page' = IF page = "register" THEN "address" ELSE "register"
    /\ UNCHANGED <<accountVars, store, user, shown, signIn, call, refresh, promise, raced>>

Submit(s, e) ==
    /\ page \in {"login", "address"}
    /\ signIn[s].pc = "idle" /\ \A t \in SignIn : ~signIn[t].mounted
    /\ signIn' = [signIn EXCEPT ![s] =
                    [NoSignIn EXCEPT !.pc = IF page = "login" THEN "lookup" ELSE "select",
                                     !.email = e, !.live = TRUE, !.mounted = TRUE]]
    /\ raced' = (raced \/ \E t \in SignIn : signIn[t].live)
    /\ UNCHANGED <<accountVars, store, user, page, shown, call, refresh, promise>>

\* The server answers a request, if somebody still listens.
Reply(s, row) == signIn' = [signIn EXCEPT ![s] = IF signIn[s].live THEN row ELSE NoSignIn]

Refuse(s) == /\ Reply(s, [signIn[s] EXCEPT !.pc = "refused"])
             /\ UNCHANGED accountVars

ServeLogin(s) ==
    /\ signIn[s].pc = "lookup"
    /\ \/ /\ ~CredentialsMatch(signIn[s].email, MyPassword)
          /\ Refuse(s)
       \/ \E k \in Token :
             /\ LogIn(signIn[s].email, MyPassword, k)
             /\ Reply(s, [signIn[s] EXCEPT !.pc = "ok", !.token = k])
    /\ UNCHANGED <<store, user, page, shown, call, refresh, promise, raced>>

ServeSelect(s) ==
    /\ signIn[s].pc = "select"
    /\ IF Registered(signIn[s].email) THEN Refuse(s)
       ELSE /\ signIn' = [signIn EXCEPT ![s].pc = "insert"]
            /\ UNCHANGED accountVars
    /\ UNCHANGED <<store, user, page, shown, call, refresh, promise, raced>>

ServeInsert(s) ==
    /\ signIn[s].pc = "insert"
    /\ \/ InsertRefused(signIn[s].email) /\ Refuse(s)
       \/ \E k \in Token :
             /\ InsertAccount(signIn[s].email, MyPassword, k)
             /\ Reply(s, [signIn[s] EXCEPT !.pc = "ok", !.token = k])
    /\ UNCHANGED <<store, user, page, shown, call, refresh, promise, raced>>

\* The session is stored, App is told, the page becomes the store.
SignedIn(s) ==
    /\ signIn[s].pc = "ok"
    /\ \E refreshToken \in {signIn[s].email, Nobody} :
          StoreSession(signIn[s].token, refreshToken, signIn[s].email)
    /\ user' = signIn[s].email
    /\ page' = "home" /\ shown' = Nobody
    /\ signIn' = [UnmountedSignIns EXCEPT ![s] = NoSignIn]
    /\ call' = UnmountedCalls
    /\ UNCHANGED <<accountVars, refresh, promise, raced>>

\* Refused, or failed at any moment: the session in the store is cleared.
SignInFails(s) ==
    /\ signIn[s].live
    /\ ClearAuth
    /\ signIn' = [signIn EXCEPT ![s] = NoSignIn]
    /\ UNCHANGED <<accountVars, user, page, shown, call, refresh, promise, raced>>

AbandonedEnds(s) ==
    /\ signIn[s].pc # "idle" /\ ~signIn[s].live
    /\ signIn' = [signIn EXCEPT ![s] = NoSignIn]
    /\ UNCHANGED <<accountVars, store, user, page, shown, call, refresh, promise, raced>>

-----------------------------------------------------------------------------
(* fetchWithAuth.                                                           *)

\* What a call brings is shown by the page that made it, if it is still there.
\* (Mutant: by whatever page of that kind is there.)
ListensNow(c) == page = "orders"
Listens(c) == page = "orders" /\ call[c].mounted

\* An answer other than 401: the caller goes on.
CallAnswered(c) ==
    /\ call[c].pc \in {"first", "second"} /\ call[c].used # 0
    /\ call' = [call EXCEPT ![c] = NoCall]
    /\ shown' = IF Listens(c) THEN tokens[call[c].used].owner ELSE shown
    /\ UNCHANGED <<accountVars, store, user, page, signIn, refresh, promise, raced>>

\* A 401 may come at any time: the routes answer it for a token that is missing
\* or has expired, and also when the database fails.
\* First 401: refreshAccessTokenLocked, which starts a refresh only if none is
\* running; no request is sent without a refresh token.
\* (Mutant: every caller starts its own.)
StartsOwn == TRUE
NoneRunning == promise = 0
AwaitRefresh(c, r) == call' = [call EXCEPT ![c].pc = "wait", ![c].refused = call[c].used,
                                          ![c].on = r]
CallRefused(c) ==
    /\ call[c].pc = "first"
    /\ store.refresh # Nobody
    /\ IF NoneRunning
       THEN \E r \in Refresh :
               /\ refresh[r] = NoRefresh /\ \A q \in Refresh : refresh[q] = NoRefresh => r <= q
               /\ refresh' = [refresh EXCEPT ![r] = store.refresh]
               /\ promise' = r
               /\ AwaitRefresh(c, r)
       ELSE AwaitRefresh(c, promise) /\ UNCHANGED <<refresh, promise>>
    /\ UNCHANGED <<accountVars, store, user, page, shown, signIn, raced>>

\* First 401 without a refresh token, or second 401: the session is over.
CallExpelled(c) ==
    /\ \/ call[c].pc = "first" /\ store.refresh = Nobody
       \/ call[c].pc = "second"
    /\ Expel([call EXCEPT ![c] = NoCall])
    /\ page = "login" => UNCHANGED <<refresh, promise>>

CallLost(c) ==
    /\ call[c].pc \in {"first", "second"}
    /\ call' = [call EXCEPT ![c] = NoCall]
    /\ UNCHANGED <<accountVars, store, user, page, shown, signIn, refresh, promise, raced>>

\* The refresh succeeds: the session is stored, keeping what the answer leaves
\* out, and everybody who waits goes on with the new token.
Waiting(r) == {c \in Call : call[c].pc = "wait" /\ call[c].on = r}

Refreshed(r) ==
    /\ refresh[r] # NoRefresh
    /\ \E k \in Token : Sign(k, refresh[r], accounts[refresh[r]]) /\ UNCHANGED accounts
          /\ \E customer \in {refresh[r], store.customer} :
                StoreSession(k, refresh[r], customer)
          /\ call' = [c \in Call |->
                        IF c \in Waiting(r)
                        THEN [call[c] EXCEPT !.pc = "second", !.used = k, !.on = 0]
                        ELSE call[c]]
    /\ refresh' = [refresh EXCEPT ![r] = NoRefresh]
    /\ promise' = 0
    /\ UNCHANGED <<user, page, shown, signIn, raced>>

\* Whoever waits for r is rejected with it.
\* (Mutant: only the caller that sent the request.)
FirstRejected(r) ==
    [c \in Call |-> IF c \in Waiting(r) /\ \A d \in Waiting(r) : c <= d THEN NoCall ELSE call[c]]
Rejected(r) == [c \in Call |-> IF c \in Waiting(r) THEN NoCall ELSE call[c]]

RefreshRefused(r) ==
    /\ refresh[r] # NoRefresh
    /\ Expel(Rejected(r))
    /\ refresh' = [refresh EXCEPT ![r] = NoRefresh]
    /\ promise' = 0

RefreshLost(r) ==
    /\ refresh[r] # NoRefresh
    /\ call' = Rejected(r)
    /\ refresh' = [refresh EXCEPT ![r] = NoRefresh]
    /\ promise' = 0
    /\ UNCHANGED <<accountVars, store, user, page, shown, signIn, raced>>

-----------------------------------------------------------------------------
Outside ==
    /\ \E e \in Email :
          \/ \E password \in Password, k \in Token : OthersRegister(e, password, k)
          \/ GuestBuys(e)
    /\ UNCHANGED <<store, user, page, shown, signIn, call, refresh, promise, raced>>

CallSettles(c) == \/ CallAnswered(c) \/ CallRefused(c) \/ CallExpelled(c) \/ CallLost(c)
RefreshSettles(r) == Refreshed(r) \/ RefreshRefused(r) \/ RefreshLost(r)

Next ==
    \/ \E p \in Pages : GoTo(p)
    \/ \E c \in Call : OpenOrders(c) \/ CallSettles(c) \/ \E d \in Call : OpenAdmin(c, d)
    \/ LogOut \/ BuyAgain \/ ChangeStep
    \/ \E s \in SignIn : \/ \E e \in Email : Submit(s, e)
                         \/ ServeLogin(s) \/ ServeSelect(s) \/ ServeInsert(s)
                         \/ SignedIn(s) \/ SignInFails(s) \/ AbandonedEnds(s)
    \/ \E r \in Refresh : RefreshSettles(r)
    \/ Outside

Spec == Init /\ [][Next]_vars

\* Calls and refreshes end: the browser answers or rejects every fetch.
FairSpec == /\ Spec
            /\ \A c \in Call : WF_vars(CallSettles(c))
            /\ \A r \in Refresh : WF_vars(RefreshSettles(r))

-----------------------------------------------------------------------------
(* Properties.                                                              *)

TypeOK ==
    /\ AccountsTypeOK
    /\ store \in [token : Token \cup {0}, refresh : Email \cup {Nobody},
                  customer : Email \cup {Nobody}]
    /\ user \in Email \cup {Nobody}
    /\ page \in Pages
    /\ shown \in Email \cup {Nobody}
    /\ signIn \in [SignIn -> SignInRow]
    /\ call \in [Call -> CallRow]
    /\ refresh \in [Refresh -> Email \cup {Nobody}]
    /\ promise \in Refresh \cup {0}
    /\ raced \in BOOLEAN

\* However many calls get a 401 at once, one refresh is under way, and it is the
\* one that the next caller will join.
OneRefresh == {r \in Refresh : refresh[r] # NoRefresh} = {promise} \ {0}

\* A call is never repeated with the token that has just been refused.
RetryIsFresh == \A c \in Call : call[c].pc = "second" => call[c].used # call[c].refused

\* Token, refresh token, stored customer and the customer on the screen are those
\* of one account, or all absent, whatever ends in which order, unless a sign-in
\* began during another one or a logout came during a refresh (then a late answer
\* undoes the newer one: nothing in auth.ts compares them).
OneIdentity ==
    ~raced => /\ user = store.customer
              /\ store.token = 0 <=> store.customer = Nobody
              /\ store.token # 0 => tokens[store.token].owner = store.customer
              /\ store.refresh \in {Nobody, store.customer}

\* With the same exception, nobody who is logged in is shown the orders of
\* somebody else, though answers may arrive after a logout and a new sign-in.
OrdersOfUser == ~raced /\ user # Nobody => shown \in {Nobody, user}

\* No call waits for ever for the refresh it shares.
CallsEnd == \A c \in Call : []<>(call[c].pc # "wait")
=============================================================================
