------------------------- MODULE ClientSession_proofs -------------------------
(***************************************************************************)
(* Theorems about ClientSession and Accounts, for any number of e-mail     *)
(* addresses, tokens, sign-ins, calls and refreshes at once.               *)
(***************************************************************************)
EXTENDS ClientSession, TLAPS

-----------------------------------------------------------------------------
(* Type correctness.                                                        *)

\* 0 and Nobody stand for none.
LEMMA Ids == /\ Token \subseteq Nat /\ 0 \notin Token
             /\ Refresh \subseteq Nat /\ 0 \notin Refresh
             /\ Nobody \notin Email
BY TokenAssumption, SlotAssumption, NamesAssumption
   DEF TokenAssumption, SlotAssumption, NamesAssumption

\* Rows of exchanges that do not run.
LEMMA IdleTyped == NoSignIn \in SignInRow /\ NoCall \in CallRow
BY DEF NoSignIn, NoCall, SignInRow, CallRow

\* A page that is left or loaded anew keeps the types of what is in flight.
LEMMA LeftTyped ==
    ASSUME TypeOK
    PROVE  /\ UnmountedSignIns \in [SignIn -> SignInRow]
           /\ AbandonedSignIns \in [SignIn -> SignInRow]
           /\ UnmountedCalls \in [Call -> CallRow]
           /\ NoCalls \in [Call -> CallRow]
<1>1. \A s \in SignIn : signIn[s] \in SignInRow
  BY DEF TypeOK
<1>2. \A row \in SignInRow : /\ [row EXCEPT !.mounted = FALSE] \in SignInRow
                             /\ [row EXCEPT !.live = FALSE, !.mounted = FALSE] \in SignInRow
  BY DEF SignInRow
<1>3. \A c \in Call : call[c] \in CallRow
  BY DEF TypeOK
<1>4. \A row \in CallRow : [row EXCEPT !.mounted = FALSE] \in CallRow
  BY DEF CallRow
<1> QED BY <1>1, <1>2, <1>3, <1>4, IdleTyped
           DEF UnmountedSignIns, AbandonedSignIns, UnmountedCalls, NoCalls

\* A tab that has just been opened, on a server without accounts.
LEMMA TypeInit == Init => TypeOK
<1> SUFFICES ASSUME Init PROVE TypeOK
  OBVIOUS
<1>1. AccountsTypeOK
  BY DEF Init, AccountsInit, AccountsTypeOK, NoToken
<1>2. store \in [token : Token \cup {0}, refresh : Email \cup {Nobody},
                 customer : Email \cup {Nobody}]
  BY DEF Init, NoSession
<1> QED BY <1>1, <1>2, IdleTyped DEF Init, TypeOK, Pages, NoRefresh

-----------------------------------------------------------------------------
(* What a step does to the accounts and the tokens.                         *)

\* What the tab presents to the server: refresh tokens in the store or on their
\* way, sign-ins that the server has accepted.
Presents(e) == \/ store.refresh = e
               \/ \E r \in Refresh : refresh[r] = e
               \/ \E s \in SignIn : signIn[s].pc = "ok" /\ signIn[s].email = e

\* Each of them is of an account that has a password.
PresentedKnown == \A e \in Email : Presents(e) => accounts[e] \in Password

\* Nobody signs in without an e-mail.
SignInsNamed == \A s \in SignIn : signIn[s].pc # "idle" => signIn[s].email \in Email

\* An account is inserted and a token signed for it, a token is signed for an
\* account that has a password, or a guest buys.
Signs(e, k) == Sign(k, e, accounts[e]) /\ UNCHANGED accounts /\ accounts[e] \in Password

AccountStep ==
    \/ UNCHANGED accountVars
    \/ \E e \in Email, p \in Password, k \in Token : InsertAccount(e, p, k)
    \/ \E e \in Email, k \in Token : Signs(e, k)
    \/ \E e \in Email : GuestBuys(e)

\* Every step is one of these.
LEMMA AccountSteps ==
    ASSUME TypeOK, SignInsNamed, PresentedKnown, [Next]_vars
    PROVE  AccountStep
<1>1. ASSUME NEW s \in SignIn, ServeLogin(s) PROVE AccountStep
  <2>1. CASE UNCHANGED accountVars
    BY <2>1 DEF AccountStep
  <2>2. CASE ~UNCHANGED accountVars
    <3>1. PICK k \in Token : LogIn(signIn[s].email, MyPassword, k)
      BY <1>1, <2>2 DEF ServeLogin, Refuse
    <3>2. PICK e \in Email : e = signIn[s].email
      BY <1>1 DEF ServeLogin, SignInsNamed
    <3>3. accounts[e] = MyPassword /\ Sign(k, e, MyPassword) /\ UNCHANGED accounts
      BY <3>1, <3>2 DEF LogIn, CredentialsMatch, Sign
    <3>4. Signs(e, k)
      BY <3>3, PasswordAssumption DEF Signs, PasswordAssumption
    <3> QED BY <3>4 DEF AccountStep
  <2> QED BY <2>1, <2>2
<1>2. ASSUME NEW s \in SignIn, ServeInsert(s) PROVE AccountStep
  <2>1. CASE UNCHANGED accountVars
    BY <2>1 DEF AccountStep
  <2>2. CASE ~UNCHANGED accountVars
    <3>1. PICK k \in Token : InsertAccount(signIn[s].email, MyPassword, k)
      BY <1>2, <2>2 DEF ServeInsert, Refuse
    <3>2. PICK e \in Email : e = signIn[s].email
      BY <1>2 DEF ServeInsert, SignInsNamed
    <3>3. InsertAccount(e, MyPassword, k)
      BY <3>1, <3>2 DEF InsertAccount, Sign
    <3> QED BY <3>3, PasswordAssumption DEF AccountStep, PasswordAssumption
  <2> QED BY <2>1, <2>2
<1>3. ASSUME NEW r \in Refresh, Refreshed(r) PROVE AccountStep
  <2>1. PICK k \in Token : Sign(k, refresh[r], accounts[refresh[r]]) /\ UNCHANGED accounts
    BY <1>3 DEF Refreshed
  <2>2. PICK e \in Email : e = refresh[r]
    BY <1>3 DEF Refreshed, NoRefresh, TypeOK
  <2>3. accounts[e] \in Password
    BY <2>2 DEF PresentedKnown, Presents
  <2>4. Signs(e, k)
    BY <2>1, <2>2, <2>3 DEF Signs, Sign
  <2> QED BY <2>4 DEF AccountStep
<1>4. CASE Outside
  BY <1>4 DEF Outside, OthersRegister, AccountStep
<1>5. CASE UNCHANGED vars
  BY <1>5 DEF vars, AccountStep, accountVars
<1>6. ASSUME NEW s \in SignIn, ServeSelect(s) PROVE UNCHANGED accountVars
  BY <1>6 DEF ServeSelect, Refuse
<1>7. ASSUME NEW s \in SignIn,
             SignedIn(s) \/ SignInFails(s) \/ AbandonedEnds(s) \/ \E e \in Email : Submit(s, e)
      PROVE  UNCHANGED accountVars
  BY <1>7 DEF SignedIn, SignInFails, AbandonedEnds, Submit
<1>8. ASSUME NEW c \in Call,
             OpenOrders(c) \/ CallSettles(c) \/ \E d \in Call : OpenAdmin(c, d)
      PROVE  UNCHANGED accountVars
  BY <1>8 DEF OpenOrders, CallSettles, CallAnswered, CallRefused, CallExpelled, Expel, CallLost,
              OpenAdmin
<1>9. ASSUME NEW r \in Refresh, RefreshRefused(r) \/ RefreshLost(r) PROVE UNCHANGED accountVars
  BY <1>9 DEF RefreshRefused, RefreshLost, Expel
<1>10. ASSUME LogOut \/ BuyAgain \/ ChangeStep \/ \E p \in Pages : GoTo(p)
       PROVE  UNCHANGED accountVars
  BY <1>10 DEF LogOut, BuyAgain, ChangeStep, GoTo
<1>11. CASE UNCHANGED accountVars
  BY <1>11 DEF AccountStep
<1> QED BY <1>1, <1>2, <1>3, <1>4, <1>5, <1>6, <1>7, <1>8, <1>9, <1>10, <1>11
           DEF Next, RefreshSettles

\* Tokens are signed for good, and an account once there keeps its password.
LEMMA AccountsGrow ==
    ASSUME TypeOK, AccountStep
    PROVE  /\ AccountsTypeOK'
           /\ \A k \in Token : tokens[k] # NoToken => tokens'[k] = tokens[k]
           /\ \A e \in Email : accounts[e] # NoAccount => accounts'[e] = accounts[e]
<1>1. accounts \in [Email -> Password \cup {NoAccount, Guest}]
  BY DEF TypeOK, AccountsTypeOK
<1>2. tokens \in [Token -> [owner : Email \cup {Nobody},
                            password : Password \cup {NoAccount, Guest}]]
  BY DEF TypeOK, AccountsTypeOK
<1>3. CASE UNCHANGED accountVars
  BY <1>1, <1>2, <1>3 DEF accountVars, AccountsTypeOK
<1>4. ASSUME NEW e \in Email, NEW p \in Password, NEW k \in Token, InsertAccount(e, p, k)
      PROVE  /\ AccountsTypeOK'
             /\ \A j \in Token : tokens[j] # NoToken => tokens'[j] = tokens[j]
             /\ \A f \in Email : accounts[f] # NoAccount => accounts'[f] = accounts[f]
  BY <1>1, <1>2, <1>4 DEF InsertAccount, Sign, AccountsTypeOK
<1>5. ASSUME NEW e \in Email, NEW k \in Token, Signs(e, k)
      PROVE  /\ AccountsTypeOK'
             /\ \A j \in Token : tokens[j] # NoToken => tokens'[j] = tokens[j]
             /\ \A f \in Email : accounts[f] # NoAccount => accounts'[f] = accounts[f]
  BY <1>1, <1>2, <1>5 DEF Signs, Sign, AccountsTypeOK
<1>6. ASSUME NEW e \in Email, GuestBuys(e)
      PROVE  /\ AccountsTypeOK'
             /\ \A j \in Token : tokens[j] # NoToken => tokens'[j] = tokens[j]
             /\ \A f \in Email : accounts[f] # NoAccount => accounts'[f] = accounts[f]
  BY <1>1, <1>2, <1>6 DEF GuestBuys, AccountsTypeOK
<1> QED BY <1>3, <1>4, <1>5, <1>6 DEF AccountStep

-----------------------------------------------------------------------------
(* Types of the tab.                                                        *)

Stores == [token : Token \cup {0}, refresh : Email \cup {Nobody}, customer : Email \cup {Nobody}]

\* Loading a document.
LEMMA LoadTyped ==
    ASSUME TypeOK, NEW p \in Pages, NEW calls \in [Call -> CallRow], Load(p, calls)
    PROVE  /\ page' \in Pages /\ shown' \in Email \cup {Nobody}
           /\ signIn' \in [SignIn -> SignInRow] /\ call' \in [Call -> CallRow]
           /\ refresh' \in [Refresh -> Email \cup {Nobody}] /\ promise' \in Refresh \cup {0}
BY LeftTyped DEF Load, NoRefresh

\* The end of a session.
LEMMA ExpelTyped ==
    ASSUME TypeOK, NEW calls \in [Call -> CallRow], Expel(calls)
    PROVE  /\ store' \in Stores /\ user' \in Email \cup {Nobody}
           /\ page' \in Pages /\ shown' \in Email \cup {Nobody}
           /\ signIn' \in [SignIn -> SignInRow] /\ call' \in [Call -> CallRow]
           /\ page # "login" => /\ refresh' \in [Refresh -> Email \cup {Nobody}]
                                /\ promise' \in Refresh \cup {0}
<1>1. store' \in Stores
  BY DEF Expel, ClearAuth, NoSession, Stores
<1>2. CASE page = "login"
  BY <1>1, <1>2 DEF Expel, TypeOK
<1>3. CASE page # "login"
  <2>1. Load("login", NoCalls) /\ user' = Nobody
    BY <1>3 DEF Expel
  <2>2. PICK none \in [Call -> CallRow] : none = NoCalls
    BY LeftTyped
  <2>3. Load("login", none)
    BY <2>1, <2>2 DEF Load
  <2> QED BY <1>1, <1>3, <2>1, <2>3, LoadTyped DEF Pages
<1> QED BY <1>2, <1>3

\* Storing what the server has sent.
LEMMA StoreTyped ==
    ASSUME NEW k \in Token, NEW e \in Email \cup {Nobody}, NEW f \in Email \cup {Nobody},
           StoreSession(k, e, f)
    PROVE  store' \in Stores
BY DEF StoreSession, Stores

\* Types of a tab are kept by the actions of the customer.
LEMMA MovesTyped ==
    ASSUME TypeOK, AccountStep,
           \/ \E p \in Pages : GoTo(p)
           \/ \E c \in Call : OpenOrders(c) \/ \E d \in Call : OpenAdmin(c, d)
           \/ LogOut \/ BuyAgain \/ ChangeStep
           \/ \E s \in SignIn, e \in Email : Submit(s, e)
    PROVE  TypeOK'
<1>0. AccountsTypeOK'
  BY AccountsGrow
<1>1. Request \in CallRow
  BY DEF Request, NoCall, CallRow, TypeOK
<1>2. ASSUME NEW p \in Pages, GoTo(p) PROVE TypeOK'
  BY <1>0, <1>2, LeftTyped DEF GoTo, TypeOK
<1>3. ASSUME NEW c \in Call, OpenOrders(c) PROVE TypeOK'
  <2>1. page' \in Pages /\ shown' \in Email \cup {Nobody}
    BY <1>3 DEF OpenOrders, Pages
  <2>2. call' \in [Call -> CallRow] /\ signIn' \in [SignIn -> SignInRow]
    BY <1>3, <1>1, LeftTyped DEF OpenOrders
  <2> QED BY <1>0, <1>3, <2>1, <2>2 DEF OpenOrders, TypeOK
<1>4. ASSUME NEW c \in Call, NEW d \in Call, OpenAdmin(c, d) PROVE TypeOK'
  <2>1. [NoCalls EXCEPT ![c] = Request, ![d] = Request] \in [Call -> CallRow]
    BY <1>1, LeftTyped
  <2>2. PICK p \in Pages, calls \in [Call -> CallRow] : Load(p, calls)
    <3>1. CASE store.token = 0
      <4>1. PICK none \in [Call -> CallRow] : none = NoCalls
        BY LeftTyped
      <4>2. Load("login", none)
        BY <1>4, <3>1, <4>1 DEF OpenAdmin, Load
      <4> QED BY <4>2 DEF Pages
    <3>2. CASE store.token # 0
      <4>1. PICK some \in [Call -> CallRow] : some = [NoCalls EXCEPT ![c] = Request, ![d] = Request]
        BY <2>1
      <4>2. Load("admin", some)
        BY <1>4, <3>2, <4>1 DEF OpenAdmin, Load
      <4> QED BY <4>2 DEF Pages
    <3> QED BY <3>1, <3>2
  <2>3. user' \in Email \cup {Nobody} /\ store' = store /\ raced' = raced
    BY <1>4 DEF OpenAdmin, TypeOK
  <2> QED BY <1>0, <2>2, <2>3, LoadTyped DEF TypeOK
<1>5. CASE LogOut
  <2>1. store' \in Stores
    BY <1>5 DEF LogOut, ClearAuth, NoSession, Stores
  <2> QED BY <1>0, <1>5, <2>1 DEF LogOut, TypeOK, Stores
<1>6. CASE BuyAgain \/ ChangeStep
  BY <1>0, <1>6 DEF BuyAgain, ChangeStep, TypeOK, Pages
<1>7. ASSUME NEW s \in SignIn, NEW e \in Email, Submit(s, e) PROVE TypeOK'
  <2>1. signIn' \in [SignIn -> SignInRow]
    BY <1>7 DEF Submit, TypeOK, NoSignIn, SignInRow
  <2> QED BY <1>0, <1>7, <2>1 DEF Submit, TypeOK
<1> QED BY <1>2, <1>3, <1>4, <1>5, <1>6, <1>7

\* And by the exchanges of a sign-in.
LEMMA SignInsTyped ==
    ASSUME TypeOK, AccountStep, NEW s \in SignIn,
           \/ ServeLogin(s) \/ ServeSelect(s) \/ ServeInsert(s)
           \/ SignedIn(s) \/ SignInFails(s) \/ AbandonedEnds(s)
    PROVE  TypeOK'
<1>0. AccountsTypeOK'
  BY AccountsGrow
<1>1. signIn[s] \in SignInRow
  BY DEF TypeOK
<1>2. /\ \A pc \in {"refused", "insert"} : [signIn[s] EXCEPT !.pc = pc] \in SignInRow
      /\ \A k \in Token : [signIn[s] EXCEPT !.pc = "ok", !.token = k] \in SignInRow
  BY <1>1 DEF SignInRow
<1>3. CASE ServeLogin(s) \/ ServeSelect(s) \/ ServeInsert(s)
  <2>1. signIn' \in [SignIn -> SignInRow]
    <3>1. PICK row \in SignInRow : signIn' = [signIn EXCEPT ![s] = row]
      BY <1>2, <1>3, IdleTyped DEF ServeLogin, ServeSelect, ServeInsert, Refuse, Reply
    <3> QED BY <3>1 DEF TypeOK
  <2> QED BY <1>0, <1>3, <2>1 DEF ServeLogin, ServeSelect, ServeInsert, TypeOK
<1>4. CASE SignedIn(s)
  <2>1. store' \in Stores
    <3>1. signIn[s].token \in Token \cup {0} /\ signIn[s].email \in Email \cup {Nobody}
      BY <1>1 DEF SignInRow
    <3> QED BY <1>4, <3>1 DEF SignedIn, StoreSession, Stores
  <2>2. signIn' \in [SignIn -> SignInRow] /\ call' \in [Call -> CallRow]
    BY <1>4, LeftTyped, IdleTyped DEF SignedIn
  <2>3. user' \in Email \cup {Nobody}
    BY <1>1, <1>4 DEF SignedIn, SignInRow
  <2> QED BY <1>0, <1>4, <2>1, <2>2, <2>3 DEF SignedIn, TypeOK, Pages, Stores
<1>5. CASE SignInFails(s) \/ AbandonedEnds(s)
  <2>1. signIn' \in [SignIn -> SignInRow]
    BY <1>5, IdleTyped DEF SignInFails, AbandonedEnds, TypeOK
  <2>2. store' \in Stores
    BY <1>5 DEF SignInFails, AbandonedEnds, ClearAuth, NoSession, TypeOK, Stores
  <2> QED BY <1>0, <1>5, <2>1, <2>2 DEF SignInFails, AbandonedEnds, TypeOK, Stores
<1> QED BY <1>3, <1>4, <1>5

\* And by the calls.
LEMMA CallsTyped ==
    ASSUME TypeOK, AccountStep, NEW c \in Call, CallSettles(c)
    PROVE  TypeOK'
<1>0. AccountsTypeOK'
  BY AccountsGrow
<1>1. call[c] \in CallRow /\ [call EXCEPT ![c] = NoCall] \in [Call -> CallRow]
  BY IdleTyped DEF TypeOK
<1>2. CASE CallAnswered(c)
  <2>1. shown' \in Email \cup {Nobody}
    BY <1>1, <1>2 DEF CallAnswered, TypeOK, AccountsTypeOK, CallRow
  <2> QED BY <1>0, <1>1, <1>2, <2>1 DEF CallAnswered, TypeOK
<1>3. CASE CallRefused(c)
  <2>1. \A q \in Refresh \cup {0} :
           [call EXCEPT ![c].pc = "wait", ![c].refused = call[c].used, ![c].on = q]
              \in [Call -> CallRow]
    BY <1>1 DEF TypeOK, CallRow
  <2>2. call' \in [Call -> CallRow]
    <3>1. PICK q \in Refresh \cup {0} : AwaitRefresh(c, q)
      BY <1>3 DEF CallRefused, TypeOK
    <3> QED BY <2>1, <3>1 DEF AwaitRefresh
  <2>3. refresh' \in [Refresh -> Email \cup {Nobody}] /\ promise' \in Refresh \cup {0}
    BY <1>3 DEF CallRefused, TypeOK
  <2> QED BY <1>0, <1>3, <2>2, <2>3 DEF CallRefused, TypeOK
<1>4. CASE CallExpelled(c)
  <2>1. PICK calls \in [Call -> CallRow] : calls = [call EXCEPT ![c] = NoCall]
    BY <1>1
  <2>2. Expel(calls)
    BY <1>4, <2>1 DEF CallExpelled, Expel
  <2>3. refresh' \in [Refresh -> Email \cup {Nobody}] /\ promise' \in Refresh \cup {0}
    BY <1>4, <2>2, ExpelTyped DEF CallExpelled, TypeOK
  <2>4. raced' = raced
    BY <2>2 DEF Expel
  <2> QED BY <1>0, <2>2, <2>3, <2>4, ExpelTyped DEF TypeOK, Stores
<1>5. CASE CallLost(c)
  BY <1>0, <1>1, <1>5 DEF CallLost, TypeOK
<1> QED BY <1>2, <1>3, <1>4, <1>5 DEF CallSettles

\* And by the refreshes.
LEMMA RefreshesTyped ==
    ASSUME TypeOK, AccountStep, NEW r \in Refresh, RefreshSettles(r)
    PROVE  TypeOK'
<1>0. AccountsTypeOK'
  BY AccountsGrow
<1>1. [refresh EXCEPT ![r] = NoRefresh] \in [Refresh -> Email \cup {Nobody}]
  BY DEF TypeOK, NoRefresh
<1>2. Rejected(r) \in [Call -> CallRow]
  BY IdleTyped DEF Rejected, TypeOK
<1>3. CASE Refreshed(r)
  <2>1. PICK k \in Token :
           /\ \E customer \in {refresh[r], store.customer} : StoreSession(k, refresh[r], customer)
           /\ call' = [c \in Call |->
                        IF c \in Waiting(r)
                        THEN [call[c] EXCEPT !.pc = "second", !.used = k, !.on = 0]
                        ELSE call[c]]
    BY <1>3 DEF Refreshed
  <2>2. store' \in Stores
    <3>1. refresh[r] \in Email \cup {Nobody} /\ store.customer \in Email \cup {Nobody}
      BY DEF TypeOK
    <3>2. PICK customer \in {refresh[r], store.customer} :
             StoreSession(k, refresh[r], customer)
      BY <2>1
    <3>3. store' = [token |-> k, refresh |-> refresh[r], customer |-> customer]
      BY <3>2 DEF StoreSession
    <3>4. customer \in Email \cup {Nobody}
      BY <3>1, <3>2
    <3> QED BY <3>1, <3>3, <3>4 DEF Stores
  <2>3. \A row \in CallRow : [row EXCEPT !.pc = "second", !.used = k, !.on = 0] \in CallRow
    BY DEF CallRow
  <2>4. call' \in [Call -> CallRow]
    BY <2>1, <2>3 DEF TypeOK
  <2> QED BY <1>0, <1>1, <1>3, <2>2, <2>4 DEF Refreshed, TypeOK, Stores
<1>4. CASE RefreshRefused(r)
  <2>1. PICK calls \in [Call -> CallRow] : calls = Rejected(r)
    BY <1>2
  <2>2. Expel(calls)
    BY <1>4, <2>1 DEF RefreshRefused, Expel
  <2>3. raced' = raced
    BY <2>2 DEF Expel
  <2> QED BY <1>0, <1>1, <1>4, <2>2, <2>3, ExpelTyped DEF RefreshRefused, TypeOK, Stores
<1>5. CASE RefreshLost(r)
  BY <1>0, <1>1, <1>2, <1>5 DEF RefreshLost, TypeOK
<1> QED BY <1>3, <1>4, <1>5 DEF RefreshSettles

\* And so by every step.
LEMMA TypeStep ==
    ASSUME TypeOK, AccountStep, [Next]_vars
    PROVE  TypeOK'
<1>1. CASE Outside
  BY <1>1, AccountsGrow DEF Outside, TypeOK
<1>2. CASE UNCHANGED vars
  BY <1>2 DEF vars, TypeOK, AccountsTypeOK
<1> QED BY <1>1, <1>2, MovesTyped, SignInsTyped, CallsTyped, RefreshesTyped DEF Next

-----------------------------------------------------------------------------
(* One refresh at a time.                                                   *)

\* The promise is that of the refresh under way.
LEMMA OneRefreshStep ==
    ASSUME TypeOK, OneRefresh, [Next]_vars
    PROVE  OneRefresh'
<1> USE Ids DEF NoRefresh
<1>1. CASE UNCHANGED <<refresh, promise>>
  BY <1>1 DEF OneRefresh
<1>2. ASSUME NEW p, NEW calls, Load(p, calls) PROVE OneRefresh'
  BY <1>2 DEF Load, OneRefresh
<1>3. ASSUME NEW c \in Call, CallRefused(c) PROVE OneRefresh'
  <2>1. CASE NoneRunning
    <3>1. PICK r \in Refresh : refresh' = [refresh EXCEPT ![r] = store.refresh] /\ promise' = r
      BY <1>3, <2>1 DEF CallRefused
    <3>2. store.refresh # Nobody /\ \A q \in Refresh : refresh[q] = Nobody
      BY <1>3, <2>1 DEF CallRefused, NoneRunning, OneRefresh
    <3> QED BY <3>1, <3>2 DEF OneRefresh, TypeOK
  <2>2. CASE ~NoneRunning
    BY <1>1, <1>3, <2>2 DEF CallRefused
  <2> QED BY <2>1, <2>2
<1>4. ASSUME NEW r \in Refresh, RefreshSettles(r) PROVE OneRefresh'
  <2>1. refresh' = [refresh EXCEPT ![r] = NoRefresh] /\ promise' = 0 /\ refresh[r] # NoRefresh
    BY <1>4 DEF RefreshSettles, Refreshed, RefreshRefused, RefreshLost
  <2> QED BY <2>1 DEF OneRefresh, TypeOK
<1>5. ASSUME NEW c \in Call, NEW d \in Call, OpenAdmin(c, d) PROVE OneRefresh'
  <2>1. refresh' = [r \in Refresh |-> NoRefresh] /\ promise' = 0
    BY <1>5 DEF OpenAdmin, Load
  <2> QED BY <2>1 DEF OneRefresh
<1>6. ASSUME NEW c \in Call, CallExpelled(c) PROVE OneRefresh'
  <2>1. CASE page = "login"
    BY <1>1, <1>6, <2>1 DEF CallExpelled
  <2>2. CASE page # "login"
    <3>1. refresh' = [r \in Refresh |-> NoRefresh] /\ promise' = 0
      BY <1>6, <2>2 DEF CallExpelled, Expel, Load
    <3> QED BY <3>1 DEF OneRefresh
  <2> QED BY <2>1, <2>2
<1>7. ASSUME NEW c \in Call, OpenOrders(c) \/ CallAnswered(c) \/ CallLost(c)
      PROVE  UNCHANGED <<refresh, promise>>
  BY <1>7 DEF OpenOrders, CallAnswered, CallLost
<1>8. ASSUME NEW s \in SignIn,
             \/ \E e \in Email : Submit(s, e)
             \/ ServeLogin(s) \/ ServeSelect(s) \/ ServeInsert(s)
             \/ SignedIn(s) \/ SignInFails(s) \/ AbandonedEnds(s)
      PROVE  UNCHANGED <<refresh, promise>>
  BY <1>8 DEF Submit, ServeLogin, ServeSelect, ServeInsert, SignedIn, SignInFails, AbandonedEnds
<1>9. ASSUME LogOut \/ BuyAgain \/ ChangeStep \/ Outside \/ \E p \in Pages : GoTo(p)
      PROVE  UNCHANGED <<refresh, promise>>
  BY <1>9 DEF LogOut, BuyAgain, ChangeStep, Outside, GoTo
<1>10. CASE UNCHANGED vars
  BY <1>1, <1>10 DEF vars
<1> QED BY <1>1, <1>3, <1>4, <1>5, <1>6, <1>7, <1>8, <1>9, <1>10 DEF Next, CallSettles

-----------------------------------------------------------------------------
(* Tokens are held by whom they were signed for.                            *)

Signed(k) == k \in Token /\ tokens[k] # NoToken

\* A signed token names an account.
TokensOwned == \A k \in Token : tokens[k] # NoToken => tokens[k].owner \in Email

\* The store and the calls hold tokens that have been signed, or none.
TokensHeld == /\ store.token # 0 => Signed(store.token)
              /\ \A c \in Call : /\ call[c].used # 0 => Signed(call[c].used)
                                 /\ call[c].refused # 0 => Signed(call[c].refused)

\* A sign-in that was accepted has the token of its account, and is awaited.
Accepted == \A s \in SignIn : signIn[s].pc = "ok" =>
                /\ signIn[s].live
                /\ Signed(signIn[s].token)
                /\ tokens[signIn[s].token].owner = signIn[s].email

\* Tokens name accounts and carry the password of their account.
LEMMA EarnedStep ==
    ASSUME TypeOK, TokensOwned, TokensEarned, AccountStep
    PROVE  TokensOwned' /\ TokensEarned'
<1>1. accounts \in [Email -> Password \cup {NoAccount, Guest}]
  BY DEF TypeOK, AccountsTypeOK
<1>2. tokens \in [Token -> [owner : Email \cup {Nobody},
                            password : Password \cup {NoAccount, Guest}]]
  BY DEF TypeOK, AccountsTypeOK
<1>3. NoAccount \notin Password /\ NoAccount # Guest
  BY NamesAssumption DEF NamesAssumption
<1>4. \A k \in Token : tokens[k] # NoToken =>
         tokens[k].owner \in Email /\ accounts[tokens[k].owner] \in Password
  BY DEF TokensOwned, TokensEarned
<1>5. CASE UNCHANGED accountVars
  BY <1>5 DEF accountVars, TokensOwned, TokensEarned
<1>6. ASSUME NEW e \in Email, NEW p \in Password, NEW k \in Token, InsertAccount(e, p, k)
      PROVE  TokensOwned' /\ TokensEarned'
  <2>1. accounts' = [accounts EXCEPT ![e] = p] /\ accounts[e] = NoAccount
        /\ tokens' = [tokens EXCEPT ![k] = [owner |-> e, password |-> p]]
    BY <1>6 DEF InsertAccount, Sign
  <2>2. \A j \in Token : tokens'[j] # NoToken => j = k \/ tokens'[j] = tokens[j]
    BY <1>2, <2>1
  <2>3. tokens'[k].owner = e /\ tokens'[k].password = p /\ accounts'[e] = p
    BY <1>1, <1>2, <2>1
  <2>4. \A j \in Token : j # k => tokens'[j] = tokens[j]
    BY <1>2, <2>1
  <2>5. \A f \in Email : accounts[f] \in Password => accounts'[f] = accounts[f]
    BY <1>1, <1>3, <2>1
  <2> QED BY <1>4, <2>3, <2>4, <2>5 DEF TokensOwned, TokensEarned
<1>7. ASSUME NEW e \in Email, NEW k \in Token, Signs(e, k)
      PROVE  TokensOwned' /\ TokensEarned'
  <2>1. /\ accounts' = accounts /\ accounts[e] \in Password
        /\ tokens' = [tokens EXCEPT ![k] = [owner |-> e, password |-> accounts[e]]]
    BY <1>7 DEF Signs, Sign
  <2>2. tokens'[k].owner = e /\ tokens'[k].password = accounts[e]
    BY <1>2, <2>1
  <2>3. \A j \in Token : j # k => tokens'[j] = tokens[j]
    BY <1>2, <2>1
  <2> QED BY <1>4, <2>1, <2>2, <2>3 DEF TokensOwned, TokensEarned
<1>8. ASSUME NEW e \in Email, GuestBuys(e) PROVE TokensOwned' /\ TokensEarned'
  <2>1. tokens' = tokens /\ \A f \in Email : accounts[f] \in Password => accounts'[f] = accounts[f]
    BY <1>1, <1>3, <1>8 DEF GuestBuys
  <2> QED BY <1>4, <2>1 DEF TokensOwned, TokensEarned
<1> QED BY <1>5, <1>6, <1>7, <1>8 DEF AccountStep

\* What was signed stays signed, for the same account.
LEMMA StaysSigned ==
    ASSUME TypeOK, AccountStep, NEW k, Signed(k)
    PROVE  Signed(k)' /\ tokens'[k] = tokens[k]
BY AccountsGrow DEF Signed

\* A sign-in as it was before, but for whether its page is there, or no more.
Kept(s) == \/ signIn'[s].pc = "idle"
           \/ /\ signIn'[s].pc = signIn[s].pc /\ signIn'[s].email = signIn[s].email
              /\ signIn'[s].token = signIn[s].token
              /\ signIn[s].pc = "ok" => signIn'[s].live = signIn[s].live

\* A sign-in that the server has just accepted.
JustAccepted(s) ==
    /\ signIn'[s].live /\ signIn'[s].email \in Email /\ signIn'[s].token \in Token
    /\ tokens'[signIn'[s].token] # NoToken
    /\ tokens'[signIn'[s].token].owner = signIn'[s].email
    /\ accounts'[signIn'[s].email] \in Password

\* A sign-in under way that nobody has accepted yet.
Asking(s) == signIn'[s].pc \notin {"idle", "ok"} /\ signIn'[s].email \in Email

\* Leaving pages keeps the sign-ins.
LEMMA LeavingKeeps ==
    ASSUME TypeOK, NEW s \in SignIn
    PROVE  /\ signIn' = UnmountedSignIns => Kept(s)
           /\ signIn' = AbandonedSignIns => Kept(s)
           /\ signIn' = signIn => Kept(s)
           /\ signIn'[s] = NoSignIn => Kept(s)
<1>1. signIn[s] \in SignInRow
  BY DEF TypeOK
<1>2. ASSUME signIn' = UnmountedSignIns PROVE Kept(s)
  <2>1. signIn'[s] = [signIn[s] EXCEPT !.mounted = FALSE]
    BY <1>2 DEF UnmountedSignIns
  <2> QED BY <1>1, <2>1 DEF SignInRow, Kept
<1>3. ASSUME signIn' = AbandonedSignIns PROVE Kept(s)
  <2>1. \/ signIn'[s] = NoSignIn
        \/ signIn[s].pc # "ok" /\ signIn'[s] = [signIn[s] EXCEPT !.live = FALSE, !.mounted = FALSE]
    BY <1>3 DEF AbandonedSignIns
  <2>2. signIn'[s] = NoSignIn => Kept(s)
    BY DEF Kept, NoSignIn
  <2>3. ASSUME signIn[s].pc # "ok",
               signIn'[s] = [signIn[s] EXCEPT !.live = FALSE, !.mounted = FALSE]
        PROVE  Kept(s)
    BY <1>1, <2>3 DEF SignInRow, Kept
  <2> QED BY <2>1, <2>2, <2>3
<1>4. ASSUME signIn'[s] = NoSignIn PROVE Kept(s)
  BY <1>4 DEF Kept, NoSignIn
<1> QED BY <1>2, <1>3, <1>4 DEF Kept

\* A step keeps a sign-in, or begins it, or the server accepts it.
LEMMA SignInSteps ==
    ASSUME TypeOK, SignInsNamed, [Next]_vars, NEW t \in SignIn
    PROVE  Kept(t) \/ JustAccepted(t) \/ Asking(t)
<1>0. signIn \in [SignIn -> SignInRow] /\ signIn[t] \in SignInRow
  BY DEF TypeOK
<1>1. CASE signIn' = signIn
  BY <1>1, LeavingKeeps
<1>2. CASE signIn' = UnmountedSignIns
  BY <1>2, LeavingKeeps
<1>3. CASE signIn' = AbandonedSignIns
  BY <1>3, LeavingKeeps
<1>4. ASSUME NEW s \in SignIn, SignInFails(s) \/ AbandonedEnds(s) PROVE Kept(t)
  <2>1. signIn' = [signIn EXCEPT ![s] = NoSignIn]
    BY <1>4 DEF SignInFails, AbandonedEnds
  <2>2. CASE t = s
    BY <1>0, <2>1, <2>2, LeavingKeeps
  <2>3. CASE t # s
    BY <1>0, <2>1, <2>3 DEF Kept
  <2> QED BY <2>2, <2>3
<1>5. ASSUME NEW s \in SignIn, SignedIn(s) PROVE Kept(t)
  <2>1. signIn' = [UnmountedSignIns EXCEPT ![s] = NoSignIn]
    BY <1>5 DEF SignedIn
  <2>2. CASE t = s
    BY <2>1, <2>2, LeavingKeeps DEF UnmountedSignIns
  <2>3. CASE t # s
    <3>1. signIn'[t] = [signIn[t] EXCEPT !.mounted = FALSE]
      BY <2>1, <2>3 DEF UnmountedSignIns
    <3> QED BY <1>0, <3>1 DEF SignInRow, Kept
  <2> QED BY <2>2, <2>3
<1>6. ASSUME NEW s \in SignIn, NEW e \in Email, Submit(s, e) PROVE Kept(t) \/ Asking(t)
  <2>1. \E pc \in {"lookup", "select"} :
           signIn' = [signIn EXCEPT ![s] = [NoSignIn EXCEPT !.pc = pc, !.email = e, !.live = TRUE,
                                                            !.mounted = TRUE]]
    BY <1>6 DEF Submit
  <2> QED BY <1>0, <2>1 DEF Kept, Asking, NoSignIn
<1>7. ASSUME NEW s \in SignIn, Refuse(s), signIn[s].pc # "idle" PROVE Kept(t) \/ Asking(t)
  <2>1. \/ signIn' = [signIn EXCEPT ![s] = NoSignIn]
        \/ signIn' = [signIn EXCEPT ![s] = [signIn[s] EXCEPT !.pc = "refused"]]
    BY <1>7 DEF Refuse, Reply
  <2>2. signIn[s].email \in Email /\ signIn[s] \in SignInRow
    BY <1>0, <1>7 DEF SignInsNamed
  <2> QED BY <1>0, <2>1, <2>2 DEF Kept, Asking, NoSignIn, SignInRow
<1>8. ASSUME NEW s \in SignIn, ServeSelect(s) PROVE Kept(t) \/ Asking(t)
  <2>1. signIn[s].email \in Email /\ signIn[s] \in SignInRow
    BY <1>0, <1>8 DEF SignInsNamed, ServeSelect
  <2>2. CASE signIn' = [signIn EXCEPT ![s].pc = "insert"]
    BY <1>0, <2>1, <2>2 DEF Kept, Asking, SignInRow
  <2> QED BY <1>7, <1>8, <2>2 DEF ServeSelect
<1>9. ASSUME NEW s \in SignIn, NEW k \in Token, signIn[s].pc \in {"lookup", "insert"},
             Reply(s, [signIn[s] EXCEPT !.pc = "ok", !.token = k]),
             tokens' = [tokens EXCEPT ![k] = [owner |-> signIn[s].email, password |-> MyPassword]],
             accounts'[signIn[s].email] = MyPassword
      PROVE  Kept(t) \/ JustAccepted(t)
  <2>1. signIn[s].email \in Email /\ signIn[s] \in SignInRow
    BY <1>0, <1>9 DEF SignInsNamed
  <2>2. CASE ~signIn[s].live \/ t # s
    BY <1>0, <1>9, <2>2 DEF Reply, Kept, NoSignIn
  <2>3. CASE signIn[s].live /\ t = s
    <3>1. signIn'[s] = [signIn[s] EXCEPT !.pc = "ok", !.token = k]
      BY <1>0, <1>9, <2>3 DEF Reply
    <3>2. signIn'[s].live /\ signIn'[s].email = signIn[s].email /\ signIn'[s].token = k
      BY <2>1, <2>3, <3>1 DEF SignInRow
    <3>3. tokens'[k].owner = signIn[s].email /\ tokens'[k] # NoToken
      BY <1>9, <2>1, Ids DEF TypeOK, AccountsTypeOK, NoToken
    <3> QED BY <1>9, <2>1, <2>3, <3>2, <3>3, PasswordAssumption DEF JustAccepted, PasswordAssumption
  <2> QED BY <2>2, <2>3
<1>10. ASSUME NEW s \in SignIn, ServeLogin(s) PROVE Kept(t) \/ JustAccepted(t) \/ Asking(t)
  <2>1. ASSUME NEW k \in Token, LogIn(signIn[s].email, MyPassword, k)
        PROVE  /\ tokens' = [tokens EXCEPT ![k] = [owner |-> signIn[s].email,
                                                   password |-> MyPassword]]
               /\ accounts'[signIn[s].email] = MyPassword
    BY <2>1 DEF LogIn, CredentialsMatch, Sign
  <2> QED BY <1>7, <1>9, <1>10, <2>1 DEF ServeLogin
<1>11. ASSUME NEW s \in SignIn, ServeInsert(s) PROVE Kept(t) \/ JustAccepted(t) \/ Asking(t)
  <2>1. signIn[s].email \in Email
    BY <1>11 DEF SignInsNamed, ServeInsert
  <2>2. ASSUME NEW k \in Token, InsertAccount(signIn[s].email, MyPassword, k)
        PROVE  /\ tokens' = [tokens EXCEPT ![k] = [owner |-> signIn[s].email,
                                                   password |-> MyPassword]]
               /\ accounts'[signIn[s].email] = MyPassword
    BY <2>1, <2>2 DEF InsertAccount, Sign, TypeOK, AccountsTypeOK
  <2> QED BY <1>7, <1>9, <1>11, <2>2 DEF ServeInsert
<1>12. ASSUME NEW c \in Call,
              \/ OpenOrders(c) \/ CallSettles(c) \/ \E d \in Call : OpenAdmin(c, d)
       PROVE  signIn' \in {signIn, UnmountedSignIns, AbandonedSignIns}
  BY <1>12 DEF OpenOrders, CallSettles, CallAnswered, CallRefused, CallExpelled, CallLost, Expel,
               OpenAdmin, Load
<1>13. ASSUME NEW r \in Refresh, RefreshSettles(r)
       PROVE  signIn' \in {signIn, UnmountedSignIns, AbandonedSignIns}
  BY <1>13 DEF RefreshSettles, Refreshed, RefreshRefused, RefreshLost, Expel, Load
<1>14. ASSUME LogOut \/ BuyAgain \/ ChangeStep \/ Outside \/ UNCHANGED vars
              \/ \E p \in Pages : GoTo(p)
       PROVE  signIn' \in {signIn, UnmountedSignIns, AbandonedSignIns}
  BY <1>14 DEF LogOut, BuyAgain, ChangeStep, Outside, GoTo, vars
<1> QED BY <1>1, <1>2, <1>3, <1>4, <1>5, <1>6, <1>8, <1>10, <1>11, <1>12, <1>13, <1>14 DEF Next

\* Sign-ins are named, and accepted ones have the token of their account.
LEMMA SignInsStep ==
    ASSUME TypeOK, SignInsNamed, Accepted, AccountStep, [Next]_vars
    PROVE  SignInsNamed' /\ Accepted'
<1> SUFFICES ASSUME NEW t \in SignIn
             PROVE  /\ signIn'[t].pc # "idle" => signIn'[t].email \in Email
                    /\ signIn'[t].pc = "ok" =>
                         /\ signIn'[t].live
                         /\ signIn'[t].token \in Token /\ tokens'[signIn'[t].token] # NoToken
                         /\ tokens'[signIn'[t].token].owner = signIn'[t].email
  BY DEF SignInsNamed, Accepted, Signed
<1>1. CASE Kept(t)
  <2>1. signIn[t].pc = "ok" =>
           /\ signIn[t].token \in Token /\ signIn[t].live
           /\ tokens'[signIn[t].token] # NoToken
           /\ tokens'[signIn[t].token].owner = signIn[t].email
    BY AccountsGrow DEF Accepted, Signed
  <2> QED BY <1>1, <2>1 DEF Kept, SignInsNamed
<1>2. CASE JustAccepted(t)
  BY <1>2 DEF JustAccepted
<1>3. CASE Asking(t)
  BY <1>3 DEF Asking
<1> QED BY <1>1, <1>2, <1>3, SignInSteps

-----------------------------------------------------------------------------
(* What a step does to a call.                                              *)

\* It is over; it is as it was, but for whether its page is there; it begins with
\* the token of the store; it waits for a refresh; it goes on with a new token.
Over(c) == call'[c].pc = "idle" /\ call'[c].used = 0 /\ call'[c].refused = 0
GoesOn(c) == /\ call'[c].pc = call[c].pc /\ call'[c].used = call[c].used
             /\ call'[c].refused = call[c].refused
             /\ call'[c].mounted => call[c].mounted
Begins(c) == /\ call'[c].pc = "first" /\ call'[c].used = store.token /\ call'[c].refused = 0
             /\ UNCHANGED store
Waits(c) == /\ call'[c].pc = "wait" /\ call'[c].used = call[c].used
            /\ call'[c].refused = call[c].used
            /\ call'[c].mounted => call[c].mounted
Retries(c) == \E k \in Token, r \in Refresh :
                  /\ tokens[k] = NoToken /\ tokens'[k] # NoToken /\ refresh[r] # Nobody
                  /\ tokens'[k].owner = refresh[r]
                  /\ call'[c].pc = "second" /\ call'[c].used = k
                  /\ call'[c].refused = call[c].refused
                  /\ call'[c].mounted => call[c].mounted

CallStep(c) == Over(c) \/ GoesOn(c) \/ Begins(c) \/ Waits(c) \/ Retries(c)

\* The ways to leave a call alone or to end it.
LEMMA LeavingCalls ==
    ASSUME TypeOK, NEW c \in Call
    PROVE  /\ call'[c] = call[c] => GoesOn(c)
           /\ call'[c] = [call[c] EXCEPT !.mounted = FALSE] => GoesOn(c)
           /\ call'[c] = NoCall => Over(c)
           /\ call'[c] = Request /\ UNCHANGED store => Begins(c)
<1>1. call[c] \in CallRow
  BY DEF TypeOK
<1>2. ASSUME call'[c] = [call[c] EXCEPT !.mounted = FALSE] PROVE GoesOn(c)
  BY <1>1, <1>2 DEF CallRow, GoesOn
<1>3. ASSUME call'[c] = NoCall PROVE Over(c)
  BY <1>3 DEF NoCall, Over
<1>4. ASSUME call'[c] = Request, UNCHANGED store PROVE Begins(c)
  BY <1>4 DEF Request, NoCall, Begins
<1> QED BY <1>2, <1>3, <1>4 DEF GoesOn

\* Every step is one of these for every call.
LEMMA CallSteps ==
    ASSUME TypeOK, [Next]_vars, NEW c \in Call
    PROVE  CallStep(c)
<1>0. call \in [Call -> CallRow] /\ call[c] \in CallRow
  BY DEF TypeOK
<1>1. CASE call' = call
  BY <1>1, LeavingCalls DEF CallStep
<1>2. CASE call' = UnmountedCalls
  BY <1>2, LeavingCalls DEF CallStep, UnmountedCalls
<1>3. CASE call' = NoCalls
  BY <1>3, LeavingCalls DEF CallStep, NoCalls
<1>4. ASSUME NEW d \in Call, OpenOrders(d) PROVE CallStep(c)
  <2>1. CASE store.token = 0
    BY <1>2, <1>4, <2>1 DEF OpenOrders
  <2>2. CASE store.token # 0
    <3>1. call' = [UnmountedCalls EXCEPT ![d] = Request] /\ UNCHANGED store
      BY <1>4, <2>2 DEF OpenOrders
    <3>2. call'[c] \in {Request, [call[c] EXCEPT !.mounted = FALSE]}
      BY <3>1 DEF UnmountedCalls
    <3> QED BY <3>1, <3>2, LeavingCalls DEF CallStep
  <2> QED BY <2>1, <2>2
<1>5. ASSUME NEW d \in Call, NEW e \in Call, OpenAdmin(d, e) PROVE CallStep(c)
  <2>1. UNCHANGED store /\ call' \in {NoCalls, [NoCalls EXCEPT ![d] = Request, ![e] = Request]}
    BY <1>5 DEF OpenAdmin, Load
  <2>2. call'[c] \in {NoCall, Request}
    BY <2>1 DEF NoCalls
  <2> QED BY <2>1, <2>2, LeavingCalls DEF CallStep
<1>6. ASSUME NEW d \in Call, CallAnswered(d) \/ CallLost(d) PROVE CallStep(c)
  <2>1. call' = [call EXCEPT ![d] = NoCall]
    BY <1>6 DEF CallAnswered, CallLost
  <2>2. call'[c] \in {NoCall, call[c]}
    BY <1>0, <2>1
  <2> QED BY <2>2, LeavingCalls DEF CallStep
<1>7. ASSUME NEW d \in Call, CallRefused(d) PROVE CallStep(c)
  <2>1. PICK q : AwaitRefresh(d, q)
    BY <1>7 DEF CallRefused
  <2>2. call' = [call EXCEPT ![d].pc = "wait", ![d].refused = call[d].used, ![d].on = q]
    BY <2>1 DEF AwaitRefresh
  <2>3. CASE c = d
    BY <1>0, <2>2, <2>3 DEF Waits, CallStep, CallRow
  <2>4. CASE c # d
    BY <1>0, <2>2, <2>4, LeavingCalls DEF CallStep
  <2> QED BY <2>3, <2>4
<1>8. ASSUME NEW d \in Call, CallExpelled(d) PROVE CallStep(c)
  <2>1. call' \in {NoCalls, [call EXCEPT ![d] = NoCall]}
    BY <1>8 DEF CallExpelled, Expel, Load
  <2>2. call'[c] \in {NoCall, call[c]}
    BY <1>0, <2>1 DEF NoCalls
  <2> QED BY <2>2, LeavingCalls DEF CallStep
<1>9. ASSUME NEW r \in Refresh, RefreshRefused(r) \/ RefreshLost(r) PROVE CallStep(c)
  <2>1. call' \in {NoCalls, Rejected(r)}
    BY <1>9 DEF RefreshRefused, RefreshLost, Expel, Load
  <2>2. call'[c] \in {NoCall, call[c]}
    BY <1>0, <2>1 DEF NoCalls, Rejected
  <2> QED BY <2>2, LeavingCalls DEF CallStep
<1>10. ASSUME NEW r \in Refresh, Refreshed(r) PROVE CallStep(c)
  <2>1. PICK k \in Token :
           /\ Sign(k, refresh[r], accounts[refresh[r]])
           /\ call' = [d \in Call |->
                        IF d \in Waiting(r)
                        THEN [call[d] EXCEPT !.pc = "second", !.used = k, !.on = 0]
                        ELSE call[d]]
    BY <1>10 DEF Refreshed
  <2>2. tokens[k] = NoToken
        /\ tokens' = [tokens EXCEPT ![k] = [owner |-> refresh[r],
                                            password |-> accounts[refresh[r]]]]
    BY <2>1 DEF Sign
  <2>3. refresh[r] # Nobody
    BY <1>10 DEF Refreshed, NoRefresh
  <2>4. tokens'[k] # NoToken /\ tokens'[k].owner = refresh[r]
    BY <2>2, <2>3 DEF NoToken, TypeOK, AccountsTypeOK
  <2>5. CASE c \in Waiting(r)
    <3>1. call'[c] = [call[c] EXCEPT !.pc = "second", !.used = k, !.on = 0]
      BY <2>1, <2>5
    <3>2. /\ call'[c].pc = "second" /\ call'[c].used = k /\ call'[c].refused = call[c].refused
          /\ call'[c].mounted = call[c].mounted
      BY <1>0, <3>1 DEF CallRow
    <3>3. Retries(c)
      BY <2>2, <2>3, <2>4, <3>2 DEF Retries
    <3> QED BY <3>3 DEF CallStep
  <2>6. CASE c \notin Waiting(r)
    BY <2>1, <2>6, LeavingCalls DEF CallStep
  <2> QED BY <2>5, <2>6
<1>11. ASSUME NEW s \in SignIn,
              \/ \E e \in Email : Submit(s, e)
              \/ ServeLogin(s) \/ ServeSelect(s) \/ ServeInsert(s)
              \/ SignedIn(s) \/ SignInFails(s) \/ AbandonedEnds(s)
       PROVE  call' \in {call, UnmountedCalls}
  BY <1>11 DEF Submit, ServeLogin, ServeSelect, ServeInsert, SignedIn, SignInFails, AbandonedEnds
<1>12. ASSUME LogOut \/ BuyAgain \/ ChangeStep \/ Outside \/ UNCHANGED vars
              \/ \E p \in Pages : GoTo(p)
       PROVE  call' \in {call, UnmountedCalls}
  BY <1>12 DEF LogOut, BuyAgain, ChangeStep, Outside, GoTo, vars
<1> QED BY <1>1, <1>2, <1>4, <1>5, <1>6, <1>7, <1>8, <1>9, <1>10, <1>11, <1>12
           DEF Next, CallSettles, RefreshSettles

-----------------------------------------------------------------------------
(* What a step does to the store.                                           *)

\* A session is stored: a token of e, and the refresh token of e or none.
Stored(e, customer) ==
    /\ store'.token \in Token /\ tokens'[store'.token] # NoToken
    /\ tokens'[store'.token].owner = e
    /\ store'.refresh \in {e, Nobody} /\ store'.customer = customer
    /\ accounts'[e] \in Password

\* A sign-in stores its account.
LEMMA SignedInStores ==
    ASSUME SignInsNamed, PresentedKnown, Accepted, NEW s \in SignIn, SignedIn(s)
    PROVE  \E e \in Email : e = signIn[s].email /\ Stored(e, e)
<1>1. PICK e \in Email : e = signIn[s].email
  BY DEF SignedIn, SignInsNamed
<1>2. PICK refreshToken \in {e, Nobody} :
         store' = [token |-> signIn[s].token, refresh |-> refreshToken, customer |-> e]
  BY <1>1 DEF SignedIn, StoreSession
<1>3. /\ Signed(signIn[s].token) /\ tokens[signIn[s].token].owner = e
      /\ tokens' = tokens /\ accounts' = accounts
  BY <1>1 DEF SignedIn, Accepted, accountVars
<1>4. accounts[e] \in Password
  BY <1>1 DEF SignedIn, PresentedKnown, Presents
<1>5. Stored(e, e)
  BY <1>2, <1>3, <1>4 DEF Stored, Signed
<1> QED BY <1>1, <1>5

\* A refresh stores the account of its token, with the customer of the answer or
\* the one that was there.
LEMMA RefreshedStores ==
    ASSUME TypeOK, PresentedKnown, NEW r \in Refresh, Refreshed(r)
    PROVE  \E e \in Email, customer \in {refresh[r], store.customer} :
              e = refresh[r] /\ Stored(e, customer)
<1>1. PICK e \in Email : e = refresh[r]
  BY DEF Refreshed, NoRefresh, TypeOK
<1>2. PICK k \in Token :
         /\ Sign(k, refresh[r], accounts[refresh[r]]) /\ UNCHANGED accounts
         /\ \E customer \in {refresh[r], store.customer} : StoreSession(k, refresh[r], customer)
  BY DEF Refreshed
<1>3. PICK customer \in {refresh[r], store.customer} :
         store' = [token |-> k, refresh |-> e, customer |-> customer]
  BY <1>1, <1>2 DEF StoreSession
<1>4. tokens' = [tokens EXCEPT ![k] = [owner |-> e, password |-> accounts[e]]]
  BY <1>1, <1>2 DEF Sign
<1>5. tokens'[k] # NoToken /\ tokens'[k].owner = e
  BY <1>4, Ids DEF NoToken, TypeOK, AccountsTypeOK
<1>6. accounts'[e] \in Password
  BY <1>1, <1>2 DEF PresentedKnown, Presents
<1>7. Stored(e, customer)
  BY <1>3, <1>5, <1>6 DEF Stored
<1> QED BY <1>1, <1>3, <1>7

StoreStep == store' = store \/ store' = NoSession \/ \E e \in Email : \E customer : Stored(e, customer)

\* Every step leaves the store, empties it, or stores a session.
LEMMA StoreSteps ==
    ASSUME TypeOK, SignInsNamed, PresentedKnown, Accepted, [Next]_vars
    PROVE  StoreStep
<1>1. ASSUME NEW s \in SignIn, SignedIn(s) PROVE StoreStep
  BY <1>1, SignedInStores DEF StoreStep
<1>2. ASSUME NEW r \in Refresh, Refreshed(r) PROVE StoreStep
  BY <1>2, RefreshedStores DEF StoreStep
<1>3. ASSUME NEW s \in SignIn,
             \/ \E e \in Email : Submit(s, e)
             \/ ServeLogin(s) \/ ServeSelect(s) \/ ServeInsert(s)
             \/ SignInFails(s) \/ AbandonedEnds(s)
      PROVE  store' \in {store, NoSession}
  BY <1>3 DEF Submit, ServeLogin, ServeSelect, ServeInsert, SignInFails, AbandonedEnds, ClearAuth
<1>4. ASSUME NEW c \in Call,
             OpenOrders(c) \/ CallSettles(c) \/ \E d \in Call : OpenAdmin(c, d)
      PROVE  store' \in {store, NoSession}
  BY <1>4 DEF OpenOrders, CallSettles, CallAnswered, CallRefused, CallExpelled, CallLost, Expel,
              OpenAdmin, ClearAuth
<1>5. ASSUME NEW r \in Refresh, RefreshRefused(r) \/ RefreshLost(r)
      PROVE  store' \in {store, NoSession}
  BY <1>5 DEF RefreshRefused, RefreshLost, Expel, ClearAuth
<1>6. ASSUME LogOut \/ BuyAgain \/ ChangeStep \/ Outside \/ UNCHANGED vars
             \/ \E p \in Pages : GoTo(p)
      PROVE  store' \in {store, NoSession}
  BY <1>6 DEF LogOut, BuyAgain, ChangeStep, Outside, GoTo, vars, ClearAuth
<1>7. CASE store' \in {store, NoSession}
  BY <1>7 DEF StoreStep
<1> QED BY <1>1, <1>2, <1>3, <1>4, <1>5, <1>6, <1>7 DEF Next, RefreshSettles

\* A refresh carries the refresh token of the store at its start.
LEMMA RefreshSteps ==
    ASSUME TypeOK, [Next]_vars, NEW q \in Refresh
    PROVE  refresh'[q] \in {Nobody, refresh[q], store.refresh}
<1>0. refresh \in [Refresh -> Email \cup {Nobody}]
  BY DEF TypeOK
<1>1. CASE refresh' = refresh
  BY <1>1
<1>2. CASE refresh' = [r \in Refresh |-> NoRefresh]
  BY <1>2 DEF NoRefresh
<1>3. ASSUME NEW c \in Call, CallRefused(c)
      PROVE  refresh' = refresh \/ \E r \in Refresh : refresh' = [refresh EXCEPT ![r] = store.refresh]
  BY <1>3 DEF CallRefused
<1>4. ASSUME NEW r \in Refresh, RefreshSettles(r)
      PROVE  refresh' = [refresh EXCEPT ![r] = Nobody]
  BY <1>4 DEF RefreshSettles, Refreshed, RefreshRefused, RefreshLost, NoRefresh
<1>5. ASSUME NEW c \in Call,
             \/ OpenOrders(c) \/ CallAnswered(c) \/ CallExpelled(c) \/ CallLost(c)
             \/ \E d \in Call : OpenAdmin(c, d)
      PROVE  refresh' \in {refresh, [r \in Refresh |-> NoRefresh]}
  BY <1>5 DEF OpenOrders, CallAnswered, CallExpelled, CallLost, Expel, OpenAdmin, Load
<1>6. ASSUME NEW s \in SignIn,
             \/ \E e \in Email : Submit(s, e)
             \/ ServeLogin(s) \/ ServeSelect(s) \/ ServeInsert(s)
             \/ SignedIn(s) \/ SignInFails(s) \/ AbandonedEnds(s)
      PROVE  refresh' = refresh
  BY <1>6 DEF Submit, ServeLogin, ServeSelect, ServeInsert, SignedIn, SignInFails, AbandonedEnds
<1>7. ASSUME LogOut \/ BuyAgain \/ ChangeStep \/ Outside \/ UNCHANGED vars
             \/ \E p \in Pages : GoTo(p)
      PROVE  refresh' = refresh
  BY <1>7 DEF LogOut, BuyAgain, ChangeStep, Outside, GoTo, vars
<1> QED BY <1>0, <1>1, <1>2, <1>3, <1>4, <1>5, <1>6, <1>7 DEF Next, CallSettles

-----------------------------------------------------------------------------
(* The invariant of the exchanges.                                          *)

Exchanges == /\ TypeOK /\ OneRefresh
             /\ TokensOwned /\ TokensEarned /\ TokensHeld
             /\ SignInsNamed /\ Accepted /\ PresentedKnown

\* Store and calls hold signed tokens.
LEMMA TokensHeldStep ==
    ASSUME Exchanges, AccountStep, [Next]_vars
    PROVE  TokensHeld'
<1>0. TypeOK /\ TokensHeld
  BY DEF Exchanges
<1>1. \A k : Signed(k) => k \in Token /\ tokens'[k] # NoToken
  BY <1>0, AccountsGrow DEF Signed
<1>2. store'.token # 0 => store'.token \in Token /\ tokens'[store'.token] # NoToken
  <2>1. StoreStep
    BY StoreSteps DEF Exchanges
  <2> QED BY <1>0, <1>1, <2>1 DEF StoreStep, Stored, NoSession, TokensHeld
<1>3. ASSUME NEW c \in Call
      PROVE  /\ call'[c].used # 0 =>
                   call'[c].used \in Token /\ tokens'[call'[c].used] # NoToken
             /\ call'[c].refused # 0 =>
                   call'[c].refused \in Token /\ tokens'[call'[c].refused] # NoToken
  <2>1. CallStep(c)
    BY <1>0, CallSteps
  <2>2. /\ call[c].used # 0 => call[c].used \in Token /\ tokens'[call[c].used] # NoToken
        /\ call[c].refused # 0 => call[c].refused \in Token /\ tokens'[call[c].refused] # NoToken
        /\ store.token # 0 => store.token \in Token /\ tokens'[store.token] # NoToken
    BY <1>0, <1>1 DEF TokensHeld
  <2>3. CASE Over(c) \/ GoesOn(c) \/ Begins(c) \/ Waits(c)
    BY <2>2, <2>3 DEF Over, GoesOn, Begins, Waits
  <2>4. CASE Retries(c)
    BY <2>2, <2>4 DEF Retries
  <2> QED BY <2>1, <2>3, <2>4 DEF CallStep
<1> QED BY <1>2, <1>3 DEF TokensHeld, Signed

\* Whatever is presented is of an account with a password.
LEMMA PresentedStep ==
    ASSUME Exchanges, AccountStep, [Next]_vars
    PROVE  PresentedKnown'
<1>0. TypeOK /\ PresentedKnown /\ SignInsNamed
  BY DEF Exchanges
<1>1. ASSUME NEW e \in Email, Presents(e) PROVE accounts'[e] \in Password
  <2>1. accounts[e] \in Password /\ NoAccount \notin Password
    BY <1>0, <1>1, NamesAssumption DEF PresentedKnown, NamesAssumption
  <2> QED BY <1>0, <2>1, AccountsGrow
<1>2. ASSUME NEW e \in Email, store'.refresh = e PROVE accounts'[e] \in Password
  <2>1. StoreStep
    BY StoreSteps DEF Exchanges
  <2>2. store'.refresh = store.refresh \/ accounts'[e] \in Password
    BY <1>2, <2>1, Ids DEF StoreStep, Stored, NoSession
  <2> QED BY <1>1, <1>2, <2>2 DEF Presents
<1>3. ASSUME NEW e \in Email, NEW r \in Refresh, refresh'[r] = e PROVE accounts'[e] \in Password
  <2>1. refresh[r] = e \/ store.refresh = e
    BY <1>0, <1>3, RefreshSteps, Ids
  <2> QED BY <1>1, <2>1 DEF Presents
<1>4. ASSUME NEW e \in Email, NEW s \in SignIn, signIn'[s].pc = "ok", signIn'[s].email = e
      PROVE  accounts'[e] \in Password
  <2>1. Kept(s) \/ JustAccepted(s) \/ Asking(s)
    BY <1>0, SignInSteps
  <2>2. Kept(s) => Presents(e)
    BY <1>4 DEF Kept, Presents
  <2> QED BY <1>1, <1>4, <2>1, <2>2 DEF JustAccepted, Asking
<1> QED BY <1>2, <1>3, <1>4 DEF PresentedKnown, Presents

\* The invariant holds in a tab that has just been opened.
LEMMA ExchangesInit == Init => Exchanges
<1> SUFFICES ASSUME Init PROVE Exchanges
  OBVIOUS
<1>1. TypeOK
  BY TypeInit
<1>2. \A k \in Token : tokens[k] = NoToken
  BY DEF Init, AccountsInit
<1>3. store = NoSession /\ promise = 0 /\ \A r \in Refresh : refresh[r] = Nobody
  BY DEF Init, NoRefresh
<1>4. /\ \A c \in Call : call[c].used = 0 /\ call[c].refused = 0
      /\ \A s \in SignIn : signIn[s].pc = "idle"
  BY DEF Init, NoCall, NoSignIn
<1> QED BY <1>1, <1>2, <1>3, <1>4, Ids
       DEF Exchanges, OneRefresh, NoRefresh, TokensOwned, TokensEarned, TokensHeld, NoSession,
           SignInsNamed, Accepted, PresentedKnown, Presents

\* Every step keeps it.
LEMMA ExchangesStep ==
    ASSUME Exchanges, [Next]_vars
    PROVE  Exchanges'
<1>1. AccountStep
  BY AccountSteps DEF Exchanges
<1>2. TypeOK' /\ OneRefresh'
  BY <1>1, TypeStep, OneRefreshStep DEF Exchanges
<1>3. TokensOwned' /\ TokensEarned' /\ TokensHeld'
  BY <1>1, EarnedStep, TokensHeldStep DEF Exchanges
<1>4. SignInsNamed' /\ Accepted' /\ PresentedKnown'
  BY <1>1, SignInsStep, PresentedStep DEF Exchanges
<1> QED BY <1>2, <1>3, <1>4 DEF Exchanges

\* So it always holds.
THEOREM ExchangesAlways == Spec => []Exchanges
<1> QED BY ExchangesInit, ExchangesStep, PTL DEF Spec

\* Every variable has its type.
THEOREM TypeCorrect == Spec => []TypeOK
<1>1. Exchanges => TypeOK
  BY DEF Exchanges
<1> QED BY <1>1, ExchangesAlways, PTL

\* Whoever holds a token knew the password of the account that it names, for any
\* number of registrations, guest checkouts and sign-ins of one e-mail at once.
THEOREM TokensAreEarned == Spec => []TokensEarned
<1>1. Exchanges => TokensEarned
  BY DEF Exchanges
<1> QED BY <1>1, ExchangesAlways, PTL

\* However many calls are refused at once, at most one refresh is under way.
THEOREM OneRefreshAtATime == Spec => []OneRefresh
<1>1. Exchanges => OneRefresh
  BY DEF Exchanges
<1> QED BY <1>1, ExchangesAlways, PTL

\* A step never makes a call repeat a token that has just been refused.
LEMMA FreshStep ==
    ASSUME Exchanges, RetryIsFresh, [Next]_vars
    PROVE  RetryIsFresh'
<1> SUFFICES ASSUME NEW c \in Call, call'[c].pc = "second"
             PROVE  call'[c].used # call'[c].refused
  BY DEF RetryIsFresh
<1>1. CallStep(c)
  BY CallSteps DEF Exchanges
<1>2. CASE GoesOn(c)
  BY <1>2 DEF GoesOn, RetryIsFresh
<1>3. CASE Retries(c)
  <2>1. PICK k \in Token : /\ tokens[k] = NoToken /\ call'[c].used = k
                           /\ call'[c].refused = call[c].refused
    BY <1>3 DEF Retries
  <2>2. call[c].refused # 0 => tokens[call[c].refused] # NoToken
    BY DEF Exchanges, TokensHeld, Signed
  <2> QED BY <2>1, <2>2, Ids
<1> QED BY <1>1, <1>2, <1>3 DEF CallStep, Over, Begins, Waits

\* A call is repeated only with a token signed after the one that was refused.
THEOREM RetriesAreFresh == Spec => []RetryIsFresh
<1>1. Init => RetryIsFresh
  BY DEF Init, NoCall, RetryIsFresh
<1> QED BY <1>1, FreshStep, ExchangesAlways, PTL DEF Spec

-----------------------------------------------------------------------------
(* One identity.                                                            *)

\* Store and screen name the same account.
OneAccount == /\ user = store.customer
              /\ store.token = 0 <=> store.customer = Nobody
              /\ store.token # 0 => tokens[store.token].owner = store.customer
              /\ store.refresh \in {Nobody, store.customer}

\* A refresh under way is for the user.
RefreshOfUser == \A r \in Refresh : refresh[r] # Nobody => refresh[r] = user

\* One sign-in is awaited at most, and by nobody who is logged in.
SignInAlone == /\ \A s, t \in SignIn : signIn[s].live /\ signIn[t].live => s = t
               /\ \A s \in SignIn : signIn[s].live => user = Nobody

\* The pages to sign in are shown to nobody who is logged in.
FormsForNobody == page \in {"login", "register", "address"} => user = Nobody

\* The orders that are shown are those of the user, and so are the answers that
\* the page will show.
OrdersAreMine ==
    user # Nobody =>
        /\ shown \in {Nobody, user}
        /\ page = "orders" => \A c \in Call : call[c].mounted /\ call[c].used # 0 =>
                                 tokens[call[c].used].owner = user

Together == OneAccount /\ RefreshOfUser /\ SignInAlone /\ FormsForNobody /\ OrdersAreMine

\* Unless sign-ins or a logout have raced.
Undisturbed == ~raced => Together

\* A step awaits no sign-in that was not awaited, but for Submit.
LEMMA LiveSteps ==
    ASSUME TypeOK, [Next]_vars, NEW t \in SignIn, signIn'[t].live, ~signIn[t].live
    PROVE  \E e \in Email : Submit(t, e)
<1>0. signIn \in [SignIn -> SignInRow] /\ signIn[t] \in SignInRow
  BY DEF TypeOK
<1>1. CASE signIn' = signIn
  BY <1>1
<1>2. CASE signIn' = UnmountedSignIns
  BY <1>0, <1>2 DEF UnmountedSignIns, SignInRow
<1>3. CASE signIn' = AbandonedSignIns
  BY <1>0, <1>3 DEF AbandonedSignIns, SignInRow, NoSignIn
<1>5. ASSUME NEW s \in SignIn, NEW row \in SignInRow, Reply(s, row), row.live = signIn[s].live
      PROVE  FALSE
  BY <1>0, <1>5 DEF Reply, NoSignIn
<1>6. ASSUME NEW s \in SignIn PROVE /\ [signIn[s] EXCEPT !.pc = "refused"] \in SignInRow
                                    /\ [signIn[s] EXCEPT !.pc = "insert"] \in SignInRow
                                    /\ \A k \in Token :
                                         [signIn[s] EXCEPT !.pc = "ok", !.token = k] \in SignInRow
  BY <1>0 DEF SignInRow
<1>7. ASSUME NEW s \in SignIn PROVE
         /\ [signIn[s] EXCEPT !.pc = "refused"].live = signIn[s].live
         /\ [signIn[s] EXCEPT !.pc = "insert"].live = signIn[s].live
         /\ \A k \in Token : [signIn[s] EXCEPT !.pc = "ok", !.token = k].live = signIn[s].live
  <2>1. signIn[s] \in SignInRow
    BY <1>0
  <2> QED BY <2>1 DEF SignInRow
<1>8. ASSUME NEW s \in SignIn, ServeLogin(s) \/ ServeInsert(s) PROVE FALSE
  BY <1>5, <1>6, <1>7, <1>8 DEF ServeLogin, ServeInsert, Refuse
<1>9. ASSUME NEW s \in SignIn, ServeSelect(s) PROVE FALSE
  <2>1. CASE signIn' = [signIn EXCEPT ![s].pc = "insert"]
    BY <1>0, <2>1 DEF SignInRow
  <2> QED BY <1>5, <1>6, <1>7, <1>9, <2>1 DEF ServeSelect, Refuse
<1>10. ASSUME NEW s \in SignIn, SignInFails(s) \/ AbandonedEnds(s) PROVE FALSE
  <2>1. signIn' = [signIn EXCEPT ![s] = NoSignIn]
    BY <1>10 DEF SignInFails, AbandonedEnds
  <2> QED BY <1>0, <2>1 DEF NoSignIn
<1>11. ASSUME NEW s \in SignIn, SignedIn(s) PROVE FALSE
  <2>1. signIn' = [UnmountedSignIns EXCEPT ![s] = NoSignIn]
    BY <1>11 DEF SignedIn
  <2>2. signIn'[t] \in {NoSignIn, [signIn[t] EXCEPT !.mounted = FALSE]}
    BY <2>1 DEF UnmountedSignIns
  <2> QED BY <1>0, <2>2 DEF NoSignIn, SignInRow
<1>12. ASSUME NEW s \in SignIn, NEW e \in Email, Submit(s, e) PROVE s = t
  <2>1. PICK row : signIn' = [signIn EXCEPT ![s] = row]
    BY <1>12 DEF Submit
  <2> QED BY <1>0, <2>1
<1>13. ASSUME NEW c \in Call,
              \/ OpenOrders(c) \/ CallSettles(c) \/ \E d \in Call : OpenAdmin(c, d)
       PROVE  signIn' \in {signIn, UnmountedSignIns, AbandonedSignIns}
  BY <1>13 DEF OpenOrders, CallSettles, CallAnswered, CallRefused, CallExpelled, CallLost, Expel,
               OpenAdmin, Load
<1>14. ASSUME NEW r \in Refresh, RefreshSettles(r)
       PROVE  signIn' \in {signIn, UnmountedSignIns, AbandonedSignIns}
  BY <1>14 DEF RefreshSettles, Refreshed, RefreshRefused, RefreshLost, Expel, Load
<1>15. ASSUME LogOut \/ BuyAgain \/ ChangeStep \/ Outside \/ UNCHANGED vars
              \/ \E p \in Pages : GoTo(p)
       PROVE  signIn' \in {signIn, UnmountedSignIns, AbandonedSignIns}
  BY <1>15 DEF LogOut, BuyAgain, ChangeStep, Outside, GoTo, vars
<1> QED BY <1>1, <1>2, <1>3, <1>8, <1>9, <1>10, <1>11, <1>12, <1>13, <1>14, <1>15 DEF Next

Forms == {"login", "register", "address"}

\* A session that is forgotten in all places.
LEMMA ForgottenStep ==
    ASSUME Exchanges, Together, [Next]_vars,
           store' = NoSession, user' = Nobody, \A r \in Refresh : refresh'[r] = Nobody,
           ~\E s \in SignIn, e \in Email : Submit(s, e)
    PROVE  Together'
<1>1. \A s \in SignIn : signIn'[s].live => signIn[s].live
  BY LiveSteps DEF Exchanges
<1>2. OneAccount'
  BY DEF OneAccount, NoSession
<1>3. RefreshOfUser' /\ FormsForNobody' /\ OrdersAreMine'
  BY DEF RefreshOfUser, FormsForNobody, OrdersAreMine
<1>4. SignInAlone'
  BY <1>1 DEF Together, SignInAlone
<1> QED BY <1>2, <1>3, <1>4 DEF Together

\* A step of the user who is there.
LEMMA SameUserStep ==
    ASSUME Exchanges, Together, AccountStep, [Next]_vars,
           user' = user, OneAccount', SignInAlone',
           page' \in Forms => user = Nobody,
           user # Nobody => shown' \in {Nobody, user},
           page' = "orders" =>
               page = "orders" \/ \A c \in Call : call'[c].mounted => Begins(c)
    PROVE  Together'
<1>1. TypeOK /\ OneAccount /\ RefreshOfUser
  BY DEF Exchanges, Together
<1>2. RefreshOfUser'
  BY <1>1, RefreshSteps DEF RefreshOfUser, OneAccount
<1>3. FormsForNobody'
  BY DEF FormsForNobody, Forms
<1>4. ASSUME user # Nobody, page' = "orders", NEW c \in Call, call'[c].mounted, call'[c].used # 0
      PROVE  tokens'[call'[c].used].owner = user
  <2>1. \A k : Signed(k) => tokens'[k] = tokens[k]
    BY <1>1, StaysSigned
  <2>2. CallStep(c)
    BY <1>1, CallSteps
  <2>3. CASE Begins(c)
    <3>1. store.token # 0 /\ Signed(store.token)
      BY <1>4, <2>3 DEF Begins, Exchanges, TokensHeld
    <3>2. tokens[store.token].owner = user
      BY <1>1, <3>1 DEF OneAccount
    <3> QED BY <2>1, <2>3, <3>1, <3>2 DEF Begins
  <2>4. CASE Retries(c)
    BY <1>1, <2>4 DEF Retries, RefreshOfUser
  <2>5. CASE page = "orders" /\ (GoesOn(c) \/ Waits(c))
    <3>1. call[c].mounted /\ call[c].used = call'[c].used
      BY <1>4, <2>5 DEF GoesOn, Waits
    <3>2. tokens[call[c].used].owner = user
      BY <1>4, <2>5, <3>1 DEF Together, OrdersAreMine
    <3>3. Signed(call[c].used)
      BY <1>4, <3>1 DEF Exchanges, TokensHeld
    <3> QED BY <2>1, <3>1, <3>2, <3>3
  <2> QED BY <1>4, <2>2, <2>3, <2>4, <2>5 DEF CallStep, Over
<1>5. OrdersAreMine'
  BY <1>4 DEF OrdersAreMine
<1> QED BY <1>2, <1>3, <1>5 DEF Together

\* Where neither the store nor the user changes, they still agree.
LEMMA AccountKept ==
    ASSUME Exchanges, OneAccount, AccountStep, store' = store, user' = user
    PROVE  OneAccount'
<1>1. store.token # 0 => tokens'[store.token] = tokens[store.token]
  BY StaysSigned DEF Exchanges, TokensHeld
<1> QED BY <1>1 DEF OneAccount

\* Where no sign-in begins and the user stays, at most one is awaited.
LEMMA AloneKept ==
    ASSUME Exchanges, SignInAlone, [Next]_vars, user' = user,
           ~\E s \in SignIn, e \in Email : Submit(s, e)
    PROVE  SignInAlone'
<1>1. \A s \in SignIn : signIn'[s].live => signIn[s].live
  BY LiveSteps DEF Exchanges
<1> QED BY <1>1 DEF SignInAlone

\* Every step but a sign-in, a logout and the end of a session is one of the user
\* who is there.
LEMMA QuietStep ==
    ASSUME Exchanges, Together, AccountStep, [Next]_vars, UNCHANGED <<store, user>>,
           ~\E s \in SignIn, e \in Email : Submit(s, e),
           page' \in Forms => user = Nobody,
           shown' \in {Nobody, shown},
           page' = "orders" =>
               page = "orders" \/ \A c \in Call : call'[c].mounted => Begins(c)
    PROVE  Together'
<1>1. OneAccount' /\ SignInAlone'
  BY AccountKept, AloneKept DEF Together
<1>2. user # Nobody => shown' \in {Nobody, user}
  BY DEF Together, OrdersAreMine
<1> QED BY <1>1, <1>2, SameUserStep

\* The customer moves from page to page.
LEMMA MovesTogether ==
    ASSUME Exchanges, Together, AccountStep, [Next]_vars,
           ~\E s \in SignIn, e \in Email : Submit(s, e),
           \/ \E p \in Pages : GoTo(p)
           \/ \E c \in Call : OpenOrders(c) \/ \E d \in Call : OpenAdmin(c, d)
           \/ BuyAgain \/ ChangeStep
    PROVE  Together'
<1>0. TypeOK /\ OneAccount /\ FormsForNobody
  BY DEF Exchanges, Together
<1>1. ASSUME NEW p \in Pages, GoTo(p) PROVE Together'
  <2>1. /\ UNCHANGED <<store, user>> /\ shown' = Nobody /\ page' = p
        /\ p \in Forms => user = Nobody
        /\ p # "orders"
    BY <1>1 DEF GoTo, Offered, Forms
  <2> QED BY <2>1, QuietStep
<1>2. ASSUME NEW c \in Call, OpenOrders(c) PROVE Together'
  <2>1. user # Nobody /\ page # "orders"
    BY <1>2 DEF OpenOrders, Offered
  <2>2. store.token # 0
    BY <1>0, <2>1 DEF OneAccount
  <2>3. /\ page' = "orders" /\ shown' = Nobody /\ UNCHANGED <<store, user>>
        /\ call' = [UnmountedCalls EXCEPT ![c] = Request]
    BY <1>2, <2>2 DEF OpenOrders
  <2>4. ASSUME NEW d \in Call, call'[d].mounted PROVE Begins(d)
    <3>1. CASE d = c
      <4>1. call'[d] = Request
        BY <2>3, <3>1 DEF UnmountedCalls
      <4> QED BY <1>0, <2>3, <4>1, LeavingCalls
    <3>2. CASE d # c
      <4>1. call'[d] = [call[d] EXCEPT !.mounted = FALSE] /\ call[d] \in CallRow
        BY <1>0, <2>3, <3>2 DEF UnmountedCalls, TypeOK
      <4> QED BY <2>4, <4>1 DEF CallRow
    <3> QED BY <3>1, <3>2
  <2>5. page' \notin Forms
    BY <2>3 DEF Forms
  <2> QED BY <2>3, <2>4, <2>5, QuietStep
<1>3. ASSUME NEW c \in Call, NEW d \in Call, OpenAdmin(c, d) PROVE Together'
  <2>1. /\ user' = store.customer /\ store' = store /\ shown' = Nobody
        /\ page' = IF store.token = 0 THEN "login" ELSE "admin"
    BY <1>3 DEF OpenAdmin, Load
  <2>2. user' = user /\ (page' \in Forms => user = Nobody)
    BY <1>0, <2>1 DEF OneAccount, Forms
  <2>3. page' # "orders"
    BY <2>1
  <2> QED BY <2>1, <2>2, <2>3, QuietStep
<1>4. CASE BuyAgain
  <2>1. UNCHANGED <<store, user>> /\ shown' = Nobody /\ page' = "cart"
    BY <1>4 DEF BuyAgain
  <2> QED BY <2>1, QuietStep DEF Forms
<1>5. CASE ChangeStep
  <2>1. /\ UNCHANGED <<store, user, shown>> /\ page' \in Forms /\ page' # "orders"
        /\ page \in Forms
    BY <1>5 DEF ChangeStep, Forms
  <2>2. user = Nobody
    BY <1>0, <2>1 DEF FormsForNobody, Forms
  <2> QED BY <2>1, <2>2, QuietStep
<1> QED BY <1>1, <1>2, <1>3, <1>4, <1>5

\* The customer signs in, or fails to, or logs out.
LEMMA SignInsTogether ==
    ASSUME Exchanges, Together, AccountStep, [Next]_vars, ~raced',
           \/ LogOut
           \/ \E s \in SignIn : \/ \E e \in Email : Submit(s, e)
                                \/ ServeLogin(s) \/ ServeSelect(s) \/ ServeInsert(s)
                                \/ SignedIn(s) \/ SignInFails(s) \/ AbandonedEnds(s)
    PROVE  Together'
<1>0. TypeOK /\ OneAccount /\ RefreshOfUser /\ SignInAlone /\ FormsForNobody /\ OneRefresh
  BY DEF Exchanges, Together
<1>1. ASSUME NEW s \in SignIn, NEW e \in Email, Submit(s, e) PROVE Together'
  <2>1. /\ UNCHANGED <<store, user, page, shown>> /\ page \in Forms
        /\ \A t \in SignIn : ~signIn[t].live
    BY <1>1 DEF Submit, Forms
  <2>2. user = Nobody
    BY <1>0, <2>1 DEF FormsForNobody, Forms
  <2>3. \A t \in SignIn : t # s => signIn'[t] = signIn[t]
    BY <1>0, <1>1 DEF Submit, TypeOK
  <2>4. SignInAlone'
    BY <2>1, <2>2, <2>3 DEF SignInAlone
  <2>5. OneAccount'
    BY <1>0, <2>1, AccountKept
  <2>6. page' # "orders"
    BY <2>1 DEF Forms
  <2> QED BY <2>1, <2>2, <2>4, <2>5, <2>6, SameUserStep
<1>2. CASE \E s \in SignIn, e \in Email : Submit(s, e)
  BY <1>1, <1>2
<1>3. CASE ~\E s \in SignIn, e \in Email : Submit(s, e)
  <2>1. CASE LogOut
    <3>1. promise = 0
      BY <2>1, Ids DEF LogOut
    <3>2. \A r \in Refresh : refresh[r] = Nobody
      BY <1>0, <3>1 DEF OneRefresh, NoRefresh
    <3> QED BY <1>3, <2>1, <3>2, ForgottenStep DEF LogOut, ClearAuth
  <2>2. ASSUME NEW s \in SignIn, ServeLogin(s) \/ ServeSelect(s) \/ ServeInsert(s) \/ AbandonedEnds(s)
        PROVE  Together'
    <3>1. UNCHANGED <<store, user, page, shown>>
      BY <2>2 DEF ServeLogin, ServeSelect, ServeInsert, AbandonedEnds
    <3>2. page' \in Forms => user = Nobody
      BY <1>0, <3>1 DEF FormsForNobody, Forms
    <3> QED BY <1>3, <3>1, <3>2, QuietStep
  <2>3. ASSUME NEW s \in SignIn, SignInFails(s) PROVE Together'
    <3>1. user = Nobody
      BY <1>0, <2>3 DEF SignInFails, SignInAlone
    <3>2. \A r \in Refresh : refresh'[r] = Nobody
      BY <1>0, <2>3, <3>1 DEF SignInFails, RefreshOfUser
    <3>3. store' = NoSession /\ user' = Nobody
      BY <2>3, <3>1 DEF SignInFails, ClearAuth
    <3> QED BY <1>3, <3>2, <3>3, ForgottenStep
  <2>4. ASSUME NEW s \in SignIn, SignedIn(s) PROVE Together'
    <3>1. PICK e \in Email : e = signIn[s].email /\ Stored(e, e)
      BY <2>4, SignedInStores DEF Exchanges
    <3>2. signIn[s].live /\ user = Nobody
      BY <1>0, <2>4 DEF SignedIn, Exchanges, Accepted, SignInAlone
    <3>3. user' = e /\ page' = "home" /\ shown' = Nobody /\ refresh' = refresh
      BY <2>4, <3>1 DEF SignedIn
    <3>4. OneAccount'
      BY <3>1, <3>3, Ids DEF OneAccount, Stored
    <3>5. RefreshOfUser'
      BY <1>0, <3>2, <3>3 DEF RefreshOfUser
    <3>6. ASSUME NEW t \in SignIn PROVE ~signIn'[t].live
      <4>1. t = s \/ ~signIn[t].live
        BY <1>0, <3>2 DEF SignInAlone
      <4>2. ~signIn'[s].live
        BY <2>4 DEF SignedIn, UnmountedSignIns, NoSignIn
      <4>3. signIn'[t].live => signIn[t].live
        BY <1>0, <1>3, LiveSteps
      <4> QED BY <4>1, <4>2, <4>3
    <3>7. SignInAlone' /\ FormsForNobody' /\ OrdersAreMine'
      BY <3>3, <3>6 DEF SignInAlone, FormsForNobody, OrdersAreMine
    <3> QED BY <3>4, <3>5, <3>7 DEF Together
  <2> QED BY <1>3, <2>1, <2>2, <2>3, <2>4
<1> QED BY <1>2, <1>3

\* The calls and the refresh are answered, refused or lost.
LEMMA ExchangesTogether ==
    ASSUME Exchanges, Together, AccountStep, [Next]_vars,
           ~\E s \in SignIn, e \in Email : Submit(s, e),
           (\E c \in Call : CallSettles(c)) \/ (\E r \in Refresh : RefreshSettles(r))
    PROVE  Together'
<1>0. TypeOK /\ OneAccount /\ RefreshOfUser /\ FormsForNobody /\ TokensHeld
  BY DEF Exchanges, Together
<1>1. page \in Forms => user = Nobody
  BY <1>0 DEF FormsForNobody, Forms
<1>2. ASSUME NEW c \in Call, CallAnswered(c) PROVE Together'
  <2>1. UNCHANGED <<store, user, page>>
    BY <1>2 DEF CallAnswered
  <2>2. user # Nobody => shown' \in {Nobody, user}
    BY <1>2 DEF CallAnswered, Listens, Together, OrdersAreMine
  <2>3. OneAccount' /\ SignInAlone'
    BY <2>1, AccountKept, AloneKept DEF Together
  <2> QED BY <1>1, <2>1, <2>2, <2>3, SameUserStep
<1>3. ASSUME NEW c \in Call, CallRefused(c) \/ CallLost(c) PROVE Together'
  <2>1. UNCHANGED <<store, user, page, shown>>
    BY <1>3 DEF CallRefused, CallLost
  <2> QED BY <1>1, <2>1, QuietStep
<1>4. ASSUME NEW r \in Refresh, RefreshLost(r) PROVE Together'
  <2>1. UNCHANGED <<store, user, page, shown>>
    BY <1>4 DEF RefreshLost
  <2> QED BY <1>1, <2>1, QuietStep
<1>5. ASSUME NEW calls, Expel(calls)
      PROVE  /\ store' = NoSession /\ user' = Nobody
             /\ page # "login" => \A r \in Refresh : refresh'[r] = Nobody
  <2>1. store' = NoSession
    BY <1>5 DEF Expel, ClearAuth
  <2>2. CASE page = "login"
    BY <1>1, <1>5, <2>1, <2>2 DEF Expel, Forms
  <2>3. CASE page # "login"
    BY <1>5, <2>1, <2>3 DEF Expel, Load, NoRefresh
  <2> QED BY <2>2, <2>3
<1>6. page = "login" => \A r \in Refresh : refresh[r] = Nobody
  BY <1>0, <1>1 DEF RefreshOfUser, Forms
<1>7. ASSUME NEW c \in Call, CallExpelled(c) PROVE Together'
  <2>1. PICK calls : Expel(calls)
    BY <1>7 DEF CallExpelled
  <2>2. page = "login" => refresh' = refresh
    BY <1>7 DEF CallExpelled
  <2> QED BY <1>5, <1>6, <2>1, <2>2, ForgottenStep
<1>8. ASSUME NEW r \in Refresh, RefreshRefused(r) PROVE Together'
  <2>1. PICK calls : Expel(calls)
    BY <1>8 DEF RefreshRefused
  <2>2. page = "login" => FALSE
    BY <1>6, <1>8 DEF RefreshRefused, NoRefresh
  <2> QED BY <1>5, <2>1, <2>2, ForgottenStep
<1>9. ASSUME NEW r \in Refresh, Refreshed(r) PROVE Together'
  <2>1. PICK e \in Email, customer \in {refresh[r], store.customer} :
           e = refresh[r] /\ Stored(e, customer)
    BY <1>9, RefreshedStores DEF Exchanges
  <2>2. e = user /\ customer = user
    BY <1>0, <2>1, Ids DEF RefreshOfUser, OneAccount
  <2>3. UNCHANGED <<user, page, shown>>
    BY <1>9 DEF Refreshed
  <2>4. OneAccount'
    BY <2>1, <2>2, <2>3, Ids DEF OneAccount, Stored
  <2>5. SignInAlone'
    BY <2>3, AloneKept DEF Together
  <2>6. user # Nobody => shown' \in {Nobody, user}
    BY <2>3 DEF Together, OrdersAreMine
  <2> QED BY <1>1, <2>3, <2>4, <2>5, <2>6, SameUserStep
<1> QED BY <1>2, <1>3, <1>4, <1>7, <1>8, <1>9 DEF CallSettles, RefreshSettles

\* Every step keeps store, screen and exchanges together, unless they have raced.
LEMMA UndisturbedStep ==
    ASSUME Exchanges, Undisturbed, [Next]_vars
    PROVE  Undisturbed'
<1>1. AccountStep
  BY AccountSteps DEF Exchanges
<1>2. CASE \E s \in SignIn, e \in Email : Submit(s, e)
  <2>1. ~raced' => ~raced
    BY <1>2 DEF Submit
  <2> QED BY <1>1, <1>2, <2>1, SignInsTogether DEF Undisturbed
<1>3. CASE ~\E s \in SignIn, e \in Email : Submit(s, e)
  <2>1. ASSUME LogOut \/ \E s \in SignIn : \/ ServeLogin(s) \/ ServeSelect(s) \/ ServeInsert(s)
                                           \/ SignedIn(s) \/ SignInFails(s) \/ AbandonedEnds(s)
        PROVE  Undisturbed'
    <3>1. ~raced' => ~raced
      BY <2>1 DEF LogOut, ServeLogin, ServeSelect, ServeInsert, SignedIn, SignInFails,
                  AbandonedEnds
    <3> QED BY <1>1, <2>1, <3>1, SignInsTogether DEF Undisturbed
  <2>2. ASSUME \/ \E p \in Pages : GoTo(p)
               \/ \E c \in Call : OpenOrders(c) \/ \E d \in Call : OpenAdmin(c, d)
               \/ BuyAgain \/ ChangeStep
        PROVE  Undisturbed'
    <3>1. raced' = raced
      BY <2>2 DEF GoTo, OpenOrders, OpenAdmin, BuyAgain, ChangeStep
    <3> QED BY <1>1, <1>3, <2>2, <3>1, MovesTogether DEF Undisturbed
  <2>3. ASSUME (\E c \in Call : CallSettles(c)) \/ (\E r \in Refresh : RefreshSettles(r))
        PROVE  Undisturbed'
    <3>1. raced' = raced
      BY <2>3 DEF CallSettles, CallAnswered, CallRefused, CallExpelled, CallLost, Expel,
                  RefreshSettles, Refreshed, RefreshRefused, RefreshLost
    <3> QED BY <1>1, <1>3, <2>3, <3>1, ExchangesTogether DEF Undisturbed
  <2>4. CASE Outside \/ UNCHANGED vars
    <3>1. UNCHANGED <<store, user, page, shown, raced>>
      BY <2>4 DEF Outside, vars
    <3>2. Together => (page' \in Forms => user = Nobody)
      BY <3>1 DEF Together, FormsForNobody, Forms
    <3> QED BY <1>1, <1>3, <3>1, <3>2, QuietStep DEF Undisturbed
  <2> QED BY <1>3, <2>1, <2>2, <2>3, <2>4 DEF Next
<1> QED BY <1>2, <1>3

\* Nobody is logged in where a tab is opened.
LEMMA UndisturbedInit == Init => Undisturbed
BY DEF Init, Undisturbed, Together, OneAccount, NoSession, RefreshOfUser, NoRefresh, SignInAlone,
       NoSignIn, FormsForNobody, OrdersAreMine

\* The tokens, the stored customer and the customer on the screen are those of one
\* account, whatever sign-ins, calls and refreshes overlap, unless a sign-in began
\* during another one or a logout came during a refresh.
THEOREM OneIdentityAlways == Spec => []OneIdentity
<1>1. Undisturbed => OneIdentity
  BY DEF Undisturbed, Together, OneAccount, OneIdentity
<1> QED BY <1>1, UndisturbedInit, UndisturbedStep, ExchangesAlways, PTL DEF Spec

\* With the same exception, nobody who is logged in sees the orders of another.
THEOREM OrdersAreOfUser == Spec => []OrdersOfUser
<1>1. Undisturbed => OrdersOfUser
  BY DEF Undisturbed, Together, OrdersAreMine, OrdersOfUser
<1> QED BY <1>1, UndisturbedInit, UndisturbedStep, ExchangesAlways, PTL DEF Spec
=============================================================================
