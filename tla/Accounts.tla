------------------------------- MODULE Accounts -------------------------------
(***************************************************************************)
(* The accounts of the shop (server/routes/auth.ts): the customers table   *)
(* as far as signing in goes, and the JSON web tokens the server signs.    *)
(* A customers row may have no password: guest checkouts insert such rows. *)
(***************************************************************************)
EXTENDS Integers

CONSTANTS
    Email,      \* e-mail addresses
    Password,
    Token,      \* ids of tokens, in the order they are signed
    NoAccount,  \* there is no customers row
    Guest,      \* a row without a password_hash
    Nobody

ASSUME TokenAssumption == Token \subseteq Nat \ {0}
ASSUME NamesAssumption == /\ NoAccount \notin Password \cup {Guest}
                          /\ Guest \notin Password
                          /\ Nobody \notin Email

VARIABLES
    accounts,   \* the password of each customers row
    tokens      \* whom a token names, and (auxiliary) the password it was got with

accountVars == <<accounts, tokens>>

NoToken == [owner |-> Nobody, password |-> NoAccount]

AccountsTypeOK ==
    /\ accounts \in [Email -> Password \cup {NoAccount, Guest}]
    /\ tokens \in [Token -> [owner : Email \cup {Nobody},
                             password : Password \cup {NoAccount, Guest}]]

AccountsInit == /\ accounts = [e \in Email |-> NoAccount]
                /\ tokens = [k \in Token |-> NoToken]

Sign(k, e, password) ==
    /\ tokens[k] = NoToken /\ \A j \in Token : tokens[j] = NoToken => k <= j
    /\ tokens' = [tokens EXCEPT ![k] = [owner |-> e, password |-> password]]

\* POST /auth/register, first await: SELECT; 409 if there is a row.
Registered(e) == accounts[e] # NoAccount

\* POST /auth/register after bcrypt.hash: INSERT under the unique key.
\* (Mutant: an INSERT that updates the row on a conflict.)
InsertOrUpdate(e, password, k) ==
    /\ accounts' = [accounts EXCEPT ![e] = password]
    /\ Sign(k, e, password)
InsertAccount(e, password, k) ==
    /\ accounts[e] = NoAccount
    /\ accounts' = [accounts EXCEPT ![e] = password]
    /\ Sign(k, e, password)

\* The same INSERT when somebody else was faster: 500.
InsertRefused(e) == accounts[e] # NoAccount

\* POST /auth/login: 401 without a row, without a password or with another one.
\* (Mutant: a row without a password lets anybody in.)
CredentialsOrGuest(e, password) == accounts[e] \in {password, Guest}
CredentialsMatch(e, password) == accounts[e] = password

LogIn(e, password, k) == /\ CredentialsMatch(e, password)
                         /\ Sign(k, e, password)
                         /\ UNCHANGED accounts

\* Elsewhere: another browser registers an account and gets a token, a guest buys.
OthersRegister(e, password, k) == InsertAccount(e, password, k)

GuestBuys(e) == /\ accounts[e] = NoAccount
                /\ accounts' = [accounts EXCEPT ![e] = Guest]
                /\ UNCHANGED tokens

\* Whoever holds a token knew the password of the account it names, however
\* registrations, guest checkouts and sign-ins of one e-mail overlap: two
\* registrations may both find no row, but only one of them becomes the account.
TokensEarned ==
    \A k \in Token : tokens[k] # NoToken =>
        tokens[k].password \in Password /\ accounts[tokens[k].owner] = tokens[k].password
=============================================================================
