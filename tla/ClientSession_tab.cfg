SPECIFICATION FairSpec
CONSTANTS
    ann = ann
    bob = bob
    mine = mine
    theirs = theirs
    NoAccount = NoAccount
    Guest = Guest
    Nobody = Nobody
    Email = {ann, bob}
    Password = {mine, theirs}
    MyPassword = mine
    Token = {1, 2, 3, 4}
    SignIn = {1}
    Call = {1, 2}
    Refresh = {1, 2}
INVARIANTS
    TypeOK
    TokensEarned
    OneRefresh
    OneIdentity
    OrdersOfUser
PROPERTIES
    CallsEnd
