SPECIFICATION FairSpec
CONSTANTS
    Order = {1, 2}
    Intent = {1, 2}
    PayPalOrder = {1}
    AdminStatus = {"pending"}
    Task = {1, 2}
    NoTask = 0
    PayPalEnabled = TRUE
    MaxCart = 2
    MaxVisits = 1
    MaxFailures = 1
INVARIANTS
    TypeOK
    RecordedPaymentIsReal
    CardMoneyNotLost
    CardChargedOnce
    AmountAgreed
    FormPaysItsOrder
    OrdersPerVisit
PROPERTIES
    CardPaymentsRecorded
    ButtonsComeBack
