SPECIFICATION Spec
CONSTANTS
    Earnings = {fee}
    Withdrawals = {monday, tuesday}
    Amounts = {1, 2}
    MinWithdrawal = 1
    Stops = FALSE
SYMMETRY Symmetry
INVARIANTS
    TypeOK
    BooksAgree
    PaidOnce
    EndedAsAtTheBank
PROPERTIES
    OnlyReversalsOverdraw
