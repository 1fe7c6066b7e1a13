SPECIFICATION FairSpec
CONSTANTS
    Earnings = {fee}
    Withdrawals = {monday}
    Amounts = {1}
    MinWithdrawal = 1
    Stops = TRUE
PROPERTIES
    WithdrawalsEnd
