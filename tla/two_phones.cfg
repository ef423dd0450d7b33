\* Each phone makes or gets three calls.
SPECIFICATION Spec
CONSTANTS
    Nil = Nil
    Accounts = 0
    MaxUas = 3
    MaxTransactions = 3
INVARIANTS TypeOK NobodyDies Mirrored AcksFindTheirDialog
PROPERTY AcceptedIsEstablished
\* All calls made and nothing new on the network.
CHECK_DEADLOCK FALSE
