SPECIFICATION Spec
CONSTANTS
    Acking = {g1, g2}
    Joining = {g3}
    NewMessages = {second}
    Legacy = {client}
    First = first
INVARIANT ArchivedOnce
PROPERTIES TransactionsEnd
CHECK_DEADLOCK FALSE
