SPECIFICATION Spec
CONSTANTS
    w1 = w1
    w2 = w2
    Workers = {w1, w2}
    Clients = {"reader", "getmail"}
    MayCrash = TRUE
    BaseId = 2
    Limit = 2
    MaxMade = 6
PROPERTIES
    MailNotOverwritten
    DeletedIsSent
    CursorSkipsNothing
