SPECIFICATION Spec
CONSTANTS
    Names = {local, ada}
    Local = local
    AdminName = ada
    NoUser = NoUser
    Tokens = {t1}
    NoToken = NoToken
    AdminToken = AdminToken
    AuthModes = {TRUE, FALSE}
    Roles = {"reader"}
    MaxBoots = 2
    Tasks = {r1, b1}
    MaxAttempts = 3
    Windows = {80, 300}
    Paddings = {5, 20}
    NoWindow = NoWindow
    Requests = {r1}
    Background = {b1}
    Workspaces = {k1}
    NoWorkspace = NoWorkspace
    MaxAsks = 1
INVARIANTS
    TypeOK
    HistoryIsWhatWasAnswered
    QuotaWaitIsShort
    BackgroundIsPatient
PROPERTIES
    SignedOutStaysOut
    EveryAskEnds
CHECK_DEADLOCK FALSE
