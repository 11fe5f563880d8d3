SPECIFICATION Spec
CONSTANTS
    Names = {local, ada}
    Local = local
    AdminName = ada
    NoUser = NoUser
    Tokens = {t1}
    NoToken = NoToken
    AdminToken = AdminToken
    AuthModes = {TRUE, FALSE}
    Roles = {"reader"}
    MaxBoots = 2
    Tasks = {r1}
    MaxAttempts = 1
    Windows = {50}
    Paddings = {5}
    NoWindow = NoWindow
    Requests = {r1}
    Background = {}
    Workspaces = {k1}
    NoWorkspace = NoWorkspace
    MaxAsks = 1
INVARIANTS
    SomeoneCanSignIn
CHECK_DEADLOCK FALSE
