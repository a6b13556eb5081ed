SPECIFICATION Spec
CONSTANTS
    r1 = r1
    r2 = r2
    Requests = {r1, r2}
    Ops = {"Index", "AddDevice", "EditDevice", "DeleteDevice", "AddAccount", "DeleteAccount", "AddServer", "DeleteServer", "ServerDeviceEdit", "ServerDeviceDelete"}
    Serials = {1, 2}
    HtmlDecode <- MCDecode
    Limit <- MCServers
SYMMETRY Symmetry
INVARIANT
    NoWrongKind
PROPERTIES
    ServersDetached
    DeletedForGood
