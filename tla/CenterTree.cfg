SPECIFICATION Spec
CONSTANTS
    r1 = r1
    r2 = r2
    Requests = {r1, r2}
    Ops = {"Index", "AddArea", "DeleteArea", "AddDevice", "EditDeviceArea", "DeleteDevice", "AddAccountGroup", "DeleteAccountGroup", "AccountGroupDeviceEdit", "DeleteAccountGroupDevice"}
    Serials = {1}
    HtmlDecode <- MCDecode
    Limit <- MCTree
SYMMETRY Symmetry
INVARIANT
    TypeOK
PROPERTIES
    NothingLeftBehind
    
