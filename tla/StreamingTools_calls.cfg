SPECIFICATION Spec
CONSTANTS
    Callers = {a, b}
    Hosts = {"local", "remote"}
    Ports = {"4222", "4333", "bad"}
    StreamIDs = {"ies", "preworm"}
    None = None
    Unparsable <- Bad
    Requests <- SomeRequests
    InitialHost = "local"
    InitialPort = "4222"
    InitialStreamID = "ies"
    MaxUpdates = 2
SYMMETRY Symmetry
INVARIANTS
    IInv
    SwitchAsAsked
    NoStrayConnection
    ClientAsConfigured
    ActiveIsConnected
    ReportFits
