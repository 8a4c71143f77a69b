\* The start of the process and its log; the connections of its Booter.
SPECIFICATION PartsSpec
CONSTANTS
    CommandLines <- MCCommandLines
    Ports <- MCPorts
    Broken <- MCBroken
    Workers = {w1}
    SpecCallers = {loop, handler}
    FileCallers = {file}
    Conns = {k1, k2, k3}
    NoConn = NoConn
INVARIANTS ListeningIsTrue BlockedHaveReader ForgottenHaveTimer
PROPERTIES LogsAreTaken AllOrNothing GetSpecReturns
