SPECIFICATION TelemetrySpec
CONSTANTS
    Wirings <- SecuredWirings
    Options <- MCOptions
    Incoming <- MCIncoming
INVARIANTS
    RouteTold
