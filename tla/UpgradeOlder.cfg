SPECIFICATION UpgradeSpec
CONSTANTS
    Windows = {1, 2}
    Versions = {1, 2}
    ProtocolOf <- OneProtocol
    FirstBuild <- BuildAtFirst
    CONNECT_ATTEMPTS = 1
    MaxFailures = 0
PROPERTY OlderLoses
CHECK_DEADLOCK FALSE
