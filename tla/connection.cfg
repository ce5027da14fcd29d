CONSTANTS
    FromClient = 3
    FromServer = 1
    Outgoing <- MCOutgoing
    OneThread = TRUE
    Mixed = FALSE
    Keys = {"good", "bad"}
SPECIFICATION FairSpec
CHECK_DEADLOCK FALSE
   
PROPERTIES  ConnectRetries
