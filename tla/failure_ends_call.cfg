CONSTANT Dhcp = TRUE
SPECIFICATION FairSpec
PROPERTIES FailureEndsCall
