CONSTANT Dhcp = TRUE
SPECIFICATION FairSpec
INVARIANTS TypeOK OkWasUp
PROPERTIES NoRoundAfterDeadline TimedCallReturns JoinedCallReturns
