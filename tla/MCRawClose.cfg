SPECIFICATION FairSpec
PROPERTY AbruptCloseLetsGo
CHECK_DEADLOCK FALSE
