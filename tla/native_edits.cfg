\* Every valid preparation, and every way to change the call in any number of fields.
SPECIFICATION Spec
CONSTANTS
    Others = {"other"}
    Counts = {"3"}
    Models = {"m", "n"}
    Efforts = {"e", "f"}
    MaxEdits = 7
INVARIANTS ClaimedRunsAsPrepared RenderedIsClaimed DenialIsEstablished
CHECK_DEADLOCK FALSE
