\* Two paths, one of which git status does not watch, under both baselines.
SPECIFICATION FairSpec
CONSTANTS
    Paths = 2
    Hidden = {2}
    MaxChanges = 2
    MaxFaults = 1
INVARIANTS ConflictIsReal DigestIsOfOneMoment VerifiedWasThere
PROPERTIES VerificationEnds
