CONSTANTS
    d1 = d1
    d2 = d2
    Resources <- MCResources
    Drivers <- MCDrivers
    MaxGrants <- MCMaxGrants
SPECIFICATION TokenSpec
INVARIANT TypeOK
INVARIANT TokensUnique
INVARIANT HeldIsClaimed
INVARIANT AuditNeverOvercounts
PROPERTY OneBitPerStep
PROPERTY LostStaysLost
PROPERTY TokensImplementOwnership
