CONSTANTS
    P1 = P1
    P2 = P2
    NoPartner = NoPartner
    Nil = Nil
    UE = UE
    IE = IE
    ER = ER
    BJ = BJ
    BadJSON <- BJ
    SelfServe <- MCSelfServe
    Products <- MCProducts
    UnknownEmail <- UE
    InvalidEmail <- IE
    EmptyRecord <- ER
    NumUsers = 3
    Limit = 1
    DefaultPlacement = 0
    MaxChanges = 1
    Projects <- MCProjects
    Allowed <- MCAllowed
    NewPlacementChoices <- MCNewPlacementChoices
    MappingChoices <- MCMappingChoices
    DefaultPartnerMap <- MCDefaultPartnerMap
    InitialActive <- MCInitialActive
    Targets <- MCTargetsAll
    EmailArgs <- MCEmailArgs
    CSVFiles <- MCCSVFiles
SPECIFICATION Spec
\* The command returns: the run ends there.
CHECK_DEADLOCK FALSE
INVARIANT PlacementsPreserved
