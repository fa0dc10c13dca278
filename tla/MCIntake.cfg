\* Configuration files, headers and payloads in every combination.
SPECIFICATION Spec
CONSTANTS
    Blank = Blank
    None = None
    Files <- MCFiles
    Environments <- MCEnvironments
    ApiKeyHeaders <- MCApiKeyHeaders
    Authorizations <- MCAuthorizations
    Payloads <- MCPayloads
CHECK_DEADLOCK FALSE
INVARIANTS LimitsInForce KeyLeadsToOwner UnknownHasNoDepartmentLimit OutputCapHolds
