SPECIFICATION Spec
CONSTANTS
    MAX_ARRAY_NESTING = 15
    MAX_ITEMS_IN_ARRAY = 65534
    MAX_ARRAY_OFFSET = 2147483547
    Inputs <- MCInputs
CHECK_DEADLOCK FALSE
INVARIANTS
    ClaimsReadBack
    CoseCarriesWhatIsSigned
    HeadIsShortest
    PutIsGot
    Base64IsStandard
    CidIsJedec
    VerifierCoversQuote
