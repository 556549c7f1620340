SPECIFICATION Spec
CONSTANTS
    None = None
    Rank <- MCRank
    Addr <- MCAddr
    FamilyOf <- MCFamilyOf
    Link <- MCLink
    Port <- MCPort
    Proto <- MCProto
    Inside <- MCInside
    LinkTo <- MCLinkTo
    Own <- MCOwn
    Uplink <- MCUplink
    Delegated <- MCDelegated
    ClientPort = 5000
    Declared <- MCRenumbered
INVARIANT EstablishedStay
