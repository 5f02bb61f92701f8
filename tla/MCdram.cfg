SPECIFICATION FairSpec
CONSTANTS
    Configs <- MCConfigs
    BankIds <- MCBankIds
    RequestIds <- MCRequestIds
    MaxAge = 5
INVARIANTS TypeOK RowsOpen BusExclusive Awake
PROPERTIES TimingsKept BanksInOrder RequestsFinish
