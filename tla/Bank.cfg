SPECIFICATION BankSpec
INVARIANTS
  AccessHits
