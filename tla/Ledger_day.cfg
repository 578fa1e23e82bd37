SPECIFICATION Spec
CONSTANTS
  Money = {1}
  Orders <- MCOrders
  SaleKey = {1}
  Bundles <- MCBundles
  MaxCustomer = 1
  MaxSale = 1
  MaxInstallment = 2
  MaxPayment = 2
  MaxDay = 2
  MaxKey = 2
  MaxCalls = 2
  MaxImport = 1
  ReloadAnytime = FALSE
INVARIANTS
  LTypeOK
  MoneyExportable
  PaidDateCurrent
  ReplayedOnce
  StartupOpens
  VerifiedBeforeUse
