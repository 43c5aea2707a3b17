CONSTANTS
  m1 = m1
  m2 = m2
  p1 = p1
  c1 = c1
  c2 = c2
  l1 = l1
  Models <- MCModels
  Providers <- MCProviders
  ProviderOf <- MCProviderOf
  Clients <- MCClients
  Listers <- MCListers
  MaxSeq = 5
SPECIFICATION SettingsSpec
SYMMETRY MCSymmetry
PROPERTIES KnownKept RuleEndsKnowingly NewModelsStartBarred
