SPECIFICATION CalcSpec
CONSTANTS
  Null = Null
  Nan = Nan
  Text = Text
  Unfit = Unfit
  Windows <- MCWindows
  ScoredPairs <- MCScoredPairs
  DetectorWindows <- MCDetectorWindows
  Answered <- MCAnswered
  ObservationPairs <- MCObservationPairs
  NetworkAnswers <- MCNetworkAnswers
  Calls <- MCCalls
  DeviceLists <- MCDeviceLists
  Lookups <- MCLookups
  ContractChecks <- MCContractChecks
  AgentHistories <- MCAgentHistories
  RunLists <- MCRunLists
  RawBatches <- MCRawBatches
  AuditEntries <- MCAuditEntries
  Probes <- MCProbes
  CacheUses <- MCCacheUses
  Reports <- MCReports
  Pages <- MCPages
  ThreatBatches <- MCThreatBatches
  ToolCalls <- MCToolCalls
  Dispatches <- MCDispatches
  Startups <- MCStartups
  Charts <- MCCharts
  Seedings <- MCSeedings
  Cleanups <- MCCleanups
INVARIANTS
  RulesSound
  VerdictsCautious
  AnswersKept
  AgentsToldTrue
  ReportsAddUp
  PagesAgree
  SeedsRepeat
  BatchesHeard
  ChartsTrue
  RecursionsSound
CHECK_DEADLOCK FALSE
