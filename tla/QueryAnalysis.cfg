SPECIFICATION mcSpec
CONSTANTS
  MaxEdits = 3
  max_parameters = 3
  large_offset_threshold = 1000
  join_weight = 250
  subquery_weight = 200
  max_hints = 2
  Durations = {0, 2, 9}
  MaxSamples = 6
  MaxLate = 1
  MinBasic = 3
  MinStatistical = 4
  min_data_points = 5
  MinWindow = 2
  minor_threshold = 10
  significant_threshold = 25
  critical_threshold = 50
  Config <- MCConfig
  work_mem_kb = 1024
  Plans <- MCPlans
  Selections <- MCSelections
  MaxFaults = 2
  Results <- MCResults
  HighlightCap = 1
  ScrollValues = 2
  Orders = {"Count", "Mean", "StdDev"}
  Tabs = {"Statistics", "Metadata"}
INVARIANT AnalysedInTheOrderRun
INVARIANT AlarmsAreReal
INVARIANT NamesAreScoped
INVARIANT EveryNodeOnce
INVARIANT FailuresAreIsolated
INVARIANT AssessmentIsFaithful
INVARIANT ScreenIsOfOneQuery
PROPERTY SameShapeSameFingerprint
PROPERTY ComplexityGrows
CHECK_DEADLOCK FALSE
