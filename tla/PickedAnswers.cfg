\* The linter's bounds of DashboardTools.cfg; only its own claim is checked.
SPECIFICATION ToolsSpec
CONSTANTS
  Columns = 4
  Widths = {1, 2, 3}
  Heights = {1, 2}
  MaxPanels = 5
  LOCAL_LABELS = {"job", "stack", "release", "reason_code", "where", "operation"}
  LOCAL_BARE_SERIES = {"stack:m"}
  AGGREGATIONS = {"sum", "count_values", "topk", "sort"}
  RANGE_AGGREGATIONS = {"count_over_time", "max_over_time", "rate"}
  METRIC_TYPE_RE = {"run/requests", "nat/dropped"}
  MONITORED_RESOURCES = {"host", "nat_gateway"}
  CLOUD_PANEL_TYPES = {"row", "stat", "text"}
  ALLOWED_LABELS = {"service", "reason", "host"}
  LABEL_ONLY_ON <- MCLABEL_ONLY_ON
  RESOURCE_LABELS = {"host"}
  LOCAL_UIDS = {"prometheus", "loki"}
  FORBIDDEN = {"tid"}
  CLOUD_VARIANTS = {"no-cc", "production"}
  CC_ONLY_PAGES = {"y"}
  datasources <- MCdatasources
  Carries <- MCCarries
  Default = "prometheus"
  Queries <- MCQueries
  Texts <- MCTexts
  CloudDashboards <- MCCloudDashboards
  LocalDashboards <- MCLocalDashboards
  Rules <- MCRules
  Trees <- MCTrees
  Keys = {"a", "b"}
  Indents = {2}
  MaxLines = 6
  MaxColumn = 7
CHECK_DEADLOCK FALSE
INVARIANT EveryAnswerListed
