CONSTANTS
  c1 = c1
  lib = lib
  own = own
  other = other
  svc = svc
  rev = rev
  gw = gw
  pub = pub
  web = web
  tls = tls
  any = any
  bare = bare
  Conns <- MCConns
  Names <- MCNames
  ParentOf <- MCParentOf
  ReverseNames <- MCReverseNames
  Addrs <- MCAddrs
  Guarded <- MCGuarded
  Ports <- MCPorts
  AnyPort = any
  BarePort = bare
  DefaultPort <- MCDefaultPort
  Methods <- MCMethods
  RawPaths <- MCRawPaths
  RuleInputs <- MCRuleInputs
  LookupTypes <- MCLookupTypes
  Dash = dash
  UnknownHost = unknown
  Retries = 1
  MaxEvents = 2
SPECIFICATION Spec
INVARIANTS
  ReportTellsWhatHappened
  RowsAreNamed
  LookupsAreReported
  JudgedNamesAgree
PROPERTY
  ImplementsEgress
CONSTRAINT MCOneEventInAudit
CHECK_DEADLOCK FALSE
