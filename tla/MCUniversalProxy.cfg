SPECIFICATION Spec
CONSTANTS
  Names <- MCNames
  Addrs <- MCAddrs
  Guarded <- MCGuarded
  Ports <- MCPorts
  DefaultPort <- MCDefaultPort
  Methods <- MCMethods
  ReverseNames = {}
  ParentOf <- MCNoServices
  Conns <- MCConns
  RuleInputs <- MCRuleInputs
  AnyPort = any
  BarePort = bare
  Gateway = gw
  Dash = dash
  Rotating <- MCRotating
  Hold = 2
  MaxStreams = 3
  MaxTicks = 2
  c1 = c1
  lib = lib
  own = own
  gw = gw
  host = host
  pub = pub
  web = web
  tls = tls
  any = any
  bare = bare
ACTION_CONSTRAINT ThirdIsOfHeld
INVARIANTS
  TablesTellWhatHappened
  DialledAddressIsRecent
PROPERTY ImplementsEgress
CHECK_DEADLOCK FALSE
