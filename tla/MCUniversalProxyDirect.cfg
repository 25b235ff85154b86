SPECIFICATION Spec
CONSTANTS
  Names <- MCNames
  Addrs <- MCAddrs
  Guarded <- MCGuarded
  Ports <- MCPorts
  DefaultPort <- MCDefaultPort
  Methods <- MCMethods
  ReverseNames = {}
  ParentOf <- MCNoServices
  Conns <- MCConns
  RuleInputs <- MCRuleInputs
  AnyPort = any
  BarePort = bare
  Gateway = gw
  Dash = dash
  Rotating <- MCRotating
  Hold = 2
  MaxStreams = 1
  MaxTicks = 0
  c1 = c1
  lib = lib
  own = own
  gw = gw
  host = host
  pub = pub
  web = web
  tls = tls
  any = any
  bare = bare
INVARIANT IpRulesCoverAnyProtocol
CHECK_DEADLOCK FALSE
