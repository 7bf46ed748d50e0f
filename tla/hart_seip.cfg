SPECIFICATION Spec
CONSTANTS
  Iprio <- MCIprio
  Programs <- RoutingPrograms
PROPERTY SupervisorExternalReachesMachine
