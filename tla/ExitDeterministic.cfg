SPECIFICATION Spec
CONSTANTS
  Registry <- MCRegistry
  Unknown <- MCUnknown
  Outcomes <- MCOutcomes
  Waiting = {"docker_socket", "groups"}
  Mortal = {"docker_socket"}
  MaxProbes = 3
  ProbeCapacity = 2
  MaxFindings = 2
INVARIANT DeterministicExitsTwo
CHECK_DEADLOCK FALSE
