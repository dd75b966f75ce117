SPECIFICATION Spec
CONSTANTS
  Flights <- MCFlights
  None = None
INVARIANTS WireOrder KeyAfterCertificates
PROPERTIES StateGoesForward ErrorsClose
CHECK_DEADLOCK FALSE
