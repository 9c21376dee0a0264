\* The process in every environment, with a stream, a probe and a scrape.
CONSTANTS
    Environments <- MCEnvironments
    Requests <- MCRequests
SPECIFICATION Spec
INVARIANTS TypeOK ValidatedConfigWires CleanExitCutsNobody OnlyASignalStopsCleanly
PROPERTIES StopsInTime NoHalfGateway
