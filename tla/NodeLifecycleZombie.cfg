\* An unknown backend name, and no signal.
SPECIFICATION FairSpec
PROPERTY
  UnknownBackendStops
