\* A compose project with a systemd service on an engine of the host.
CONSTANTS
    Hosts <- MCComposeHosts
    RunHosts <- MCComposeHosts
    MaxFailures = 1
SPECIFICATION Spec
INVARIANT NotStartedUnvalidated
