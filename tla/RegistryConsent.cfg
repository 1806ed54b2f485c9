SPECIFICATION Spec
CONSTANTS
    app = app
    audit = audit
    Workloads = {sensor}
    Paths = {app}
    Deployments <- InOrOut
    Garbled = Garbled
    NoDeployment = NoDeployment
    NotListed = NotListed
    MaxChanges = 5
    MaxFailures = 0
INVARIANT WatchedOnlyWithConsent
