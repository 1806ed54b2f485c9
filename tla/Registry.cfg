SPECIFICATION FairSpec
CONSTANTS
    app = app
    audit = audit
    Workloads = {sensor}
    Paths = {app, audit}
    Deployments <- Several
    Garbled = Garbled
    NoDeployment = NoDeployment
    NotListed = NotListed
    MaxChanges = 5
    MaxFailures = 1
INVARIANTS WatchedOnlyRunning WatchedWasConsented
PROPERTIES RegistryCatchesUp StoppedIsUnwatched
