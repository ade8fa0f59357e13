SPECIFICATION FairSpec
CONSTANTS
    Clients = {"c1", "c2"}
    Mortal = {"c1"}
    Again = {"c1"}
    Jobs <- OneCloudJob
    MaxHeavy = 1
    Threads = 2
    MaxRetries = 1
    MaxVersion = 2
    MaxTimeouts = 1
INVARIANT QuotaPreventsOverload
PROPERTIES SubmittedCompilerWasInstalled PermitsComeBack CompilationsEnd
