SPECIFICATION Spec
CONSTANTS
    Repos = {"git/nginx"}
    NoRepo = NoRepo
    NoJob = NoJob
    NoVars = NoVars
    Torn = Torn
    WorkDir <- MCWorkDir
    Remotes <- MCRemotes
    DefaultBranch = "main"
    Jobs <- OnMain
    MaxCommits = 3
    MaxDisturbances = 1
    Disturbances = {"playbook"}
INVARIANT
    UpdatedToVersion
CHECK_DEADLOCK FALSE
