SPECIFICATION FairSpec
CONSTANTS
    Repos = {"git/nginx"}
    NoRepo = NoRepo
    NoJob = NoJob
    NoVars = NoVars
    Torn = Torn
    WorkDir <- MCWorkDir
    Remotes <- MCRemotes
    DefaultBranch = "main"
    Jobs <- MCJobs
    MaxCommits = 3
    MaxDisturbances = 3
    Disturbances = {"network", "disk", "playbook", "kill", "killClone", "assign"}
INVARIANT
    RunsItsJob
PROPERTIES
    NeverOlder
    
CHECK_DEADLOCK FALSE
