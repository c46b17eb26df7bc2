\* A session that a workspace created is moved twice, between two workspaces
\* and Home; one connection is cut, one request lost or one restart of Home.
\* The client may stop writing for ever.
SPECIFICATION Spec
CONSTANTS
    Home = Home
    Remotes = {w1, w2}
    None = None
    Births = {w1}
    MaxEvents = 3
    MaxMoves = 2
    MaxCuts = 1
INVARIANTS TypeOK WorkspaceHasSession TailShowsLog FollowsWorkspace
PROPERTIES FormerOwnerIgnored TailSteps CatchesUpAgain
CHECK_DEADLOCK FALSE
