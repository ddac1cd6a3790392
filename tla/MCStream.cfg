SPECIFICATION FairSpec
CONSTANTS
    run = run
    Runs = {run}
    Outputs = {"metrics"}
    Streams = {s1, s2}
    Watch <- MCWatch
    MaxPolls = 3
CHECK_DEADLOCK FALSE
INVARIANTS DoneIsTrue EveryChangeSent NeverBackwards
PROPERTIES StreamEnds EndIsReported
