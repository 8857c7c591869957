SPECIFICATION FairSpec
CONSTANTS
    c1 = c1
    c2 = c2
    c3 = c3
    s1 = s1
    Nobody = Nobody
    Command <- MCCommands
    Stopper <- MCStopper
    Crowd <- MCCrowds
    MaxKills = 1
INVARIANTS DaemonKeepsItsAddress PidFileNamesTheDaemon CommandsShareTheDaemon
PROPERTIES CommandsEnd StoppedDaemonsGo
