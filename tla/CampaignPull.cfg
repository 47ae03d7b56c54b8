SPECIFICATION FairSpec
CONSTANTS
    Tasks = {1, 2, 3}
    Hosts = {h1, h2}
    RunSecs = {6, 10}
    HRt = 10
    SearchHRt = 5
    MinDeaths = 2
    MinHosts = 2
    Window = 1
    Lines = {l1, l2}
    MaxErrors = 2
    MaxRounds = 1
ACTION_CONSTRAINT InOrder
INVARIANT OnePuller
PROPERTY PullsGoOn
PROPERTY OutageSurfaces
PROPERTY RetreatsOnBursts
PROPERTY OnlyAPersonReopens
PROPERTY Quiesces
