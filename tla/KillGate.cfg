SPECIFICATION Spec
CONSTANTS
    Tasks = {1, 2}
    Hosts = {h1, h2}
    RunSecs = {6}
    HRt = 0
    SearchHRt = 0
    MinDeaths = 2
    MinHosts = 2
    Window = 1
    Lines = {l1, l2}
    MaxErrors = 2
    MaxRounds = 2
PROPERTY NoSubmitUnderIncident
