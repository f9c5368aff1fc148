SPECIFICATION Spec
CONSTANTS
    MaxTimeDiff = 2
    Label = {"A", "B"}
    Name = {"p", "q"}
    Id = {"id1", "id2"}
    Unknown = "Unknown Speaker"
    None = none
    Voices <- MCVoices
    Captions <- MCCaptions
    LastTime = 4
    MaxVoices = 2
    MaxCaptions = 3
INVARIANTS TypeOK NearestSpeaker SameVoiceSameId
CHECK_DEADLOCK FALSE
