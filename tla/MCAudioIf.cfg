\* Sounds: as long as one ramp, and as long as both together; a copy and the sample accepted at
\* the same edge fill a queue of two.
CONSTANTS
    DataWidth = 2
    FullVolume = 2
    FadeOut = 2
    QueueSize = 2
    Lengths = {2, 4}
SPECIFICATION AudioSpec
INVARIANTS AudioType WholeWords
PROPERTIES SampleSent VolumeSmooth
