\* PIT period of 15 ticks restarted by the reload write; 12 LAPIC ticks at
\* 1 to 4 LAPIC ticks per PIT tick, so the count spans 3 to 12 PIT ticks.
CONSTANTS
    PitMax = 15
    PitRestarts = TRUE
    LapicTicksCount = 12
    PitBaseFreq = 3
    Ratios = {1, 2, 3, 4}
    Freqs = {2, 4, 5}
SPECIFICATION Spec
INVARIANT TypeOK
INVARIANT CalibrationSound
INVARIANT ReloadNearest
