\* The PIT keeps its phase when the reload value is written: the count
\* may start at any tick and wrap during the measurement.
CONSTANTS
    PitMax = 15
    PitRestarts = FALSE
    LapicTicksCount = 12
    PitBaseFreq = 3
    Ratios = {1, 2, 3, 4}
    Freqs = {2, 4, 5}
SPECIFICATION Spec
INVARIANT CalibrationSound
