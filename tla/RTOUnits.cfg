\* The first round-trip sample, of 125 ms to 4 s.
CONSTANTS
    SampleMSecs = {125, 500, 2000, 4000}
    MaxEvents = 4
SPECIFICATION Spec
PROPERTY FirstSampleCovered
