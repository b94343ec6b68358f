\* GenerateJNIHeader over four runs, checked against AllOrNothingOutput.
\* The runs stop after MaxRuns processes, so deadlock is not an error.
CONSTANTS
  s1 = s1  s2 = s2  s3 = s3  s4 = s4  h1 = h1  h2 = h2
  NoFile = NoFile  TornFile = TornFile
  Sources <- MCSources  Contents <- MCContents  Errors <- MCErrors  Gen <- MCGen
  MaxRuns = 4
SPECIFICATION Spec
INVARIANT AllOrNothingOutput
CHECK_DEADLOCK FALSE
