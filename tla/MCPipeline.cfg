CONSTANTS
  Runs = {r1, r2}
  Legislators = {l1}
  Values = {v1, v2}
  Bills = {b1}
  MaxFaults = 2
  MaxChanges = 2
SPECIFICATION LiveSpec
INVARIANTS PipelineTypeOK RecordedIsTheirs
PROPERTIES ProfilesConverge PdfsArrive
