SPECIFICATION Spec
CONSTANTS
  app = app
  f1 = f1
  f2 = f2
  Findings = {f1, f2}
  Files = {app}
  Requests = {r1, r2}
  FileOf <- OneFile
  Line <- Lines
  Code <- Copied
  Kind <- OneRule
  Batches <- AnyBatch
  Patchable = {f1, f2}
  Torn = Torn
  NoBackup = NoBackup
  None = None
SYMMETRY HandoffSymmetry
INVARIANTS VerifiedWasTested ChangesAreApproved VerifiedIsFixed NothingIsLost
