SPECIFICATION Spec

CONSTANTS
  f1 = f1
  f2 = f2
  p1 = p1
  p2 = p2
  None = None
  IndexFile = IndexFile
  Files = {f1, f2}
  Procs = {p1, p2}
  MaxText = 2
  Words = {"c", "npu"}
  Letters = {"c"}
  Folder <- SampleFolders
  About <- SampleTexts
  Snippet = 5
  Limits = {1, 4}
  Lengths = {3, 8, 40}
  Budgets = {10, 30, 60}

SYMMETRY FileProcSymmetry

INVARIANTS
  TypeOK
  ServesFilesOnce
  OneWriter
  KnowledgeIsFound
  ContextFillsItsBudget

PROPERTIES
  KnowledgeIsStable
