SPECIFICATION Spec
CONSTANTS
  r1 = r1
  r2 = r2
  d1 = d1
  d2 = d2
  project = project
  init = init
  module = module
  in1 = in1
  in2 = in2
  in3 = in3
  sums = sums
  readme = readme
  manifest = manifest
  case = case
  invalid = invalid
  page1 = page1
  page2 = page2
  extra = extra
  Runs = {r1, r2}
  Sources = {project, init, module, in1, in2, in3}
  Blocks = {1, 2}
  Values = {0, 1}
  Directories = {d1, d2}
  Slots = {sums, extra, invalid, manifest, page1, page2, readme, case}
  Absent = Absent
  Symlink = Symlink
  Folder = Folder
  Special = Special
  Plain = Plain
  Unread = Unread
  Others = Others
  Empty = Empty
  Long = Long
  Brought <- MCBrought
  Situations <- MCSituations
  MaxChanges = 2
  CorpusPaths <- MCCorpusPaths
  Readme = readme
  CorpusManifest = manifest
  ScenarioPath = case
  ValidationPath = invalid
  Corpus = Corpus
  Alike = Alike
  ScenarioInputs <- MCScenarioInputs
  LoadableContents <- MCLoadable
  ExpectedContents <- MCExpected
  ReportPaths <- MCReportPaths
  ReportManifest = manifest
  PageOf <- MCPageOf
  BuildFiles <- MCBuildFiles
  PackageFiles <- MCPackageFiles
  VersionFile = init
  VersionOf <- MCVersionOf
  NoVersion = NoVersion
  NotPython = NotPython
  VacantDirectory = VacantDirectory
  Scenario = Scenario
  Akin = Akin
  ReportFormats <- MCReportFormats
  SeriesLength = 2
CHECK_DEADLOCK FALSE
INVARIANTS ResultsWhole OneInstant
PROPERTIES OutcomesExact
