SPECIFICATION Spec
CONSTANTS
  planner = planner  writer = writer  app = app
  outer = outer  lookup = lookup  chat = chat  embed = embed  inner = inner  reply = reply  lone = lone  note = note  manifest = manifest
  reviewer = reviewer  gpt = gpt  mini = mini  files = files  search = search
  docs = docs  greeting = greeting  service = service
  NoKey = NoKey  NoAgent = NoAgent  Unknown = Unknown
  Keys <- MCKeys
  Agents <- MCAgents
  Sources <- MCSources
  Spans <- NamedCalls
  Says <- MCSays
  Names <- MCNames
  NoName = NoName
  MaxBatch = 2
  MaxDedupeItems = 9
INVARIANTS
  NoCallCountedTwice
CHECK_DEADLOCK FALSE
