\* One task with one stream that may lag, and one restart; four tasks through a
\* table of three with two running, read one a page, all or
\* those of a conversation of three; one attempt; two prompts in
\* one session; two sessions over three directories with room for two,
\* and five requests; two calls
\* to one server at a time, three in all.
CONSTANTS
  Stream = {s1}
  Capacity = 2
  MaxRestarts = 1
  TaskId = {t1, t2, t3, t4}
  Conversation = {t1, t2, t4}
  MaxRetained = 3
  MaxActive = 2
  PageSize = 1
  Attempt = {a1}
  Prompt = {p1, p2}
  MaxHistory = 2
  MaxServerStarts = 1
  Client = {c1, c2}
  Directory = {d1, d2, d3}
  DefaultDirectory = d1
  MaxWorkspaces = 2
  MaxClock = 6
  Caller = {k1, k2}
  MaxLaunches = 3
  MaxCalls = 3
SPECIFICATION Spec
INVARIANTS
  TypeOK PagesMissNothing StreamsTellTheEnd AttemptIsHonest
  TurnsAreFinished OneLedgerPerDirectory OneServerRuns
PROPERTIES StreamsEnd PromptsAreAnswered
\* Every behaviour is bounded.
CHECK_DEADLOCK FALSE
