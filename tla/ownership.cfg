SPECIFICATION Spec
CONSTANTS
  h1 = h1
  h2 = h2
  p1 = p1
  p2 = p2
  d1 = d1
  d2 = d2
  d3 = d3
  b2 = b2
  a1 = a1
  a2 = a2
  a3 = a3
  t1 = t1
  s1 = s1
  r1 = r1
  r2 = r2
  c1 = c1
  x1 = x1
  v1 = v1
  Nobody = Nobody
  Handlers <- MCHandlers
  Projects <- MCProjects
  Deployments <- MCDeployments
  Builds = {b2}
  Assistants <- MCAssistants
  Threads = {t1}
  States = {s1}
  Runs <- MCRuns
  CronJobs = {c1}
  Executions = {x1}
  Deliveries = {v1}
  ProjectOf <- MCProjectOf
  FirstRows <- MCFirstRows
  FirstOwners <- MCFirstOwners
  Strategies = {"reject", "interrupt", "rollback", "enqueue"}
  Outcomes = {"pending", "running", "interrupted", "done"}
  MaxRequests = 3
  MaxWork = 3
INVARIANTS
  TypeOK
  LoneDeletionSucceeds
  OneProject
  SecondActiveNeedsOverlap
SYMMETRY Symmetry
CHECK_DEADLOCK FALSE
