SPECIFICATION Spec
CONSTANTS
  h2 = h2
  h3 = h3
  NONE = NONE
  MaxRestarts = 1
  MaxInFlight = 1
  DataPublishers = {c1, c2}
  MaxHandle = 2
  Identities = {i1}
  Tracks = {t1}
  MaxSids = 2
  MaxObjects = 2
  RoomRestarts = 1
  Publishers = {c1}
  Worker = w1
  Cids = {x1, x2}
  Simulcast = {x2}
  Retries = FALSE
  MaxAttempts = 3
  PublishInJoin = FALSE
  BadCandidates = FALSE
  MaxChanges = 2
  MaxOffers = 5
  MaxCandidates = 1
  MaxResumes = 2
  Layers = {x1, x2}
  MaxUpdates = 3
  MayFail = TRUE
  Subscribers = {c1, c2}
  MaxCalls = 3
  MaxSyncs = 1
  Requests = {c1, c2}
  Deadlines = {c1}
  Project = h1
  Lists <- RegionLists
  failoverMaxAttempts = 3
  DefaultTTL = FALSE
  CloudAPI = FALSE
INVARIANTS
  ParticipantsAgree
  PublicationsAgree
  NegotiationConverges
  BackupServed
  SubscriptionKept
  FailoverBounded
PROPERTIES
  DataTracksAgree
CHECK_DEADLOCK FALSE
