SPECIFICATION Spec
CONSTANTS
  MaxTag = 1
  MaxUploads = 2
  Listing <- MCListing
  None = None
  Hosts = {1, 2}
  Logins = {"key"}
  Callers = {1, 2}
  MaxDials = 2
  NoClient = NoClient
  Drafts <- MCDrafts
  HostKind <- MCHostKind
  Concurrencies = {1, 2}
  MaxAttempts = 2
  LocalRequests <- MCRequests
  Systems = {"darwin", "windows"}
  MaxPrepares = 2
  Updates = {u1, u2}
  ReleaseTags <- MCReleaseTags
  InitialTags <- MCInitialTags
  MaxRebuilds = 2
  NoRelease = NoRelease
INVARIANTS
  InstalledIsVerified
  
  
  
  
SYMMETRY InstallSymmetry
CHECK_DEADLOCK FALSE
