SPECIFICATION Spec
CONSTANTS
  NoCause = NoCause
  NoReply = NoReply
  Investigations <- MCInvestigations
  Settings <- MCSettings
  Replies <- MCReplies
  Findings <- MCFindings
  Objections <- MCObjections
  Rebuttals <- MCRebuttals
  Scores = {0, 1}
  MaxMishaps = 1
CHECK_DEADLOCK FALSE
INVARIANT PageCanBeTrusted LearnedIsIntact ReplayReproduces
