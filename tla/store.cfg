SPECIFICATION Spec
CONSTANTS
  Generic = generic
  Named = {openai}
  MaxRounds = 2
  Ttl = 2
  MaxId = 2
INVARIANTS RootAgrees ResultForItsRow UntestedMeansNoneAvailable StatsCurrent OutcomeSound
