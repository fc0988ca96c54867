SPECIFICATION Spec
CONSTANTS
  Configs <- McConfigs
  Edits <- McEdits
  TopicIds <- McTopicIds
INVARIANTS
  ServerUsable
  
  FirstEntryUsed
PROPERTIES
  GivesUpIncomplete
