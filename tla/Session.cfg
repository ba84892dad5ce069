\* Three entries of any type; two files let a
\* session be branched or forked, one crash may hit any write.
CONSTANTS
  Types = {"user", "assistant", "custom", "compaction", "label", "unlabel"}
  MaxEntries = 3
  MaxFiles = 2
  MaxCrashes = 1
SPECIFICATION Spec
CHECK_DEADLOCK FALSE
INVARIANTS
  TypeOK
  FileHoldsSession
PROPERTIES
  StoreSpec
  MessageExtendsContext
  BranchKeepsSession
