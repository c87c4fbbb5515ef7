SPECIFICATION Spec
CONSTANTS
    Width <- MCWidth
    Finals <- MCFinals
    Typeable <- MCTypeable
    LineLimit = 2
    Vocabulary <- MCVocabulary
    MAX_OUTPUT = 5
    Pieces <- MCPieces
    MaxKeys = 4
    MaxChunk = 3
    MaxWrites = 3
    MaxInbox = 1
    MaxEvents = 2
INVARIANT RunsWhatWasTyped
INVARIANT PromptThenLine
INVARIANT OutputMarked
