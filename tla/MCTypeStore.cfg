SPECIFICATION Spec
CONSTANTS
 Programs <- MCPrograms
 MaxDepth = 24
INVARIANTS UsesMeanWhatIsWritten OneTypePerMeaning ContentsAsDefined MeaningsAreAccepted
