SPECIFICATION Spec
CONSTANTS
  Characters <- MCCharacters
  Texts <- LineEndTexts
  Keywords <- MCKeywords
  EofSlack = 2
INVARIANTS CommentsEndWithTheLine StringsEndWithTheLine
