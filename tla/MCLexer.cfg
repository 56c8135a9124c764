SPECIFICATION FairSpec
CONSTANTS
  Characters <- MCCharacters
  Texts <- MCTexts
  Keywords <- MCKeywords
  EofSlack = 2
INVARIANTS SpansCutTheText LexesTheText
  TokensOnTheirLine TokensReadBack
PROPERTIES LexerReturns
