SPECIFICATION Spec
CONSTANTS
  Characters <- MCCharacters
  Texts <- LineTexts
  Keywords <- MCKeywords
  EofSlack = 2
INVARIANTS LinesAreTheTextsLines TokensReadBack TokensHaveALine
