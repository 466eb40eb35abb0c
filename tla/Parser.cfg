CONSTANT Texts <- MCTexts
SPECIFICATION FairSpec
CHECK_DEADLOCK FALSE
INVARIANTS
  TypeOK
  AcceptsTheGrammar
  TreeIsText
PROPERTIES
  ParsingEnds
