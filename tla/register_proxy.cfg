SPECIFICATION Spec
CONSTANTS
  Catalog <- MCCatalog
  XaiAnswers <- MCXaiAnswers
  Imagine <- MCImagine
  OwnTexts <- MCOwnTexts
INVARIANTS TypeOK NamesOnce BlockReplaced NothingLost
