SPECIFICATION Spec
CONSTANTS
  Lines <- Wordlist
  Blank = {"#"}
  Unclean = {"."}
  Extensions <- Exts
  NoExtension = ""
  Malformed <- NoURLs
  Unbuildable <- BadURLs
  Key <- LowerKey
  Discoveries <- Found
  Suites <- SomeSuites
  Suite <- EmptyFilter
  Pages <- EmptyPage
  Producers = {p1, p2}
  Workers = {w1}
  WordBuffer = 1
INVARIANTS SizeIsBodySize
