\* A provider in two namespaces, with up to two versions of up to five documents,
\* on pages of two.
CONSTANTS
  Namespace = {hashicorp, other}
  Hashicorp = hashicorp
  MaxVersion = 2
  MaxDoc = 5
  Hcl <- MCHcl
  CategoryOf <- MCCategoryOf
  Matching <- MCMatching
  ShowAll = 2
  ShowFew = 1
  PageSize = 2
  RetryMax = 2
SPECIFICATION Spec
INVARIANTS
  TypeOK
  AnswerIsOfAskedProvider
  AnswerComplete
PROPERTIES
  EveryCallAnswered
