\* A provider that is there while a request for its latest version fails.
CONSTANTS
  Namespace = {hashicorp, other}
  Hashicorp = hashicorp
  MaxVersion = 2
  MaxDoc = 3
  Hcl <- MCHcl
  CategoryOf <- MCCategoryOf
  Matching <- MCMatching
  ShowAll = 2
  ShowFew = 1
  PageSize = 2
  RetryMax = 2
SPECIFICATION Spec
PROPERTY FallsBackOnlyIfMissing
