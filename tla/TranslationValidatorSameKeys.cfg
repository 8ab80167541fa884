\* Two languages suffice: the second may have a key more.
SPECIFICATION Spec
CONSTANTS
  Keys = {"title", "login", "logout"}
  MaxLanguages = 3
INVARIANTS
  SameKeys
