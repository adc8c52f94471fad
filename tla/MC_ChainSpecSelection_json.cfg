SPECIFICATION Spec
INVARIANT JsonPathLoadedFromFile
