\* Two caller strings, errors under at most two wrappers, and a stack of
\* 50 nested Display::fmt calls: far more than any chain of wrappers here
\* needs, so only a Display impl that formats itself can exhaust it.
CONSTANTS
    Strings = {s1, s2}
    MaxNesting = 2
    MaxFrames = 50
SPECIFICATION Spec
INVARIANT ReportTerminates
